------------------------- MODULE AgentManagerProofs -------------------------
(***************************************************************************)
(* Proofs about AgentManager and the transport it uses, for any number of  *)
(* agents, processes and prompts and pipes of any length.                  *)
(***************************************************************************)
EXTENDS AgentManager, SequenceTheorems, TLAPS

-----------------------------------------------------------------------------
(* The transport, PiRpcProcess, on its own: the types, the table of        *)
(* pending requests, and that what send() returns is true and final.       *)

Kinds == {"turn_start", "ui_request", "agent_settled"}

(* A response of success that is under way is to a prompt that Pi took.    *)
ResponsesTrue ==
    \A p \in Procs : \A i \in 1..Len(stdout[p]) :
        stdout[p][i].kind = "response" /\ stdout[p][i].ok = TRUE => stdout[p][i].id \in taken

RpcInv == RpcTypeOK /\ WaitingIsPending /\ NoWaitOnClosed /\ AnsweredIsTaken /\ ResponsesTrue

(* The steps of the transport, by what they may change.                    *)
ObjectStep(p) ==
    \/ Spawn(p) \/ ExitSeen(p) \/ Kill(p) \/ OnResponse(p) \/ Stop(p) \/ Write(p, <<"abort">>)
    \/ Write(p, <<"answer">>)
    \/ \E r \in Requests : Send(p, r) \/ SendFails(p, r) \/ TimeOut(p, r)
    \/ \E kind \in Kinds : TakeEvent(p, kind)

PiStep(p) ==
    \/ PiAccepts(p) \/ PiHandles(p) \/ PiRefuses(p) \/ PiTurns(p) \/ PiAsks(p)
    \/ PiGetsAnswer(p) \/ PiSettles(p) \/ PiAborts(p) \/ PiDies(p)

(* A step is one of the object, or one of the child.                       *)
LEMMA NextSteps == RpcNext => \E p \in Procs : ObjectStep(p) \/ PiStep(p)
BY DEF RpcNext, ObjectStep, PiStep, Kinds

(* What send(), abort() and respondToExtensionUi() write are commands.     *)
LEMMA CommandTypes ==
    /\ \A r \in Requests : [kind |-> "prompt", id |-> r] \in Commands
    /\ [kind |-> "abort"] \in Commands /\ [kind |-> "answer"] \in Commands
BY DEF Commands

(* What the child prints are lines.                                        *)
LEMMA LineTypes ==
    /\ \A r \in Requests, ok \in BOOLEAN : [kind |-> "response", id |-> r, ok |-> ok] \in Lines
    /\ \A kind \in Kinds : [kind |-> kind] \in Lines
BY DEF Lines, Kinds

(* One or two lines in a row are a sequence of just those lines.           *)
LEMMA LineSequences ==
    ASSUME NEW x \in Lines, NEW y \in Lines
    PROVE  /\ <<x>> \in Seq(Lines) /\ <<x, y>> \in Seq(Lines)
           /\ \A i \in 1..Len(<<x>>) : <<x>>[i] = x
           /\ \A i \in 1..Len(<<x, y>>) : <<x, y>>[i] = x \/ <<x, y>>[i] = y
OBVIOUS

-----------------------------------------------------------------------------
(* With no child spawned nothing is pending and nothing printed.           *)
LEMMA InitRpc == RpcInit => RpcInv
<1> SUFFICES ASSUME RpcInit PROVE RpcInv
  OBVIOUS
<1>1. RpcTypeOK
  BY DEF RpcInit, RpcTypeOK, Handles, Results
<1>2. WaitingIsPending /\ NoWaitOnClosed /\ AnsweredIsTaken /\ ResponsesTrue
  BY DEF RpcInit, WaitingIsPending, NoWaitOnClosed, AnsweredIsTaken, ResponsesTrue
<1> QED
  BY <1>1, <1>2 DEF RpcInv

(* The object: requests enter the table when they are sent and leave it    *)
(* when they are settled.                                                  *)
LEMMA ObjectKeeps ==
    ASSUME RpcInv, NEW p \in Procs, ObjectStep(p)
    PROVE  RpcInv'
<1>0. /\ handle \in [Procs -> Handles] /\ alive \subseteq Procs
      /\ stdin \in [Procs -> Seq(Commands)] /\ stdout \in [Procs -> Seq(Lines)]
      /\ pending \in [Procs -> SUBSET Requests] /\ result \in [Requests -> Results]
      /\ running \subseteq alive /\ asking \subseteq running /\ taken \subseteq Requests
  BY DEF RpcInv, RpcTypeOK
<1>1. WaitingIsPending /\ NoWaitOnClosed /\ AnsweredIsTaken /\ ResponsesTrue
  BY DEF RpcInv
<1>2. CASE Spawn(p)
  BY <1>0, <1>1, <1>2
     DEF Spawn, RpcInv, RpcTypeOK, Handles, WaitingIsPending, NoWaitOnClosed, Writable,
         AnsweredIsTaken, ResponsesTrue
<1>3. CASE ExitSeen(p)
  BY <1>0, <1>1, <1>3
     DEF ExitSeen, RejectPending, RpcInv, RpcTypeOK, Handles, Results, Settled, WaitingIsPending,
         NoWaitOnClosed, Writable, AnsweredIsTaken, ResponsesTrue
<1>4. CASE Kill(p)
  BY <1>0, <1>1, <1>4
     DEF Kill, RejectPending, RpcInv, RpcTypeOK, Handles, Results, Settled, WaitingIsPending,
         NoWaitOnClosed, Writable, AnsweredIsTaken, ResponsesTrue
<1>5. CASE Stop(p)
  BY <1>0, <1>1, <1>5
     DEF Stop, RpcInv, RpcTypeOK, Handles, WaitingIsPending, NoWaitOnClosed, Writable,
         AnsweredIsTaken, ResponsesTrue
<1>6. ASSUME NEW kind \in {"abort", "answer"}, Write(p, <<kind>>) PROVE RpcInv'
  <2>1. [i \in DOMAIN <<kind>> |-> [kind |-> <<kind>>[i]]] \in Seq(Commands)
    BY CommandTypes
  <2>2. stdin' \in [Procs -> Seq(Commands)]
    BY <1>0, <1>6, <2>1, ConcatProperties DEF Write
  <2> QED
    BY <1>0, <1>1, <1>6, <2>2
       DEF Write, RpcInv, RpcTypeOK, WaitingIsPending, NoWaitOnClosed, Writable,
           AnsweredIsTaken, ResponsesTrue
<1>7. ASSUME NEW r \in Requests, Send(p, r) PROVE RpcInv'
  <2>1. stdin' \in [Procs -> Seq(Commands)]
    BY <1>0, <1>7, CommandTypes DEF Send
  <2>2. pending' \in [Procs -> SUBSET Requests] /\ result' \in [Requests -> Results]
    BY <1>0, <1>7 DEF Send, Results
  <2>3. RpcTypeOK'
    BY <1>0, <1>7, <2>1, <2>2 DEF Send, RpcTypeOK
  <2>4. WaitingIsPending' /\ NoWaitOnClosed' /\ AnsweredIsTaken' /\ ResponsesTrue'
    BY <1>0, <1>1, <1>7
       DEF Send, WaitingIsPending, NoWaitOnClosed, Writable, AnsweredIsTaken, ResponsesTrue
  <2> QED
    BY <2>3, <2>4 DEF RpcInv
<1>8. ASSUME NEW r \in Requests, SendFails(p, r) PROVE RpcInv'
  BY <1>0, <1>1, <1>8
     DEF SendFails, RpcInv, RpcTypeOK, Results, Settled, WaitingIsPending, NoWaitOnClosed,
         Writable, AnsweredIsTaken, ResponsesTrue
<1>9. ASSUME NEW r \in Requests, TimeOut(p, r) PROVE RpcInv'
  BY <1>0, <1>1, <1>9
     DEF TimeOut, RpcInv, RpcTypeOK, Results, Settled, WaitingIsPending, NoWaitOnClosed,
         Writable, AnsweredIsTaken, ResponsesTrue
<1>10. ASSUME stdout[p] # <<>>, stdout' = [stdout EXCEPT ![p] = Tail(@)], taken' = taken
       PROVE  ResponsesTrue' /\ stdout' \in [Procs -> Seq(Lines)]
  <2>1. stdout'[p] = Tail(stdout[p]) /\ \A q \in Procs : q # p => stdout'[q] = stdout[q]
    BY <1>0, <1>10
  <2>2. /\ Tail(stdout[p]) \in Seq(Lines)
        /\ \A i \in 1..Len(Tail(stdout[p])) :
              i + 1 \in 1..Len(stdout[p]) /\ Tail(stdout[p])[i] = stdout[p][i + 1]
    BY <1>0, <1>10
  <2>3. stdout' \in [Procs -> Seq(Lines)]
    BY <1>0, <1>10, <2>2
  <2>4. ResponsesTrue'
    BY <1>1, <1>10, <2>1, <2>2 DEF ResponsesTrue
  <2> QED
    BY <2>3, <2>4
<1>11. ASSUME NEW kind \in Kinds, TakeEvent(p, kind) PROVE RpcInv'
  BY <1>0, <1>1, <1>10, <1>11
     DEF TakeEvent, HasLine, RpcInv, RpcTypeOK, WaitingIsPending, NoWaitOnClosed, Writable,
         AnsweredIsTaken
<1>12. CASE OnResponse(p)
  <2>1. ResponsesTrue' /\ stdout' \in [Procs -> Seq(Lines)]
    BY <1>10, <1>12 DEF OnResponse, HasLine
  <2> DEFINE line == stdout[p][1]
  <2>2. /\ line \in Lines /\ line.kind = "response" /\ Head(stdout[p]) = line
        /\ 1 \in 1..Len(stdout[p])
    BY <1>0, <1>12 DEF OnResponse, HasLine
  <2>3. line.id \in Requests /\ line.ok \in BOOLEAN
    BY <2>2 DEF Lines
  <2>4. line.ok => line.id \in taken
    BY <1>1, <2>2, <2>3 DEF ResponsesTrue
  <2>5. CASE line.id \in pending[p]
    <3>1. /\ pending' = [pending EXCEPT ![p] = @ \ {line.id}]
          /\ result' = [result EXCEPT ![line.id] = IF line.ok THEN "answered" ELSE "refused"]
      BY <1>12, <2>2, <2>5 DEF OnResponse
    <3>2. RpcTypeOK'
      BY <1>0, <1>12, <2>1, <2>3, <3>1 DEF OnResponse, RpcTypeOK, Results, Settled
    <3>3. WaitingIsPending' /\ NoWaitOnClosed'
      BY <1>0, <1>1, <1>12, <2>3, <2>5, <3>1
         DEF OnResponse, WaitingIsPending, NoWaitOnClosed, Writable
    <3>4. AnsweredIsTaken'
      BY <1>0, <1>1, <1>12, <2>3, <2>4, <3>1 DEF OnResponse, AnsweredIsTaken
    <3> QED
      BY <2>1, <3>2, <3>3, <3>4 DEF RpcInv
  <2>6. CASE line.id \notin pending[p]
    BY <1>0, <1>1, <1>12, <2>1, <2>2, <2>6
       DEF OnResponse, RpcInv, RpcTypeOK, WaitingIsPending, NoWaitOnClosed, Writable,
           AnsweredIsTaken
  <2> QED
    BY <2>5, <2>6
<1> QED
  BY <1>2, <1>3, <1>4, <1>5, <1>6, <1>7, <1>8, <1>9, <1>11, <1>12 DEF ObjectStep

-----------------------------------------------------------------------------
(* The child: it reads from stdin and prints to stdout.                    *)
LEMMA ConsumeTypes ==
    ASSUME RpcTypeOK, NEW p \in Procs, NEW kind, Command(p, kind), Consume(p)
    PROVE  stdin' \in [Procs -> Seq(Commands)] /\ Head(stdin[p]) \in Commands
<1>1. stdin \in [Procs -> Seq(Commands)] /\ stdin[p] # <<>>
  BY DEF RpcTypeOK, Command
<1>2. Tail(stdin[p]) \in Seq(Commands) /\ Head(stdin[p]) \in Commands
  BY <1>1
<1> QED
  BY <1>1, <1>2 DEF Consume

(* A child that prints lines whose responses are true keeps stdout true.   *)
LEMMA PrintTrue ==
    ASSUME RpcTypeOK, ResponsesTrue, NEW p \in Procs, NEW lines \in Seq(Lines), Prints(p, lines),
           taken \subseteq taken',
           \A i \in 1..Len(lines) :
               lines[i].kind = "response" /\ lines[i].ok = TRUE => lines[i].id \in taken'
    PROVE  stdout' \in [Procs -> Seq(Lines)] /\ ResponsesTrue'
<1>1. stdout \in [Procs -> Seq(Lines)] /\ stdout[p] \in Seq(Lines)
  BY DEF RpcTypeOK
<1>2. stdout' = [stdout EXCEPT ![p] = stdout[p] \o lines]
  BY DEF Prints
<1>3. /\ stdout[p] \o lines \in Seq(Lines)
      /\ Len(stdout[p] \o lines) = Len(stdout[p]) + Len(lines)
      /\ \A i \in 1..Len(stdout[p] \o lines) :
            \/ i \in 1..Len(stdout[p]) /\ (stdout[p] \o lines)[i] = stdout[p][i]
            \/ i - Len(stdout[p]) \in 1..Len(lines)
               /\ (stdout[p] \o lines)[i] = lines[i - Len(stdout[p])]
  BY <1>1, ConcatProperties
<1>4. stdout'[p] = stdout[p] \o lines /\ \A q \in Procs : q # p => stdout'[q] = stdout[q]
  BY <1>1, <1>2
<1>5. ResponsesTrue'
  <2> SUFFICES ASSUME NEW q \in Procs, NEW i \in 1..Len(stdout'[q]),
                      stdout'[q][i].kind = "response", stdout'[q][i].ok = TRUE
               PROVE  stdout'[q][i].id \in taken'
    BY DEF ResponsesTrue
  <2>1. CASE q # p
    BY <1>4, <2>1 DEF ResponsesTrue
  <2>2. CASE q = p
    <3>1. i \in 1..Len(stdout[p] \o lines) /\ stdout'[q][i] = (stdout[p] \o lines)[i]
      BY <1>4, <2>2
    <3>2. CASE i \in 1..Len(stdout[p]) /\ (stdout[p] \o lines)[i] = stdout[p][i]
      BY <3>1, <3>2 DEF ResponsesTrue
    <3>3. CASE /\ i - Len(stdout[p]) \in 1..Len(lines)
               /\ (stdout[p] \o lines)[i] = lines[i - Len(stdout[p])]
      BY <3>1, <3>3
    <3> QED
      BY <1>3, <3>1, <3>2, <3>3
  <2> QED
    BY <2>1, <2>2
<1>6. stdout[p] \o lines \in Seq(Lines)
  BY <1>3
<1>7. stdout' \in [Procs -> Seq(Lines)]
  BY <1>1, <1>2, <1>6
<1> QED
  BY <1>5, <1>7

(* A step of the child leaves the table alone, and reports success only of *)
(* a prompt it took.                                                       *)
LEMMA PiKeeps ==
    ASSUME RpcInv, NEW p \in Procs, PiStep(p)
    PROVE  RpcInv'
<1>0. /\ RpcTypeOK /\ WaitingIsPending /\ NoWaitOnClosed /\ AnsweredIsTaken /\ ResponsesTrue
      /\ handle \in [Procs -> Handles] /\ alive \subseteq Procs
      /\ stdin \in [Procs -> Seq(Commands)] /\ stdout \in [Procs -> Seq(Lines)]
      /\ pending \in [Procs -> SUBSET Requests] /\ result \in [Requests -> Results]
      /\ running \subseteq alive /\ asking \subseteq running /\ taken \subseteq Requests
  BY DEF RpcInv, RpcTypeOK
<1>1. ASSUME UNCHANGED <<handle, pending, result>>, taken \subseteq taken', taken' \subseteq Requests,
             stdin' \in [Procs -> Seq(Commands)], stdout' \in [Procs -> Seq(Lines)],
             alive' \subseteq Procs, running' \subseteq alive', asking' \subseteq running',
             ResponsesTrue'
      PROVE  RpcInv'
  BY <1>0, <1>1
     DEF RpcInv, RpcTypeOK, WaitingIsPending, NoWaitOnClosed, Writable, AnsweredIsTaken
<1>2. ASSUME NEW lines \in Seq(Lines), Prints(p, lines), taken \subseteq taken',
             \A i \in 1..Len(lines) :
                 lines[i].kind = "response" /\ lines[i].ok = TRUE => lines[i].id \in taken'
      PROVE  stdout' \in [Procs -> Seq(Lines)] /\ ResponsesTrue'
  BY <1>0, <1>2, PrintTrue
<1>3. ASSUME NEW kind \in Kinds, Prints(p, <<[kind |-> kind]>>), taken' = taken
      PROVE  stdout' \in [Procs -> Seq(Lines)] /\ ResponsesTrue'
  <2>1. <<[kind |-> kind]>> \in Seq(Lines)
    BY LineTypes
  <2>2. \A i \in 1..Len(<<[kind |-> kind]>>) : <<[kind |-> kind]>>[i].kind # "response"
    BY DEF Kinds
  <2> QED
    BY <1>2, <1>3, <2>1, <2>2
<1>4. ASSUME Prints(p, <<>>), taken' = taken
      PROVE  stdout' \in [Procs -> Seq(Lines)] /\ ResponsesTrue'
  <2>1. <<>> \in Seq(Lines) /\ \A i \in 1..Len(<<>>) : FALSE
    OBVIOUS
  <2> QED
    BY <1>2, <1>4, <2>1
<1>5. ASSUME Command(p, "prompt"), Consume(p)
      PROVE  /\ stdin' \in [Procs -> Seq(Commands)] /\ Head(stdin[p]).id \in Requests
             /\ \A ok \in BOOLEAN : Respond(p, ok) \in Lines
  <2>1. Head(stdin[p]) \in Commands /\ Head(stdin[p]).kind = "prompt"
        /\ stdin' \in [Procs -> Seq(Commands)]
    BY <1>0, <1>5, ConsumeTypes DEF Command
  <2>2. Head(stdin[p]).id \in Requests
    BY <2>1 DEF Commands
  <2> QED
    BY <2>1, <2>2, LineTypes DEF Respond
<1>6. CASE PiAccepts(p)
  <2> DEFINE x == Respond(p, TRUE)
             y == [kind |-> "turn_start"]
  <2>1. /\ taken' = taken \cup {Head(stdin[p]).id} /\ (Prints(p, <<x>>) \/ Prints(p, <<x, y>>))
        /\ running' = running \cup {p} /\ p \in alive
        /\ UNCHANGED <<handle, alive, pending, result, asking>>
    BY <1>6 DEF PiAccepts, Command
  <2>2. stdin' \in [Procs -> Seq(Commands)] /\ Head(stdin[p]).id \in Requests
    BY <1>5, <1>6 DEF PiAccepts
  <2>3. x \in Lines /\ x.id \in taken'
    BY <1>5, <1>6, <2>1 DEF PiAccepts, Respond
  <2>4. y \in Lines /\ y.kind = "turn_start"
    BY LineTypes DEF Kinds
  <2> HIDE DEF x, y
  <2>5. stdout' \in [Procs -> Seq(Lines)] /\ ResponsesTrue'
    <3>1. CASE Prints(p, <<x>>)
      <4>1. <<x>> \in Seq(Lines) /\ \A i \in 1..Len(<<x>>) : <<x>>[i] = x
        BY <2>3, LineSequences
      <4> QED
        BY <1>2, <2>1, <2>3, <3>1, <4>1
    <3>2. CASE Prints(p, <<x, y>>)
      <4>1. /\ <<x, y>> \in Seq(Lines)
            /\ \A i \in 1..Len(<<x, y>>) : <<x, y>>[i] = x \/ <<x, y>>[i] = y
        BY <2>3, <2>4, LineSequences
      <4> QED
        BY <1>2, <2>1, <2>3, <2>4, <3>2, <4>1
    <3> QED
      BY <2>1, <3>1, <3>2
  <2> QED
    BY <1>0, <1>1, <2>1, <2>2, <2>5
<1>7. ASSUME NEW ok \in BOOLEAN, Command(p, "prompt"), Consume(p), Prints(p, <<Respond(p, ok)>>),
             taken' = IF ok THEN taken \cup {Head(stdin[p]).id} ELSE taken,
             UNCHANGED <<handle, alive, pending, result, running, asking>>
      PROVE  RpcInv'
  <2>1. /\ stdin' \in [Procs -> Seq(Commands)] /\ Head(stdin[p]).id \in Requests
        /\ Respond(p, ok) \in Lines
    BY <1>5, <1>7
  <2>2. <<Respond(p, ok)>> \in Seq(Lines)
    BY <2>1
  <2>3. \A i \in 1..Len(<<Respond(p, ok)>>) :
            LET line == <<Respond(p, ok)>>[i]
            IN  line.kind = "response" /\ line.ok = TRUE => line.id \in taken'
    BY <1>7 DEF Respond
  <2>4. stdout' \in [Procs -> Seq(Lines)] /\ ResponsesTrue'
    BY <1>2, <1>7, <2>2, <2>3
  <2> QED
    BY <1>0, <1>1, <1>7, <2>1, <2>4
<1>8. CASE PiHandles(p)
  BY <1>7, <1>8 DEF PiHandles
<1>9. CASE PiRefuses(p)
  BY <1>7, <1>9 DEF PiRefuses
<1>10. CASE PiTurns(p)
  BY <1>0, <1>1, <1>3, <1>10 DEF PiTurns, Kinds
<1>11. CASE PiAsks(p)
  BY <1>0, <1>1, <1>3, <1>11 DEF PiAsks, Kinds
<1>12. CASE PiGetsAnswer(p)
  <2>1. stdin' \in [Procs -> Seq(Commands)]
    BY <1>0, <1>12, ConsumeTypes DEF PiGetsAnswer
  <2>2. ResponsesTrue'
    BY <1>0, <1>12 DEF PiGetsAnswer, ResponsesTrue
  <2> QED
    BY <1>0, <1>1, <1>12, <2>1, <2>2 DEF PiGetsAnswer
<1>13. CASE PiSettles(p)
  BY <1>0, <1>1, <1>3, <1>13 DEF PiSettles, Kinds
<1>14. CASE PiAborts(p)
  <2>1. stdin' \in [Procs -> Seq(Commands)]
    BY <1>0, <1>14, ConsumeTypes DEF PiAborts
  <2>2. stdout' \in [Procs -> Seq(Lines)] /\ ResponsesTrue'
    BY <1>3, <1>4, <1>14 DEF PiAborts, Kinds
  <2> QED
    BY <1>0, <1>1, <1>14, <2>1, <2>2 DEF PiAborts
<1>15. CASE PiDies(p)
  <2>1. ResponsesTrue'
    BY <1>0, <1>15 DEF PiDies, ResponsesTrue
  <2> QED
    BY <1>0, <1>1, <1>15, <2>1 DEF PiDies
<1> QED
  BY <1>6, <1>8, <1>9, <1>10, <1>11, <1>12, <1>13, <1>14, <1>15 DEF PiStep

(* Every step keeps the invariant.                                         *)
LEMMA NextRpc == RpcInv /\ [RpcNext]_rpcVars => RpcInv'
<1>1. RpcInv /\ RpcNext => RpcInv'
  BY NextSteps, ObjectKeeps, PiKeeps
<1>2. RpcInv /\ UNCHANGED rpcVars => RpcInv'
  BY DEF rpcVars, RpcInv, RpcTypeOK, WaitingIsPending, NoWaitOnClosed, Writable,
         AnsweredIsTaken, ResponsesTrue
<1> QED
  BY <1>1, <1>2

(* The inductive invariant of the transport.                               *)
LEMMA RpcInductive == RpcSpec => []RpcInv
BY InitRpc, NextRpc, PTL DEF RpcSpec

-----------------------------------------------------------------------------
(* The pipes, the handles and the table of requests keep their types; a    *)
(* child that runs an agent is alive.                                      *)
THEOREM RpcTypeCorrect == RpcSpec => []RpcTypeOK
BY RpcInductive, PTL DEF RpcInv

(* A request waits exactly while it is in the table of one object.         *)
THEOREM PendingTable == RpcSpec => []WaitingIsPending
BY RpcInductive, PTL DEF RpcInv

(* An object that gave up its child keeps no caller waiting.               *)
THEOREM ClosedRejects == RpcSpec => []NoWaitOnClosed
BY RpcInductive, PTL DEF RpcInv

(* Success is only ever reported of a prompt that Pi took.                 *)
THEOREM SuccessIsTrue == RpcSpec => []AnsweredIsTaken
BY RpcInductive, PTL DEF RpcInv

(* A request that was settled is not settled again.                        *)
LEMMA SettledStays ==
    ASSUME RpcInv, NEW p \in Procs, ObjectStep(p) \/ PiStep(p)
    PROVE  \A r \in Requests : result[r] \in Settled => result'[r] = result[r]
<1> DEFINE Kept == \A r \in Requests : result[r] \in Settled => result'[r] = result[r]
<1>0. /\ pending \in [Procs -> SUBSET Requests] /\ result \in [Requests -> Results]
      /\ \A q \in Procs : \A r \in pending[q] : result[r] \notin Settled
  BY DEF RpcInv, RpcTypeOK, WaitingIsPending, Settled
<1>1. CASE PiStep(p)
  BY <1>1 DEF PiStep, PiAccepts, PiHandles, PiRefuses, PiTurns, PiAsks, PiGetsAnswer,
              PiSettles, PiAborts, PiDies
<1>2. CASE ExitSeen(p) \/ Kill(p)
  BY <1>0, <1>2 DEF ExitSeen, Kill, RejectPending
<1>3. CASE OnResponse(p)
  BY <1>0, <1>3 DEF OnResponse
<1>4. ASSUME NEW r \in Requests, Send(p, r) \/ SendFails(p, r) \/ TimeOut(p, r) PROVE Kept
  BY <1>0, <1>4 DEF Send, SendFails, TimeOut, Settled
<1>5. ASSUME NEW kind \in Kinds, TakeEvent(p, kind) PROVE Kept
  BY <1>5 DEF TakeEvent
<1>6. CASE Spawn(p) \/ Stop(p) \/ Write(p, <<"abort">>) \/ Write(p, <<"answer">>)
  BY <1>6 DEF Spawn, Stop, Write
<1> QED
  BY <1>1, <1>2, <1>3, <1>4, <1>5, <1>6 DEF ObjectStep

(* What a caller of send() was told is final.                              *)
THEOREM SettledOnce == RpcSpec => SettledForGood
<1>1. RpcInv /\ [RpcNext]_rpcVars =>
          [\A r \in Requests : result[r] \in Settled => result'[r] = result[r]]_rpcVars
  BY NextSteps, SettledStays
<1> QED
  BY <1>1, RpcInductive, PTL DEF RpcSpec, SettledForGood

(* The lines a caller writes in one go are commands.                       *)
Told == {<<"answer">>, <<"abort">>, <<"answer", "abort">>}
Written(kinds) == [i \in DOMAIN kinds |-> [kind |-> kinds[i]]]

LEMMA WrittenTypes ==
    ASSUME NEW kinds \in Told
    PROVE  /\ Written(kinds) \in Seq(Commands)
           /\ \A i \in 1..Len(Written(kinds)) : Written(kinds)[i].kind # "prompt"
<1>1. CASE kinds = <<"answer">>
  <2>1. /\ Len(kinds) = 1 /\ DOMAIN kinds = 1..1
        /\ \A i \in 1..1 : kinds[i] = "answer"
    BY <1>1
  <2> QED
    BY <2>1, CommandTypes DEF Written
<1>2. CASE kinds = <<"abort">>
  <2>1. /\ Len(kinds) = 1 /\ DOMAIN kinds = 1..1
        /\ \A i \in 1..1 : kinds[i] = "abort"
    BY <1>2
  <2> QED
    BY <2>1, CommandTypes DEF Written
<1>3. CASE kinds = <<"answer", "abort">>
  <2>1. /\ Len(kinds) = 2 /\ DOMAIN kinds = 1..2
        /\ \A i \in 1..2 : kinds[i] \in {"answer", "abort"}
    BY <1>3
  <2> QED
    BY <2>1, CommandTypes DEF Written
<1> QED
  BY <1>1, <1>2, <1>3 DEF Told

(* Writing to a child, and stopping it right after that, keeps the         *)
(* invariant of the transport.                                             *)
LEMMA WritesKeep ==
    ASSUME RpcInv, NEW p \in Procs, NEW kinds \in Told,
           Write(p, kinds) \/ WriteAndStop(p, kinds)
    PROVE  RpcInv'
<1>0. /\ handle \in [Procs -> Handles] /\ stdin \in [Procs -> Seq(Commands)]
      /\ RpcTypeOK /\ WaitingIsPending /\ NoWaitOnClosed /\ AnsweredIsTaken /\ ResponsesTrue
  BY DEF RpcInv, RpcTypeOK
<1>1. stdin' = [stdin EXCEPT ![p] = @ \o Written(kinds)]
  BY DEF Write, WriteAndStop, Written
<1>2. stdin' \in [Procs -> Seq(Commands)]
  BY <1>0, <1>1, WrittenTypes, ConcatProperties
<1>3. /\ handle' \in [Procs -> Handles] /\ \A q \in Procs : Writable(q) => Writable(q)'
      /\ UNCHANGED <<alive, stdout, pending, result, running, asking, taken>>
  BY <1>0 DEF Write, WriteAndStop, Writable, Handles
<1>4. RpcTypeOK'
  BY <1>0, <1>2, <1>3 DEF RpcTypeOK
<1>5. WaitingIsPending' /\ NoWaitOnClosed' /\ AnsweredIsTaken' /\ ResponsesTrue'
  BY <1>0, <1>3 DEF WaitingIsPending, NoWaitOnClosed, AnsweredIsTaken, ResponsesTrue
<1> QED
  BY <1>4, <1>5 DEF RpcInv

-----------------------------------------------------------------------------
(* The manager: types, and which child belongs to which agent.             *)

Started == {"handshake", "history", "fallback", "failing"}

(* What calls, prompts and recoveries are for.                             *)
Callers ==
    /\ \A c \in Calls : call[c].pc # "idle" => call[c].agent \in Agents /\ call[c].app \in Apps
    /\ \A m \in Requests : prompt[m].pc # "new" => prompt[m].agent \in Agents
    /\ \A m \in Requests : prompt[m].pc \in {"up", "send"} => prompt[m].proc \in Procs
    /\ \A i \in Recoveries : recovery[i].pc # "none" => recovery[i].agent \in Agents

(* An open child is the process of its agent, or is just being started for *)
(* it; while a start is in flight the agent has no other process.          *)
Children ==
    /\ \A p \in Procs : handle[p] = "open" =>
          /\ owner[p] \in Agents
          /\ \/ processes[owner[p]] = p
             \/ flight[owner[p]] = [proc |-> p, pc |-> "handshake"]
    /\ \A a \in Agents :
          /\ flight[a].pc \notin {"none", "history"} => processes[a] = None
          /\ flight[a].pc = "history" => processes[a] \in {None, flight[a].proc}
          /\ flight[a].pc \in Started => /\ flight[a].proc \in Procs
                                         /\ owner[flight[a].proc] = a
                                         /\ handle[flight[a].proc] # "unborn"
          /\ flight[a].pc \notin Started => flight[a].proc = None
          /\ processes[a] # None => owner[processes[a]] = a /\ handle[processes[a]] # "unborn"

ManagerInv == TypeOK /\ RpcInv /\ Callers /\ Children

(* The steps of the manager, by what they change.                          *)
PromptStep(m) == Prompting(m) \/ \E a \in Agents : PromptStarts(m, a)
OpStep(a) ==
    \/ Activate(a) \/ Operations(a)
    \/ \E kind \in {"reconnect", "reload", "reset", "close"} : OpStarts(a, kind)
UserStep(a) == RespondToExtensionUi(a) \/ Abort(a)
ChildStep(p) == PiWorks(p) \/ PiFaults(p)

LEMMA ManagerSteps ==
    Next => \/ \E c \in Calls : LeaseWorks(c) \/ VoidReturns(c)
            \/ \E m \in Requests : PromptStep(m)
            \/ \E p \in Procs : ChildStep(p) \/ Events(p)
            \/ \E i \in Recoveries : RecoveryWakes(i) \/ RecoveryEnds(i)
            \/ \E a \in Agents : Flights(a) \/ OpStep(a) \/ UserStep(a)
BY DEF Next, PromptStep, OpStep, UserStep, ChildStep

(* What the transport does in a step of the manager.                       *)
TransportStep ==
    \/ \E p \in Procs : ObjectStep(p) \/ PiStep(p)
    \/ \E p \in Procs, kinds \in Told : Write(p, kinds) \/ WriteAndStop(p, kinds)
    \/ UNCHANGED rpcVars

ObjectsStep ==
    \/ \E p \in Procs : ObjectStep(p)
    \/ \E p \in Procs, kinds \in Told : Write(p, kinds) \/ WriteAndStop(p, kinds)
    \/ UNCHANGED rpcVars

LEMMA ObjectsOrChild ==
    ASSUME ManagerInv, Next
    PROVE  ObjectsStep \/ \E p \in Procs : ChildStep(p)
<1>0. /\ prompt \in [Requests -> [agent : Agents \cup {None}, proc : Procs \cup {None},
                                  pc : {"new", "lease", "ensure", "await", "up", "down", "send",
                                        "sent", "release", "done", "failed"}]]
      /\ processes \in [Agents -> Procs \cup {None}] /\ asked \in [Agents -> Procs \cup {None}]
      /\ Children /\ Callers
  BY DEF ManagerInv, TypeOK
<1> USE DEF ObjectsStep
<1>1. ASSUME NEW c \in Calls, LeaseWorks(c) \/ VoidReturns(c) PROVE ObjectsStep
  BY <1>1 DEF LeaseWorks, VoidReturns
<1>2. ASSUME NEW m \in Requests, PromptStep(m) PROVE ObjectsStep
  <2>1. CASE PromptSends(m)
    BY <1>0, <2>1 DEF PromptSends, Callers, ObjectStep
  <2> QED
    BY <1>2, <2>1
       DEF PromptStep, Prompting, PromptStarts, PromptLeased, PromptEnsures, PromptMarks,
           PromptReturns, PromptCatches, PromptReleased
<1>4. ASSUME NEW p \in Procs, Events(p) PROVE ObjectsStep
  BY <1>4 DEF Events, OnTurnStart, OnUiRequest, OnSettled, OnExit, OnLine, ObjectStep, Kinds
<1>5. ASSUME NEW i \in Recoveries, RecoveryWakes(i) \/ RecoveryEnds(i) PROVE ObjectsStep
  BY <1>5 DEF RecoveryWakes, RecoveryEnds, RecoveryUnchanged
<1>6. ASSUME NEW a \in Agents, Flights(a) PROVE ObjectsStep
  <2>1. CASE FlightSpawns(a)
    BY <2>1 DEF FlightSpawns, ObjectStep
  <2>2. CASE FlightFails(a)
    BY <1>0, <2>2 DEF FlightFails, Children, Started, ObjectStep
  <2> QED
    BY <1>6, <2>1, <2>2 DEF Flights, HandshakeDone, HistoryDone, FlightStopped
<1>7. ASSUME NEW a \in Agents, OpStep(a) PROVE ObjectsStep
  <2>1. ASSUME NEW kind, OpStarts(a, kind) PROVE ObjectsStep
    <3>1. CASE processes[a] = None
      BY <2>1, <3>1 DEF OpStarts
    <3>2. CASE processes[a] \in Procs
      BY <2>1, <3>2, ManagerAssumption DEF OpStarts, ObjectStep, Told
    <3> QED
      BY <1>0, <3>1, <3>2
  <2> QED
    BY <1>7, <2>1
       DEF OpStep, Activate, Operations, OpStopped, OpReleased, OpEnsures, OpEnds,
           ActivateLooks, ActivateEnds
<1>8. ASSUME NEW a \in Agents, UserStep(a) PROVE ObjectsStep
  <2>1. CASE RespondToExtensionUi(a)
    BY <1>0, <2>1 DEF RespondToExtensionUi, Told
  <2>2. CASE Abort(a)
    BY <1>0, <2>2 DEF Abort, Told
  <2> QED
    BY <1>8, <2>1, <2>2 DEF UserStep
<1> QED
  BY <1>1, <1>2, <1>4, <1>5, <1>6, <1>7, <1>8, ManagerSteps

LEMMA Transports == ManagerInv /\ Next => TransportStep
BY ObjectsOrChild
   DEF ObjectsStep, TransportStep, ChildStep, PiWorks, PiFaults, ObjectStep, PiStep

(* Whatever the manager does, the transport keeps its invariant.           *)
LEMMA TransportKept == RpcInv /\ TransportStep => RpcInv'
<1>1. RpcInv /\ UNCHANGED rpcVars => RpcInv'
  BY DEF rpcVars, RpcInv, RpcTypeOK, WaitingIsPending, NoWaitOnClosed, Writable,
         AnsweredIsTaken, ResponsesTrue
<1> QED
  BY <1>1, ObjectKeeps, PiKeeps, WritesKeep DEF TransportStep

(* ... and settles no request again.                                       *)
LEMMA TransportSettles ==
    ASSUME RpcInv, TransportStep
    PROVE  \A r \in Requests : result[r] \in Settled => result'[r] = result[r]
BY SettledStays DEF TransportStep, Write, WriteAndStop, rpcVars

-----------------------------------------------------------------------------
(* The calls on the lease file.                                            *)

LeaseTypes ==
    /\ LeaseTypeOK
    /\ \A c \in Calls : call[c].pc # "idle" => call[c].agent \in Agents /\ call[c].app \in Apps

LEMMA LeaseStepTypes ==
    ASSUME LeaseTypes, NEW c \in Calls, LeaseStep(c)
    PROVE  LeaseTypes'
<1>0. /\ file \in Files /\ up \subseteq Apps /\ call \in [Calls -> CallStates]
      /\ \A d \in Calls : call[d].pc # "idle" => call[d].agent \in Agents /\ call[d].app \in Apps
  BY DEF LeaseTypes, LeaseTypeOK
<1>1. /\ Absent \in Files /\ Torn \in Files
      /\ \A a \in Agents, p \in Apps : Lease(a, p) \in Files
  BY DEF Files, Leases
<1>2. ASSUME NEW pc \in Pcs, Goto(c, pc), call[c].pc # "idle", file' \in Files, up' = up
      PROVE  LeaseTypes'
  <2>1. call' = [call EXCEPT ![c].pc = pc]
    BY <1>2 DEF Goto
  <2>2. call' \in [Calls -> CallStates]
    BY <1>0, <2>1 DEF CallStates
  <2>3. \A d \in Calls : call'[d].agent = call[d].agent /\ call'[d].app = call[d].app
                         /\ (d # c => call'[d] = call[d])
    BY <1>0, <2>1 DEF CallStates
  <2> QED
    BY <1>0, <1>2, <2>2, <2>3 DEF LeaseTypes, LeaseTypeOK
<1>3. ASSUME NEW pc \in Pcs, NEW lease \in Files, GotoWith(c, pc, lease), call[c].pc # "idle",
             file' \in Files, up' = up
      PROVE  LeaseTypes'
  <2>1. call' = [call EXCEPT ![c].pc = pc, ![c].seen = lease]
    BY <1>3 DEF GotoWith
  <2>2. call' \in [Calls -> CallStates]
    BY <1>0, <1>3, <2>1 DEF CallStates
  <2>3. \A d \in Calls : call'[d].agent = call[d].agent /\ call'[d].app = call[d].app
                         /\ (d # c => call'[d] = call[d])
    BY <1>0, <2>1 DEF CallStates
  <2> QED
    BY <1>0, <1>3, <2>2, <2>3 DEF LeaseTypes, LeaseTypeOK
<1>4. CASE OpenNew(c)
  BY <1>0, <1>1, <1>3, <1>4 DEF OpenNew, At, Pcs
<1>5. CASE OpenExisting(c) \/ ReadTorn(c)
  BY <1>0, <1>2, <1>5 DEF OpenExisting, ReadTorn, At, Pcs, Final
<1>6. CASE ReadAbsent(c) \/ ReadForeign(c)
  BY <1>0, <1>2, <1>6 DEF ReadAbsent, ReadForeign, Reads, At, Pcs, Final
<1>7. CASE ReadOwn(c) \/ ReadForClear(c)
  BY <1>0, <1>3, <1>7 DEF ReadOwn, ReadForClear, Reads, At, Pcs, Final
<1>8. CASE Truncate(c)
  BY <1>0, <1>1, <1>2, <1>8 DEF Truncate, At, Pcs
<1>9. CASE Fill(c)
  <2>1. call[c].seen \in Files
    BY <1>0 DEF CallStates
  <2> QED
    BY <1>0, <1>2, <1>9, <2>1 DEF Fill, At, Pcs, Final
<1>10. CASE FillLost(c)
  BY <1>0, <1>2, <1>10 DEF FillLost, At, Pcs, Final
<1>11. CASE Unlink(c)
  <2>1. call' \in [Calls -> CallStates]
    BY <1>0, <1>11 DEF Unlink, CallStates, Pcs, Final
  <2>2. \A d \in Calls : call'[d].agent = call[d].agent /\ call'[d].app = call[d].app
                         /\ (call[d].pc = "idle" /\ d # c => call'[d].pc = "idle")
    BY <1>0, <1>11 DEF Unlink, CallStates
  <2> QED
    BY <1>0, <1>1, <1>11, <2>1, <2>2 DEF Unlink, At, LeaseTypes, LeaseTypeOK
<1> QED
  BY <1>4, <1>5, <1>6, <1>7, <1>8, <1>9, <1>10, <1>11 DEF LeaseStep

LEMMA BeginTypes ==
    ASSUME LeaseTypes, NEW c \in Calls, NEW kind \in Ops, NEW a \in Agents, Begin(c, kind, a, App)
    PROVE  LeaseTypes'
<1>1. App \in Apps
  BY ManagerAssumption
<1>2. [op |-> kind, pc |-> IF kind = "acquire" THEN "open" ELSE "read",
       agent |-> a, app |-> App, seen |-> Absent] \in CallStates
  BY <1>1 DEF CallStates, Pcs, Files
<1> QED
  BY <1>1, <1>2 DEF Begin, LeaseTypes, LeaseTypeOK

LEMMA ReturnTypes ==
    ASSUME LeaseTypes, NEW c \in Calls, Return(c)
    PROVE  LeaseTypes'
<1>1. IdleCall \in CallStates /\ IdleCall.pc = "idle"
  BY DEF IdleCall, CallStates, Ops, Pcs, Files
<1> QED
  BY <1>1 DEF Return, LeaseTypes, LeaseTypeOK

(* What the manager does on the lease in one step.                         *)
LeaseCalls ==
    \/ \E c \in Calls : LeaseStep(c) \/ Return(c)
    \/ \E c \in Calls, kind \in {"acquire", "heartbeat", "release"}, a \in Writers :
           Begin(c, kind, a, App)
    \/ UNCHANGED leaseVars

(* The slots are calls, no two of them are the same.                       *)
LEMMA Slotted ==
    /\ \A m \in Requests : m \in Calls
    /\ \A a \in Writers : /\ a \in Agents
                          /\ Beat(a) \in Calls /\ Free(a) \in Calls /\ OpSlot(a) \in Calls
                          /\ Beat(a) \notin Requests /\ Free(a) \notin Requests
                          /\ OpSlot(a) \notin Requests
    /\ \A a, b \in Writers : /\ Beat(a) # Free(b) /\ Beat(a) # OpSlot(b) /\ Free(a) # OpSlot(b)
                             /\ a # b => Beat(a) # Beat(b) /\ Free(a) # Free(b)
                                         /\ OpSlot(a) # OpSlot(b)
    /\ \A c \in Calls : \/ c \in Requests
                        \/ \E a \in Writers : c = Beat(a) \/ c = Free(a) \/ c = OpSlot(a)
    /\ \A c \in EventSlots : c \in Calls /\ \E a \in Writers : c = Beat(a) \/ c = Free(a)
<1>1. \A a \in Writers : Beat(a) \in EventSlots /\ Free(a) \in EventSlots
  BY DEF EventSlots, Beat, Free
<1>2. \A c \in EventSlots : \E a \in Writers : c = Beat(a) \/ c = Free(a)
  BY DEF EventSlots, Beat, Free
<1>3. \A a, b : /\ Beat(a) # Free(b) /\ Beat(a) # OpSlot(b) /\ Free(a) # OpSlot(b)
                /\ a # b => Beat(a) # Beat(b) /\ Free(a) # Free(b) /\ OpSlot(a) # OpSlot(b)
  <2> SUFFICES ASSUME NEW a, NEW b
               PROVE  /\ Beat(a) # Free(b) /\ Beat(a) # OpSlot(b) /\ Free(a) # OpSlot(b)
                      /\ a # b => Beat(a) # Beat(b) /\ Free(a) # Free(b) /\ OpSlot(a) # OpSlot(b)
    OBVIOUS
  <2>1. /\ Beat(a)[1] = "beat" /\ Free(a)[1] = "free" /\ OpSlot(a)[1] = "op"
        /\ Beat(b)[1] = "beat" /\ Free(b)[1] = "free" /\ OpSlot(b)[1] = "op"
        /\ Beat(a)[2] = a /\ Free(a)[2] = a /\ OpSlot(a)[2] = a
        /\ Beat(b)[2] = b /\ Free(b)[2] = b /\ OpSlot(b)[2] = b
    BY DEF Beat, Free, OpSlot
  <2> QED
    BY <2>1
<1> QED
  BY <1>1, <1>2, <1>3, ManagerAssumption

LEMMA LeaseTypesKept == LeaseTypes /\ LeaseCalls => LeaseTypes'
<1>1. LeaseTypes /\ UNCHANGED leaseVars => LeaseTypes'
  BY DEF leaseVars, LeaseTypes, LeaseTypeOK
<1> QED
  BY <1>1, LeaseStepTypes, ReturnTypes, BeginTypes, Slotted DEF LeaseCalls, Ops

LEMMA LeaseOf == ManagerInv /\ Next => LeaseCalls
<1> SUFFICES ASSUME ManagerInv, Next PROVE LeaseCalls
  OBVIOUS
<1> USE DEF LeaseCalls
<1>1. ASSUME NEW c \in Calls, LeaseWorks(c) \/ VoidReturns(c) PROVE LeaseCalls
  BY <1>1 DEF LeaseWorks, VoidReturns
<1>2. ASSUME NEW m \in Requests, PromptStep(m) PROVE LeaseCalls
  BY <1>2, Slotted
     DEF PromptStep, Prompting, PromptStarts, PromptLeased, PromptEnsures, PromptMarks, PromptSends,
         PromptReturns, PromptCatches, PromptReleased
<1>3. ASSUME NEW p \in Procs, ChildStep(p) PROVE LeaseCalls
  BY <1>3 DEF ChildStep, PiWorks, PiFaults
<1>4. ASSUME NEW p \in Procs, Events(p) PROVE LeaseCalls
  BY <1>4, Slotted
     DEF Events, OnTurnStart, OnUiRequest, OnSettled, OnExit, OnLine, VoidRelease
<1>5. ASSUME NEW i \in Recoveries, RecoveryWakes(i) \/ RecoveryEnds(i) PROVE LeaseCalls
  BY <1>5 DEF RecoveryWakes, RecoveryEnds, RecoveryUnchanged
<1>6. ASSUME NEW a \in Agents, Flights(a) PROVE LeaseCalls
  BY <1>6 DEF Flights, FlightSpawns, HandshakeDone, HistoryDone, FlightFails, FlightStopped
<1>7. ASSUME NEW a \in Agents, OpStep(a) PROVE LeaseCalls
  BY <1>7, Slotted
     DEF OpStep, OpStarts, OpBegins, Activate, Operations, OpStopped, OpReleased, OpEnsures, OpEnds,
         ActivateLooks, ActivateEnds
<1>8. ASSUME NEW a \in Agents, UserStep(a) PROVE LeaseCalls
  BY <1>8 DEF UserStep, RespondToExtensionUi, Abort, UserUnchanged
<1> QED
  BY <1>1, <1>2, <1>3, <1>4, <1>5, <1>6, <1>7, <1>8, ManagerSteps

-----------------------------------------------------------------------------
(* The manager's own variables.                                            *)

PromptPcs == {"new", "lease", "ensure", "await", "up", "down", "send", "sent", "release", "done",
              "failed"}
FlightPcs == {"none", "config", "handshake", "history", "fallback", "failing"}
OpPcs     == {"none", "stop", "release", "ensure", "await", "up", "down", "streaming", "quiet"}
OpKinds   == {"activate", "reconnect", "reload", "reset", "close"}

RecoveryPcs == {"none", "sleep", "await", "up", "down"}

PromptStates   == [agent : Agents \cup {None}, proc : Procs \cup {None}, pc : PromptPcs]
FlightStates   == [proc : Procs \cup {None}, pc : FlightPcs]
OpStates       == [kind : OpKinds, proc : Procs \cup {None}, snap : Statuses, pc : OpPcs]
RecoveryStates == [agent : Agents \cup {None}, attempt : 0..2, pc : RecoveryPcs]

OwnTypes ==
    /\ processes \in [Agents -> Procs \cup {None}]
    /\ flight \in [Agents -> FlightStates]
    /\ owner \in [Procs -> Agents \cup {None}]
    /\ prompt \in [Requests -> PromptStates]
    /\ op \in [Agents -> OpStates]
    /\ recovery \in [Recoveries -> RecoveryStates]
    /\ asked \in [Agents -> Procs \cup {None}]
    /\ status \in [Agents -> Statuses]
    /\ retired \subseteq Agents
    /\ fallbacks \in 0..Fallbacks /\ faults \in 0..MaxFaults /\ ops \in 0..MaxOps

OwnCallers ==
    /\ \A m \in Requests : prompt[m].pc # "new" => prompt[m].agent \in Agents
    /\ \A m \in Requests : prompt[m].pc \in {"up", "send"} => prompt[m].proc \in Procs
    /\ \A i \in Recoveries : recovery[i].pc # "none" => recovery[i].agent \in Agents

LEMMA InvTypes == ManagerInv <=> OwnTypes /\ OwnCallers /\ LeaseTypes /\ RpcInv /\ Children
BY DEF ManagerInv, TypeOK, OwnTypes, Callers, OwnCallers, LeaseTypes, RpcInv, PromptPcs, FlightPcs,
       OpPcs, OpKinds, RecoveryPcs, PromptStates, FlightStates, OpStates, RecoveryStates

LEMMA InvTypesNext == ManagerInv' <=> OwnTypes' /\ OwnCallers' /\ LeaseTypes' /\ RpcInv' /\ Children'
BY DEF ManagerInv, TypeOK, OwnTypes, Callers, OwnCallers, LeaseTypes, RpcInv, PromptPcs, FlightPcs,
       OpPcs, OpKinds, RecoveryPcs, PromptStates, FlightStates, OpStates, RecoveryStates

(* A fault is counted within the bound.                                    *)
LEMMA FaultTypes == OwnTypes => \A kind : Fault(kind) => faults' \in 0..MaxFaults
BY ManagerAssumption DEF OwnTypes, Fault

(* A caller of ensureProcess() joins a start.                              *)
LEMMA JoinTypes ==
    ASSUME OwnTypes, NEW a, JoinFlight(a)
    PROVE  /\ processes' \in [Agents -> Procs \cup {None}]
           /\ flight' \in [Agents -> FlightStates]
<1>1. /\ processes \in [Agents -> Procs \cup {None}]
      /\ flight \in [Agents -> FlightStates]
  BY DEF OwnTypes
<1> QED
  BY <1>1 DEF FlightStates, FlightPcs, NoFlight, JoinFlight

(* The promise of a start settles.                                         *)
LEMMA FlightEndsTypes ==
    ASSUME OwnTypes, OwnCallers, NEW a \in Agents, NEW pc, NEW p, FlightEnds(a, pc, p),
           \/ pc = "up" /\ p \in Procs
           \/ pc = "down" /\ p = None
    PROVE  /\ flight' \in [Agents -> FlightStates]
           /\ prompt' \in [Requests -> PromptStates]
           /\ op' \in [Agents -> OpStates]
           /\ recovery' \in [Recoveries -> RecoveryStates]
           /\ OwnCallers'
<1>1. flight' \in [Agents -> FlightStates]
  BY DEF FlightStates, FlightPcs, NoFlight, OwnTypes, FlightEnds
<1>2. prompt' \in [Requests -> PromptStates]
  BY DEF PromptStates, OwnTypes, FlightEnds, PromptPcs
<1>3. op' \in [Agents -> OpStates]
  BY DEF OpStates, OwnTypes, FlightEnds, OpPcs
<1>4. recovery' \in [Recoveries -> RecoveryStates]
  <2> SUFFICES ASSUME NEW i \in Recoveries PROVE recovery'[i] \in RecoveryStates
    BY DEF FlightEnds
  <2>1. recovery[i] \in RecoveryStates
    BY DEF OwnTypes
  <2>2. recovery'[i] = recovery[i] \/ recovery'[i] = [recovery[i] EXCEPT !.pc = pc]
    BY DEF FlightEnds
  <2>3. pc \in RecoveryPcs
    BY DEF RecoveryPcs
  <2>4. [recovery[i] EXCEPT !.pc = pc] \in RecoveryStates
    BY <2>1, <2>3 DEF RecoveryStates
  <2> QED
    BY <2>1, <2>2, <2>4
<1>5. OwnCallers'
  <2>1. \A m \in Requests : \/ prompt'[m] = prompt[m]
                            \/ /\ prompt[m].pc = "await" /\ prompt'[m].agent = prompt[m].agent
                               /\ prompt'[m].pc = pc /\ prompt'[m].proc = p
    BY DEF PromptStates, OwnTypes, FlightEnds, PromptPcs
  <2>2. \A i \in Recoveries : /\ recovery'[i].agent = recovery[i].agent
                              /\ recovery[i].pc = "none" => recovery'[i].pc = "none"
    BY DEF RecoveryStates, NoRecovery, OwnTypes, FlightEnds, RecoveryPcs
  <2> QED
    BY <2>1, <2>2 DEF OwnCallers
<1> QED
  BY <1>1, <1>2, <1>3, <1>4, <1>5

LEMMA PromptTypes ==
    ASSUME ManagerInv, NEW m \in Requests, PromptStep(m)
    PROVE  OwnTypes' /\ OwnCallers'
<1>0. OwnTypes /\ OwnCallers
  BY InvTypes
<1>1. CASE PromptEnsures(m)
  <2>1. \/ UNCHANGED <<processes, flight>>
        \/ JoinFlight(prompt[m].agent)
    BY <1>1 DEF PromptEnsures
  <2>2. /\ processes' \in [Agents -> Procs \cup {None}]
        /\ flight' \in [Agents -> FlightStates]
    BY <1>0, <2>1, JoinTypes DEF OwnTypes
  <2>3. prompt[m].agent \in Agents
    BY <1>0, <1>1 DEF PromptEnsures, OwnCallers
  <2>4. \/ /\ processes[prompt[m].agent] \in Procs
           /\ prompt' = [prompt EXCEPT ![m].pc = "up", ![m].proc = processes[prompt[m].agent]]
        \/ prompt' = [prompt EXCEPT ![m].pc = "await"]
    BY <1>0, <1>1, <2>3 DEF PromptEnsures, HasProcess, SetPrompt, OwnTypes
  <2>5. prompt' \in [Requests -> PromptStates]
    BY <1>0, <2>3, <2>4 DEF PromptStates, OwnTypes, PromptPcs
  <2>6. OwnTypes'
    BY <1>0, <1>1, <2>2, <2>5 DEF PromptEnsures, PromptUnchanged, OwnTypes
  <2>7. OwnCallers'
    BY <1>0, <1>1, <2>3, <2>4 DEF PromptStates, PromptEnsures, PromptUnchanged, OwnTypes, OwnCallers, PromptPcs
  <2> QED
    BY <2>6, <2>7
<1>2. ASSUME NEW a \in Agents, PromptStarts(m, a) PROVE OwnTypes' /\ OwnCallers'
  BY <1>0, <1>2 DEF PromptStates, PromptStarts, PromptUnchanged, OwnTypes, OwnCallers, PromptPcs
<1>3. ASSUME NEW pc \in PromptPcs \ {"new", "up", "await"}, SetPrompt(m, pc), prompt[m].pc # "new",
             pc = "send" => prompt[m].pc = "up",
             status' \in [Agents -> Statuses], UNCHANGED <<processes, flight>>, PromptUnchanged
      PROVE  OwnTypes' /\ OwnCallers'
  BY <1>0, <1>3 DEF PromptStates, SetPrompt, PromptUnchanged, OwnTypes, OwnCallers
<1>4. CASE PromptMarks(m)
  BY <1>0, <1>3, <1>4 DEF PromptMarks, OwnTypes, PromptPcs, Statuses
<1>5. CASE PromptLeased(m) \/ PromptSends(m) \/ PromptReturns(m) \/ PromptReleased(m)
  BY <1>0, <1>3, <1>5
     DEF PromptLeased, PromptSends, PromptReturns, PromptReleased, OwnTypes, PromptPcs
<1>6. CASE PromptCatches(m)
  <2>1. \/ SetPrompt(m, "release")
        \/ SetPrompt(m, "failed")
    BY <1>6 DEF PromptCatches
  <2> QED
    BY <1>0, <1>3, <1>6, <2>1 DEF PromptCatches, OwnTypes, PromptPcs
<1> QED
  BY <1>1, <1>2, <1>4, <1>5, <1>6 DEF PromptStep, Prompting

LEMMA EventTypes ==
    ASSUME ManagerInv, NEW p \in Procs, Events(p)
    PROVE  OwnTypes' /\ OwnCallers'
<1>0. OwnTypes /\ OwnCallers /\ owner[p] \in Agents \cup {None}
  BY InvTypes DEF OwnTypes
<1>1. CASE OnTurnStart(p) \/ OnUiRequest(p) \/ OnSettled(p)
  <2>1. asked' \in [Agents -> Procs \cup {None}] /\ status' \in [Agents -> Statuses]
    BY <1>0, <1>1 DEF OnTurnStart, OnUiRequest, OnSettled, OwnTypes, Statuses
  <2> QED
    BY <1>0, <1>1, <2>1
       DEF OnTurnStart, OnUiRequest, OnSettled, EventUnchanged, OwnTypes, OwnCallers
<1>2. CASE OnExit(p)
  <2>1. asked' \in [Agents -> Procs \cup {None}] /\ processes' \in [Agents -> Procs \cup {None}]
    BY <1>0, <1>2 DEF OnExit, OwnTypes
  <2>2. CASE handle[p] = "stopping" \/ processes[owner[p]] # p
    BY <1>0, <1>2, <2>1, <2>2 DEF OnExit, EventUnchanged, OwnTypes, OwnCallers
  <2>3. CASE ~(handle[p] = "stopping" \/ processes[owner[p]] # p)
    <3>1. PICK i \in Recoveries :
              /\ recovery[i] = NoRecovery
              /\ recovery' = [recovery EXCEPT ![i] =
                                [agent |-> owner[p], attempt |-> 1, pc |-> "sleep"]]
      BY <1>2, <2>3 DEF OnExit
    <3>2. owner[p] \in Agents
      <4>1. handle[p] = "open" => owner[p] \in Agents
        BY InvTypes DEF Children
      <4>2. handle[p] \in {"open", "stopping"}
        BY <1>2 DEF OnExit, ExitSeen, Writable
      <4> QED
        BY <2>3, <4>1, <4>2
    <3>3. recovery' \in [Recoveries -> RecoveryStates]
      <4>1. [agent |-> owner[p], attempt |-> 1, pc |-> "sleep"] \in RecoveryStates
        BY <3>2 DEF RecoveryStates, RecoveryPcs
      <4> QED
        BY <1>0, <3>1, <4>1 DEF OwnTypes
    <3> QED
      BY <1>0, <1>2, <2>1, <3>1, <3>2, <3>3 DEF RecoveryStates, NoRecovery, OnExit, EventUnchanged, OwnTypes, OwnCallers
  <2> QED
    BY <2>2, <2>3
<1>3. CASE OnLine(p)
  BY <1>0, <1>3 DEF OnLine, managerVars, OwnTypes, OwnCallers
<1> QED
  BY <1>1, <1>2, <1>3 DEF Events

LEMMA RecoveryTypes ==
    ASSUME ManagerInv, NEW i \in Recoveries, RecoveryWakes(i) \/ RecoveryEnds(i)
    PROVE  OwnTypes' /\ OwnCallers'
<1>0. OwnTypes /\ OwnCallers
  BY InvTypes
<1>2. /\ processes' \in [Agents -> Procs \cup {None}]
      /\ flight' \in [Agents -> FlightStates]
  <2>1. UNCHANGED <<processes, flight>> \/ JoinFlight(recovery[i].agent)
    BY DEF RecoveryWakes, RecoveryEnds
  <2> QED
    BY <1>0, <2>1, JoinTypes DEF OwnTypes
<1>3. recovery' \in [Recoveries -> RecoveryStates]
  BY <1>0 DEF RecoveryStates, NoRecovery, RecoveryWakes, RecoveryEnds, OwnTypes, RecoveryPcs
<1>4. \A j \in Recoveries : recovery'[j].pc # "none" =>
          recovery[j].pc # "none" /\ recovery'[j].agent = recovery[j].agent
  BY <1>0 DEF RecoveryStates, NoRecovery, RecoveryWakes, RecoveryEnds, OwnTypes, RecoveryPcs
<1>5. status' \in [Agents -> Statuses]
  BY <1>0 DEF RecoveryWakes, RecoveryEnds, OwnTypes, Statuses
<1>6. OwnTypes'
  BY <1>0, <1>2, <1>3, <1>5 DEF RecoveryWakes, RecoveryEnds, RecoveryUnchanged, OwnTypes
<1>7. OwnCallers'
  BY <1>0, <1>4 DEF RecoveryWakes, RecoveryEnds, RecoveryUnchanged, OwnCallers
<1> QED
  BY <1>6, <1>7

LEMMA FlightTypes ==
    ASSUME ManagerInv, NEW a \in Agents, Flights(a)
    PROVE  OwnTypes' /\ OwnCallers'
<1>0. /\ OwnTypes /\ OwnCallers
      /\ flight[a].pc \in Started => flight[a].proc \in Procs
  BY InvTypes DEF Children
<1>1. CASE FlightSpawns(a)
  BY <1>0, <1>1 DEF FlightStates, FlightPcs, NoFlight, FlightSpawns, OwnTypes, OwnCallers, Started
<1>2. CASE HandshakeDone(a)
  BY <1>0, <1>2 DEF FlightStates, FlightPcs, NoFlight, HandshakeDone, OwnTypes, OwnCallers, Started
<1>3. CASE HistoryDone(a)
  <2>1. FlightEnds(a, "up", flight[a].proc) /\ flight[a].proc \in Procs
    BY <1>0, <1>3 DEF HistoryDone, Started
  <2> QED
    BY <1>0, <1>3, <2>1, FlightEndsTypes DEF HistoryDone, OwnTypes
<1>4. CASE FlightFails(a)
  <2>1. faults' \in 0..MaxFaults
    BY <1>0, <1>4, FaultTypes DEF FlightFails, OwnTypes
  <2>2. fallbacks' \in 0..Fallbacks
    BY <1>0, <1>4, ManagerAssumption DEF FlightFails, OwnTypes
  <2>3. /\ processes' \in [Agents -> Procs \cup {None}]
        /\ flight' \in [Agents -> FlightStates]
    BY <1>0, <1>4 DEF FlightStates, FlightPcs, NoFlight, FlightFails, OwnTypes
  <2> QED
    BY <1>0, <1>4, <2>1, <2>2, <2>3 DEF FlightFails, OwnTypes, OwnCallers
<1>5. CASE FlightStopped(a)
  <2>1. CASE flight[a].pc = "fallback"
    BY <1>0, <1>5, <2>1 DEF FlightStates, FlightPcs, NoFlight, FlightStopped, OwnTypes, OwnCallers
  <2>2. CASE flight[a].pc # "fallback"
    <3>1. FlightEnds(a, "down", None)
      BY <1>5, <2>2 DEF FlightStopped
    <3> QED
      BY <1>0, <1>5, <3>1, FlightEndsTypes DEF FlightStopped, OwnTypes
  <2> QED
    BY <2>1, <2>2
<1> QED
  BY <1>1, <1>2, <1>3, <1>4, <1>5 DEF Flights

LEMMA OpTypes ==
    ASSUME ManagerInv, NEW a \in Agents, OpStep(a)
    PROVE  OwnTypes' /\ OwnCallers'
<1>0. OwnTypes /\ OwnCallers
  BY InvTypes
<1>2. ASSUME NEW kind \in OpKinds, NEW pc \in OpPcs, OpBegins(a, kind, pc),
             processes' \in [Agents -> Procs \cup {None}], asked' \in [Agents -> Procs \cup {None}]
      PROVE  OwnTypes' /\ OwnCallers'
  <2>1. ops' \in 0..MaxOps
    BY <1>0, <1>2, ManagerAssumption DEF OpBegins, OwnTypes
  <2>2. op' \in [Agents -> OpStates]
    <3>1. [kind |-> kind, proc |-> processes[a], pc |-> pc, snap |-> status[a]] \in OpStates
      BY <1>0 DEF OwnTypes, OpStates
    <3> QED
      BY <1>0, <1>2, <3>1 DEF OpBegins, OwnTypes
  <2> QED
    BY <1>0, <1>2, <2>1, <2>2 DEF OpBegins, OpUnchanged, OwnTypes, OwnCallers
<1>3. ASSUME NEW kind \in {"reconnect", "reload", "reset", "close"}, OpStarts(a, kind)
      PROVE  OwnTypes' /\ OwnCallers'
  BY <1>0, <1>2, <1>3 DEF OpStarts, OpKinds, OpPcs, OwnTypes
<1>4. CASE Activate(a)
  BY <1>0, <1>2, <1>4 DEF Activate, OpKinds, OpPcs, OwnTypes
<1>5. CASE OpStopped(a) \/ OpReleased(a)
  <2>1. op' \in [Agents -> OpStates]
    <3>1. \A pc \in OpPcs : [op[a] EXCEPT !.pc = pc] \in OpStates
      BY <1>0 DEF OwnTypes, OpStates
    <3>2. NoOp \in OpStates
      BY DEF NoOp, OpStates, OpKinds, Statuses, OpPcs
    <3>3. \/ op' = [op EXCEPT ![a].pc = "release"] \/ op' = [op EXCEPT ![a].pc = "ensure"]
          \/ op' = [op EXCEPT ![a] = NoOp]
      BY <1>5 DEF OpStopped, OpReleased
    <3> QED
      BY <1>0, <3>1, <3>2, <3>3 DEF OwnTypes, OpPcs
  <2>2. retired' \subseteq Agents
    BY <1>0, <1>5 DEF OpStopped, OpReleased, OwnTypes
  <2> QED
    BY <1>0, <1>5, <2>1, <2>2 DEF OpStopped, OpReleased, OpUnchanged, OwnTypes, OwnCallers
<1>6. CASE OpEnsures(a)
  <2>1. UNCHANGED <<processes, flight>> \/ JoinFlight(a)
    BY <1>6 DEF OpEnsures
  <2>2. /\ processes' \in [Agents -> Procs \cup {None}]
        /\ flight' \in [Agents -> FlightStates]
    BY <1>0, <2>1, JoinTypes DEF OwnTypes
  <2>3. op' \in [Agents -> OpStates]
    BY <1>0, <1>6 DEF OpStates, OpEnsures, OwnTypes, OpPcs
  <2> QED
    BY <1>0, <1>6, <2>2, <2>3 DEF OpEnsures, OpUnchanged, OwnTypes, OwnCallers
<1>7. CASE OpEnds(a) \/ ActivateLooks(a) \/ ActivateEnds(a)
  <2>1. op' \in [Agents -> OpStates]
    BY <1>0, <1>7 DEF OpStates, OpKinds, Statuses, NoOp, OpEnds, ActivateLooks, ActivateEnds, OpSets, OwnTypes, OpPcs
  <2>2. status' \in [Agents -> Statuses]
    BY <1>0, <1>7 DEF OpEnds, ActivateLooks, ActivateEnds, OpSets, OwnTypes, Statuses
  <2> QED
    BY <1>0, <1>7, <2>1, <2>2
       DEF OpEnds, ActivateLooks, ActivateEnds, OpUnchanged, OwnTypes, OwnCallers
<1> QED
  BY <1>3, <1>4, <1>5, <1>6, <1>7 DEF OpStep, Operations

LEMMA OwnTypesKept ==
    ASSUME ManagerInv, Next
    PROVE  OwnTypes' /\ OwnCallers'
<1>0. OwnTypes /\ OwnCallers
  BY InvTypes
<1>1. ASSUME NEW c \in Calls, LeaseWorks(c) \/ VoidReturns(c) PROVE OwnTypes' /\ OwnCallers'
  BY <1>0, <1>1 DEF LeaseWorks, VoidReturns, managerVars, OwnTypes, OwnCallers
<1>2. ASSUME NEW p \in Procs, ChildStep(p) PROVE OwnTypes' /\ OwnCallers'
  <2>1. faults' \in 0..MaxFaults
    BY <1>0, <1>2, FaultTypes DEF ChildStep, PiWorks, PiFaults, managerVars, OwnTypes
  <2> QED
    BY <1>0, <1>2, <2>1 DEF ChildStep, PiWorks, PiFaults, managerVars, OwnTypes, OwnCallers
<1>3. ASSUME NEW a \in Agents, UserStep(a) PROVE OwnTypes' /\ OwnCallers'
  BY <1>0, <1>3 DEF UserStep, RespondToExtensionUi, Abort, UserUnchanged, OwnTypes, OwnCallers
<1> QED
  BY <1>1, <1>2, <1>3, ManagerSteps, PromptTypes, EventTypes, RecoveryTypes, FlightTypes, OpTypes

-----------------------------------------------------------------------------
(* Which child belongs to which agent.                                     *)

(* No step that only closes handles or forgets processes disturbs it.      *)
LEMMA ChildrenClose ==
    ASSUME ManagerInv, OwnTypes', UNCHANGED <<owner, flight>>,
           \A p \in Procs : /\ handle'[p] = "open" => handle[p] = "open"
                            /\ handle[p] # "unborn" => handle'[p] # "unborn",
           \A a \in Agents :
               \/ processes'[a] = processes[a]
               \/ processes'[a] = None /\ (processes[a] # None => handle'[processes[a]] # "open")
    PROVE  Children'
<1>0. Children /\ OwnTypes
  BY InvTypes
<1>1. \A p \in Procs : handle'[p] = "open" =>
          /\ owner'[p] \in Agents
          /\ processes'[owner'[p]] = p \/ flight'[owner'[p]] = [proc |-> p, pc |-> "handshake"]
  BY <1>0, ManagerAssumption DEF Children
<1>2. \A a \in Agents :
          /\ flight'[a].pc \notin {"none", "history"} => processes'[a] = None
          /\ flight'[a].pc = "history" => processes'[a] \in {None, flight'[a].proc}
          /\ flight'[a].pc \in Started => /\ flight'[a].proc \in Procs
                                          /\ owner'[flight'[a].proc] = a
                                          /\ handle'[flight'[a].proc] # "unborn"
          /\ flight'[a].pc \notin Started => flight'[a].proc = None
  BY <1>0 DEF Children
<1>3. \A a \in Agents : processes'[a] # None =>
          owner'[processes'[a]] = a /\ handle'[processes'[a]] # "unborn"
  BY <1>0 DEF Children, OwnTypes
<1> QED
  BY <1>1, <1>2, <1>3 DEF Children

(* A caller joins a start: a process that is not running is forgotten.     *)
LEMMA ChildrenJoin ==
    ASSUME ManagerInv, NEW a \in Agents, JoinFlight(a), UNCHANGED <<owner, handle>>
    PROVE  Children'
<1>0. Children /\ OwnTypes /\ None \notin Procs
  BY InvTypes, ManagerAssumption
<1>1. /\ processes[a] # None => handle[processes[a]] # "open"
      /\ processes' = [processes EXCEPT ![a] = None]
      /\ \A b \in Agents : b # a => flight'[b] = flight[b]
      /\ \/ flight' = flight
         \/ flight[a] = NoFlight /\ flight'[a] = [proc |-> None, pc |-> "config"]
  BY <1>0 DEF JoinFlight, HasProcess, IsRunning, OwnTypes, NoFlight
<1>2. /\ processes'[a] = None /\ \A b \in Agents : b # a => processes'[b] = processes[b]
  BY <1>0, <1>1 DEF OwnTypes
<1>3. \A p \in Procs : handle'[p] = "open" =>
          /\ owner'[p] \in Agents
          /\ processes'[owner'[p]] = p \/ flight'[owner'[p]] = [proc |-> p, pc |-> "handshake"]
  BY <1>0, <1>1, <1>2 DEF Children, NoFlight
<1>4. \A b \in Agents :
          /\ flight'[b].pc \notin {"none", "history"} => processes'[b] = None
          /\ flight'[b].pc = "history" => processes'[b] \in {None, flight'[b].proc}
          /\ flight'[b].pc \in Started => /\ flight'[b].proc \in Procs
                                          /\ owner'[flight'[b].proc] = b
                                          /\ handle'[flight'[b].proc] # "unborn"
          /\ flight'[b].pc \notin Started => flight'[b].proc = None
          /\ processes'[b] # None => owner'[processes'[b]] = b /\ handle'[processes'[b]] # "unborn"
  BY <1>0, <1>1, <1>2 DEF Children, Started
<1> QED
  BY <1>3, <1>4 DEF Children

(* The start of a process: it is an open one of its agent, and the only    *)
(* one, until it is registered, stopped or given up.                       *)
LEMMA ChildrenFlights ==
    ASSUME ManagerInv, OwnTypes', NEW a \in Agents, Flights(a)
    PROVE  Children'
<1>0. /\ Children /\ OwnTypes /\ None \notin Procs
      /\ handle \in [Procs -> Handles] /\ processes \in [Agents -> Procs \cup {None}]
      /\ flight \in [Agents -> FlightStates] /\ owner \in [Procs -> Agents \cup {None}]
  BY InvTypes, ManagerAssumption DEF RpcInv, RpcTypeOK, OwnTypes
<1>1. ASSUME FlightSpawns(a) PROVE Children'
  <2>1. PICK p \in Procs : /\ handle[p] = "unborn" /\ handle' = [handle EXCEPT ![p] = "open"]
                           /\ owner' = [owner EXCEPT ![p] = a]
                           /\ flight' = [flight EXCEPT ![a] = [proc |-> p, pc |-> "handshake"]]
    BY <1>1 DEF FlightSpawns, Spawn
  <2>2. processes' = processes /\ processes[a] = None /\ flight[a].pc = "config"
    BY <1>0, <1>1 DEF FlightSpawns, Children
  <2>3. \A q \in Procs : handle'[q] = "open" =>
            /\ owner'[q] \in Agents
            /\ processes'[owner'[q]] = q \/ flight'[owner'[q]] = [proc |-> q, pc |-> "handshake"]
    BY <1>0, <2>1, <2>2 DEF Children
  <2>4. \A b \in Agents :
            /\ flight'[b].pc \notin {"none", "history"} => processes'[b] = None
            /\ flight'[b].pc = "history" => processes'[b] \in {None, flight'[b].proc}
            /\ flight'[b].pc \in Started => /\ flight'[b].proc \in Procs
                                            /\ owner'[flight'[b].proc] = b
                                            /\ handle'[flight'[b].proc] # "unborn"
            /\ flight'[b].pc \notin Started => flight'[b].proc = None
    BY <1>0, <2>1, <2>2 DEF Children, Started
  <2>5. \A b \in Agents : processes'[b] # None =>
            owner'[processes'[b]] = b /\ handle'[processes'[b]] # "unborn"
    BY <1>0, <2>1, <2>2 DEF Children
  <2> QED
    BY <2>3, <2>4, <2>5 DEF Children
<1>2. CASE HandshakeDone(a)
  <2> DEFINE p == flight[a].proc
  <2>1. /\ p \in Procs /\ handle[p] = "open" /\ owner[p] = a /\ processes[a] = None
        /\ flight[a].pc = "handshake" /\ processes'[a] = p
        /\ flight'[a].pc = "history" /\ flight'[a].proc = p
        /\ \A b \in Agents : b # a => flight'[b] = flight[b] /\ processes'[b] = processes[b]
        /\ UNCHANGED <<handle, owner>>
    BY <1>0, <1>2 DEF HandshakeDone, IsRunning, rpcVars, Children, Started, FlightStates
  <2>2. \A q \in Procs : handle'[q] = "open" =>
            /\ owner'[q] \in Agents
            /\ processes'[owner'[q]] = q \/ flight'[owner'[q]] = [proc |-> q, pc |-> "handshake"]
    BY <1>0, <2>1 DEF Children
  <2>3. \A b \in Agents :
            /\ flight'[b].pc \notin {"none", "history"} => processes'[b] = None
            /\ flight'[b].pc = "history" => processes'[b] \in {None, flight'[b].proc}
            /\ flight'[b].pc \in Started => /\ flight'[b].proc \in Procs
                                            /\ owner'[flight'[b].proc] = b
                                            /\ handle'[flight'[b].proc] # "unborn"
            /\ flight'[b].pc \notin Started => flight'[b].proc = None
            /\ processes'[b] # None => owner'[processes'[b]] = b /\ handle'[processes'[b]] # "unborn"
    BY <1>0, <2>1 DEF Children, Started
  <2> QED
    BY <2>2, <2>3 DEF Children
<1>3. ASSUME flight'[a].pc \in {"none", "config"}, flight'[a].proc = None,
             \A b \in Agents : b # a => flight'[b] = flight[b],
             UNCHANGED <<handle, owner, processes>>,
             \/ flight[a].pc = "history" \/ processes[a] = None,
             flight[a].pc \in Started,
             flight'[a].pc = "config" => processes[a] = None,
             flight[a].pc # "handshake"
      PROVE  Children'
  <2>1. \A q \in Procs : handle'[q] = "open" =>
            /\ owner'[q] \in Agents
            /\ processes'[owner'[q]] = q \/ flight'[owner'[q]] = [proc |-> q, pc |-> "handshake"]
    BY <1>0, <1>3 DEF Children
  <2>2. \A b \in Agents :
            /\ flight'[b].pc \notin {"none", "history"} => processes'[b] = None
            /\ flight'[b].pc = "history" => processes'[b] \in {None, flight'[b].proc}
            /\ flight'[b].pc \in Started => /\ flight'[b].proc \in Procs
                                            /\ owner'[flight'[b].proc] = b
                                            /\ handle'[flight'[b].proc] # "unborn"
            /\ flight'[b].pc \notin Started => flight'[b].proc = None
            /\ processes'[b] # None => owner'[processes'[b]] = b /\ handle'[processes'[b]] # "unborn"
    BY <1>0, <1>3 DEF Children, Started
  <2> QED
    BY <2>1, <2>2 DEF Children
<1>4. CASE HistoryDone(a)
  BY <1>0, <1>3, <1>4 DEF HistoryDone, FlightEnds, rpcVars, NoFlight, Started
<1>5. CASE FlightStopped(a)
  <2>1. processes[a] = None
    BY <1>0, <1>5 DEF FlightStopped, Children
  <2> QED
    <3>1. \/ flight' = [flight EXCEPT ![a] = [proc |-> None, pc |-> "config"]]
          \/ flight' = [flight EXCEPT ![a] = NoFlight]
      BY <1>5 DEF FlightStopped, FlightEnds
    <3>2. /\ flight'[a].pc \in {"none", "config"} /\ flight'[a].proc = None
          /\ \A b \in Agents : b # a => flight'[b] = flight[b]
      BY <1>0, <3>1 DEF NoFlight
    <3>3. /\ flight[a].pc \in {"fallback", "failing"}
          /\ UNCHANGED <<handle, owner, processes>>
      BY <1>5 DEF FlightStopped, rpcVars
    <3> QED
      BY <1>3, <2>1, <3>2, <3>3 DEF Started
<1>6. CASE FlightFails(a)
  <2> DEFINE p == flight[a].proc
  <2>1. /\ p \in Procs /\ owner[p] = a /\ flight[a].pc \in {"handshake", "history"}
        /\ processes[a] \in {None, p} /\ handle[p] # "unborn"
    BY <1>0, <1>6 DEF FlightFails, Children, Started
  <2>2. /\ processes'[a] = None /\ \A b \in Agents : b # a => processes'[b] = processes[b]
        /\ flight'[a].pc \in {"fallback", "failing"} /\ flight'[a].proc = p
        /\ \A b \in Agents : b # a => flight'[b] = flight[b]
        /\ owner' = owner
    BY <1>0, <1>6, <2>1 DEF FlightFails, FlightStates
  <2>3. handle'[p] \notin {"open", "unborn"} /\ \A q \in Procs : q # p => handle'[q] = handle[q]
    BY <1>0, <1>6, <2>1 DEF FlightFails, Stop, Writable
  <2>4. \A q \in Procs : handle'[q] = "open" =>
            /\ owner'[q] \in Agents
            /\ processes'[owner'[q]] = q \/ flight'[owner'[q]] = [proc |-> q, pc |-> "handshake"]
    BY <1>0, <2>1, <2>2, <2>3 DEF Children
  <2>5. \A b \in Agents :
            /\ flight'[b].pc \notin {"none", "history"} => processes'[b] = None
            /\ flight'[b].pc = "history" => processes'[b] \in {None, flight'[b].proc}
            /\ flight'[b].pc \in Started => /\ flight'[b].proc \in Procs
                                            /\ owner'[flight'[b].proc] = b
                                            /\ handle'[flight'[b].proc] # "unborn"
            /\ flight'[b].pc \notin Started => flight'[b].proc = None
    BY <1>0, <2>1, <2>2, <2>3 DEF Children, Started
  <2>6. \A b \in Agents : processes'[b] # None =>
            owner'[processes'[b]] = b /\ handle'[processes'[b]] # "unborn"
    BY <1>0, <2>1, <2>2, <2>3 DEF Children
  <2> QED
    BY <2>4, <2>5, <2>6 DEF Children
<1> QED
  BY <1>1, <1>2, <1>4, <1>5, <1>6 DEF Flights

(* Every step of the manager keeps the processes with their agents.        *)
LEMMA ChildrenKept ==
    ASSUME ManagerInv, Next, OwnTypes'
    PROVE  Children'
<1>0. /\ Children /\ OwnTypes /\ OwnCallers /\ None \notin Procs
      /\ handle \in [Procs -> Handles] /\ processes \in [Agents -> Procs \cup {None}]
      /\ flight \in [Agents -> FlightStates] /\ owner \in [Procs -> Agents \cup {None}]
  BY InvTypes, ManagerAssumption DEF RpcInv, RpcTypeOK, OwnTypes
<1>1. UNCHANGED <<handle, owner, processes, flight>> => Children'
  BY <1>0 DEF Children
<1>2. ASSUME NEW c \in Calls, LeaseWorks(c) \/ VoidReturns(c) PROVE Children'
  BY <1>1, <1>2 DEF LeaseWorks, VoidReturns, managerVars, rpcVars
<1>3. ASSUME NEW m \in Requests, PromptStep(m) PROVE Children'
  <2>1. CASE PromptEnsures(m)
    <3>1. prompt[m].agent \in Agents
      BY <1>0, <2>1 DEF PromptEnsures, OwnCallers
    <3>2. \/ UNCHANGED <<processes, flight>>
          \/ JoinFlight(prompt[m].agent)
      BY <2>1 DEF PromptEnsures
    <3> QED
      BY <1>1, <2>1, <3>1, <3>2, ChildrenJoin DEF PromptEnsures, PromptUnchanged, rpcVars
  <2>2. CASE PromptSends(m)
    BY <1>1, <2>2 DEF PromptSends, Send, SendFails, PromptUnchanged
  <2> QED
    BY <1>1, <1>3, <2>1, <2>2
       DEF PromptStep, Prompting, PromptStarts, PromptLeased, PromptMarks, PromptReturns,
           PromptCatches, PromptReleased, PromptUnchanged, rpcVars
<1>4. ASSUME NEW p \in Procs, ChildStep(p) PROVE Children'
  <2>1. \A q \in Procs : /\ handle'[q] = "open" => handle[q] = "open"
                         /\ handle[q] # "unborn" => handle'[q] # "unborn"
    BY <1>0, <1>4
       DEF ChildStep, PiWorks, PiFaults, PiAccepts, PiTurns, PiAsks, PiGetsAnswer, PiSettles,
           PiAborts, PiDies, PiRefuses, PiHandles, Kill, TimeOut
  <2>2. UNCHANGED <<owner, flight, processes>>
    BY <1>4 DEF ChildStep, PiWorks, PiFaults, managerVars
  <2> QED
    BY <2>1, <2>2, ChildrenClose
<1>5. ASSUME NEW p \in Procs, Events(p) PROVE Children'
  <2>1. CASE OnExit(p)
    <3>1. /\ handle'[p] = "closed" /\ \A q \in Procs : q # p => handle'[q] = handle[q]
          /\ handle[p] \in {"open", "stopping"}
      BY <1>0, <2>1 DEF OnExit, ExitSeen, Writable
    <3>2. /\ processes' = processes \/ processes' = [processes EXCEPT ![owner[p]] = None]
          /\ processes' # processes => processes[owner[p]] = p
      BY <2>1 DEF OnExit
    <3>3. UNCHANGED <<owner, flight>>
      BY <2>1 DEF OnExit, EventUnchanged
    <3>4. \A a \in Agents :
              \/ processes'[a] = processes[a]
              \/ processes'[a] = None /\ (processes[a] # None => handle'[processes[a]] # "open")
      BY <1>0, <3>1, <3>2
    <3> QED
      BY <3>1, <3>3, <3>4, ChildrenClose
  <2> QED
    BY <1>1, <1>5, <2>1
       DEF Events, OnTurnStart, OnUiRequest, OnSettled, OnLine, OnResponse, TakeEvent,
           EventUnchanged, managerVars
<1>6. ASSUME NEW i \in Recoveries, RecoveryWakes(i) \/ RecoveryEnds(i) PROVE Children'
  <2>1. UNCHANGED <<owner, handle>>
    BY <1>6 DEF RecoveryWakes, RecoveryEnds, RecoveryUnchanged, rpcVars
  <2>2. \/ UNCHANGED <<processes, flight>>
        \/ JoinFlight(recovery[i].agent) /\ recovery[i].pc = "sleep"
    BY <1>6 DEF RecoveryWakes, RecoveryEnds
  <2> QED
    BY <1>0, <1>1, <2>1, <2>2, ChildrenJoin DEF OwnCallers
<1>7. ASSUME NEW a \in Agents, OpStep(a) PROVE Children'
  <2>1. ASSUME NEW kind, OpStarts(a, kind) PROVE Children'
    <3>1. UNCHANGED <<owner, flight>> /\ processes' = [processes EXCEPT ![a] = None]
      BY <2>1 DEF OpStarts, OpBegins, OpUnchanged
    <3>2. \/ processes[a] = None /\ handle' = handle
          \/ /\ processes[a] # None /\ processes[a] \in Procs
             /\ Stop(processes[a]) \/ WriteAndStop(processes[a], <<"answer">>)
      BY <1>0, <2>1 DEF OpStarts, rpcVars
    <3>3. /\ \A q \in Procs : /\ handle'[q] = "open" => handle[q] = "open"
                              /\ handle[q] # "unborn" => handle'[q] # "unborn"
          /\ processes[a] # None => handle'[processes[a]] # "open"
      BY <1>0, <3>2 DEF Stop, WriteAndStop, Writable
    <3>4. \A b \in Agents :
              \/ processes'[b] = processes[b]
              \/ processes'[b] = None /\ (processes[b] # None => handle'[processes[b]] # "open")
      BY <1>0, <3>1, <3>3
    <3> QED
      BY <3>1, <3>3, <3>4, ChildrenClose
  <2>2. CASE OpEnsures(a)
    <3>1. UNCHANGED <<processes, flight>> \/ JoinFlight(a)
      BY <2>2 DEF OpEnsures
    <3> QED
      BY <1>1, <2>2, <3>1, ChildrenJoin DEF OpEnsures, OpUnchanged, rpcVars
  <2> QED
    BY <1>1, <1>7, <2>1, <2>2
       DEF OpStep, Activate, OpBegins, Operations, OpStopped, OpReleased, OpEnds, ActivateLooks,
           ActivateEnds, OpUnchanged, rpcVars
<1>8. ASSUME NEW a \in Agents, UserStep(a) PROVE Children'
  BY <1>1, <1>8 DEF UserStep, RespondToExtensionUi, Abort, Write, UserUnchanged, rpcVars
<1> QED
  BY <1>2, <1>3, <1>4, <1>5, <1>6, <1>7, <1>8, ManagerSteps, ChildrenFlights

-----------------------------------------------------------------------------
(* Nothing is started yet.                                                 *)
LEMMA InitManager == Init => ManagerInv
<1> SUFFICES ASSUME Init PROVE ManagerInv
  OBVIOUS
<1>1. OwnTypes
  <2>1. /\ NoFlight \in FlightStates /\ NoOp \in OpStates /\ NoRecovery \in RecoveryStates
        /\ [agent |-> None, proc |-> None, pc |-> "new"] \in PromptStates
    BY DEF NoFlight, FlightStates, FlightPcs, NoOp, OpStates, OpKinds, Statuses, OpPcs, NoRecovery,
           RecoveryStates, RecoveryPcs, PromptStates, PromptPcs
  <2> QED
    BY <2>1, ManagerAssumption DEF Init, OwnTypes, Statuses
<1>2. OwnCallers
  BY DEF Init, OwnCallers, NoRecovery
<1>3. LeaseTypes
  BY ManagerAssumption DEF Init, LeaseTypes, LeaseTypeOK, IdleCall, CallStates, Ops, Pcs, Files
<1>4. RpcInv
  BY InitRpc DEF Init
<1>5. Children
  BY DEF Init, RpcInit, Children, NoFlight, Started
<1> QED
  BY <1>1, <1>2, <1>3, <1>4, <1>5, InvTypes

(* Every step keeps types, transport and children.                         *)
LEMMA NextManager == ManagerInv /\ [Next]_vars => ManagerInv'
<1>1. ManagerInv /\ Next => ManagerInv'
  <2> SUFFICES ASSUME ManagerInv, Next PROVE ManagerInv'
    OBVIOUS
  <2>1. OwnTypes' /\ OwnCallers'
    BY OwnTypesKept
  <2>2. LeaseTypes'
    BY LeaseOf, LeaseTypesKept, InvTypes
  <2>3. RpcInv'
    BY Transports, TransportKept, InvTypes
  <2>4. Children'
    BY <2>1, ChildrenKept
  <2> QED
    BY <2>1, <2>2, <2>3, <2>4, InvTypesNext
<1>2. ManagerInv /\ UNCHANGED vars => ManagerInv'
  <2> SUFFICES ASSUME ManagerInv, UNCHANGED vars PROVE ManagerInv'
    OBVIOUS
  <2>1. OwnTypes' /\ OwnCallers'
    BY InvTypes DEF vars, managerVars, OwnTypes, OwnCallers
  <2>2. LeaseTypes'
    BY LeaseTypesKept, InvTypes DEF vars, LeaseCalls
  <2>3. RpcInv'
    BY TransportKept, InvTypes DEF vars, TransportStep
  <2>4. Children'
    BY InvTypes DEF vars, managerVars, rpcVars, Children
  <2> QED
    BY <2>1, <2>2, <2>3, <2>4, InvTypesNext
<1> QED
  BY <1>1, <1>2

(* Types, transport and children: the invariant of the manager.            *)
LEMMA ManagerInductive == Spec => []ManagerInv
BY InitManager, NextManager, PTL DEF Spec

(* Lease, pipes, prompts, starts, operations and counters of the manager   *)
(* keep their types, whatever the user, the children and the files do.     *)
THEOREM ManagerTypes == Spec => []TypeOK
BY ManagerInductive, PTL DEF ManagerInv

(* The manager uses the transport as it is meant to be used: every request *)
(* that waits is in one table, none waits on a closed child, and success   *)
(* is only reported of a prompt that Pi took.                              *)
THEOREM ManagerKeepsTransport == Spec => [](WaitingIsPending /\ NoWaitOnClosed /\ AnsweredIsTaken)
BY ManagerInductive, PTL DEF ManagerInv, RpcInv

(* ... and what the caller of a prompt was told is final.                  *)
THEOREM ManagerTellsOnce == Spec => SettledForGood
<1>1. ManagerInv /\ [Next]_vars =>
          [\A r \in Requests : result[r] \in Settled => result'[r] = result[r]]_rpcVars
  <2>1. ManagerInv /\ Next =>
            \A r \in Requests : result[r] \in Settled => result'[r] = result[r]
    BY Transports, TransportSettles DEF ManagerInv
  <2>2. UNCHANGED vars => UNCHANGED rpcVars
    BY DEF vars
  <2> QED
    BY <2>1, <2>2
<1> QED
  BY <1>1, ManagerInductive, PTL DEF Spec, SettledForGood

(* No two open children of one agent live at a time, and once nothing of   *)
(* an agent goes on the manager knows the open child it has: for any       *)
(* faults, operations and prompts.                                         *)
THEOREM OneChildPerAgent == Spec => []OneChild
<1>1. ManagerInv => OneChild
  <2> SUFFICES ASSUME ManagerInv PROVE OneChild
    OBVIOUS
  <2>0. Children /\ alive \subseteq Procs /\ None \notin Procs
    BY InvTypes, ManagerAssumption DEF RpcInv, RpcTypeOK
  <2>1. \A p, q \in alive :
            handle[p] = "open" /\ handle[q] = "open" /\ owner[p] = owner[q] => p = q
    <3> SUFFICES ASSUME NEW p \in alive, NEW q \in alive, handle[p] = "open", handle[q] = "open",
                        owner[p] = owner[q]
                 PROVE  p = q
      OBVIOUS
    <3> DEFINE a == owner[p]
    <3>1. /\ a \in Agents
          /\ processes[a] = p \/ flight[a] = [proc |-> p, pc |-> "handshake"]
          /\ processes[a] = q \/ flight[a] = [proc |-> q, pc |-> "handshake"]
          /\ flight[a].pc \notin {"none", "history"} => processes[a] = None
      BY <2>0 DEF Children
    <3>2. \A r : flight[a] = [proc |-> r, pc |-> "handshake"] =>
                    flight[a].pc = "handshake" /\ flight[a].proc = r
      OBVIOUS
    <3> HIDE DEF a
    <3> QED
      BY <2>0, <3>1, <3>2
  <2>2. \A p \in alive : handle[p] = "open" /\ Quiet(owner[p]) => processes[owner[p]] = p
    <3> SUFFICES ASSUME NEW p \in alive, handle[p] = "open", Quiet(owner[p])
                 PROVE  processes[owner[p]] = p
      OBVIOUS
    <3>1. flight[owner[p]] = NoFlight
      BY DEF Quiet
    <3>2. processes[owner[p]] = p \/ flight[owner[p]] = [proc |-> p, pc |-> "handshake"]
      BY <2>0 DEF Children
    <3>3. [proc |-> p, pc |-> "handshake"] # NoFlight
      BY DEF NoFlight
    <3> QED
      BY <3>1, <3>2, <3>3
  <2> QED
    BY <2>1, <2>2 DEF OneChild
<1> QED
  BY <1>1, ManagerInductive, PTL

-----------------------------------------------------------------------------
(* The lease covers the runs.  The user prompts and operates on an agent   *)
(* only when it is quiet, no child dies on its own and no prompt times     *)
(* out: then one thing at a time goes on for an agent.                     *)

UserWaits == Patient /\ ~BeatsRace /\ "die" \notin Faults /\ "timeout" \notin Faults

Active(m) == prompt[m].pc \notin {"new", "done", "failed"}

(* One prompt or one operation at a time works for an agent; a start in    *)
(* flight is awaited by it.                                                *)
Actors ==
    /\ \A i \in Recoveries : recovery[i] = NoRecovery
    /\ \A m \in Requests : prompt[m].agent = None <=> prompt[m].pc = "new"
    /\ \A m, n \in Requests : Active(m) /\ Active(n) /\ prompt[m].agent = prompt[n].agent => m = n
    /\ \A m \in Requests : Active(m) => op[prompt[m].agent] = NoOp
    /\ \A a \in Agents : flight[a] # NoFlight =>
          \/ op[a].pc = "await"
          \/ \E m \in Requests : prompt[m].agent = a /\ prompt[m].pc = "await"

(* A child that is open lives; the process a prompt is about to be sent to *)
(* is the open process of its agent.                                       *)
Hold ==
    /\ \A p \in Procs : handle[p] = "open" => p \in alive
    /\ \A a \in Agents : flight[a].pc \in {"handshake", "history"} =>
                             handle[flight[a].proc] = "open"
    /\ \A m \in Requests : prompt[m].pc \in {"up", "send"} =>
          processes[prompt[m].agent] = prompt[m].proc /\ handle[prompt[m].proc] = "open"

(* A prompt waits in stdin, while nothing is printed and nothing runs, or  *)
(* its response is the first line of stdout; agent_settled is the last     *)
(* line, of a child that does not run; a refusal is the only line.         *)
Waits(p, r) ==
    \/ \E i \in 1..Len(stdin[p]) : stdin[p][i].kind = "prompt" /\ stdin[p][i].id = r
    \/ stdout[p] # <<>> /\ stdout[p][1].kind = "response" /\ stdout[p][1].id = r

PipesOf(p) ==
    /\ \A i \in 1..Len(stdout[p]) :
          /\ stdout[p][i].kind = "response" =>
                /\ i = 1 /\ stdout[p][i].id \in pending[p]
                /\ stdout[p][i].ok = FALSE => Len(stdout[p]) = 1 /\ p \notin running
          /\ stdout[p][i].kind = "agent_settled" => i = Len(stdout[p]) /\ p \notin running
    /\ \A i \in 1..Len(stdin[p]) : stdin[p][i].kind = "prompt" =>
          /\ stdout[p] = <<>> /\ p \notin running /\ stdin[p][i].id \in pending[p]
          /\ \A j \in 1..Len(stdin[p]) : stdin[p][j].kind = "prompt" => j = i
    /\ \A r \in pending[p] : Waits(p, r)

Pipes == \A p \in Procs : PipesOf(p)

(* The prompts a process has to answer are prompts to its agent that wait. *)
Awaited ==
    \A p \in Procs : \A r \in pending[p] :
        /\ result[r] = "waiting" /\ prompt[r].pc = "sent" /\ prompt[r].agent = owner[p]

(* A process of which something is under way: its agent has no start, no   *)
(* operation and no prompt in an earlier phase.                            *)
Live(p) == p \in running \/ stdout[p] # <<>> \/ pending[p] # {}

Through(m) ==
    prompt[m].pc \in {"done", "failed"} \/ (prompt[m].pc = "sent" /\ result[m] = "answered")

LifeOf(p) ==
    /\ handle[p] = "open" /\ owner[p] \in Agents
    /\ processes[owner[p]] = p /\ flight[owner[p]] = NoFlight /\ op[owner[p]] = NoOp
    /\ \A m \in Requests : prompt[m].agent = owner[p] => Through(m) \/ m \in pending[p]

Lives == \A p \in Procs : Live(p) => LifeOf(p)

(* What the calls on the lease file are for.                               *)
RequestSlots ==
    \A m \in Requests : call[m].pc # "idle" =>
        /\ prompt[m].pc \in {"lease", "release"} /\ call[m].agent = prompt[m].agent
        /\ call[m].op = IF prompt[m].pc = "lease" THEN "acquire" ELSE "release"

AgentSlots ==
    \A a \in Writers :
        /\ call[Beat(a)].pc # "idle" => call[Beat(a)].op = "heartbeat" /\ call[Beat(a)].agent = a
        /\ call[Free(a)].pc # "idle" => call[Free(a)].op = "release" /\ call[Free(a)].agent = a
        /\ call[OpSlot(a)].pc # "idle" =>
              call[OpSlot(a)].op = "release" /\ call[OpSlot(a)].agent = a /\ op[a].pc = "release"

EventCalls ==
    \A a \in Writers :
        /\ ~SlotIdle(Beat(a)) \/ ~SlotIdle(Free(a)) =>
              op[a] = NoOp /\ \A m \in Requests : prompt[m].agent = a => Through(m)
        /\ SlotIdle(Beat(a)) \/ SlotIdle(Free(a))
        /\ ~SlotIdle(Free(a)) => \A p \in Procs : owner[p] = a => ~Live(p)

(* A call that is about to write or remove the file has read the lease of  *)
(* its own agent there, and it is there still.                             *)
LeaseInv ==
    /\ up = {App}
    /\ file.state = "torn" => \E c \in Calls : At(c, "fill")
    /\ \A c \in Calls :
          /\ call[c].pc \in {"truncate", "unlink"} => file = Lease(call[c].agent, App)
          /\ call[c].pc = "truncate" => call[c].seen = file
          /\ call[c].pc = "unlink" => call[c].op = "release"
          /\ call[c].pc = "fill" => file = Torn /\ call[c].seen = Lease(call[c].agent, App)
          /\ call[c].pc # "lost"
          /\ call[c].op = "clear" => call[c].pc = "idle"
    /\ \A c, d \in Calls : At(c, "fill") /\ At(d, "fill") => c = d

(* An agent that was granted the lease has it on disk, or a call of its    *)
(* own is rewriting it.                                                    *)
Holds(a) ==
    Names(a) \/ (file = Torn /\ \E c \in Calls : At(c, "fill") /\ call[c].agent = a)

Leased(m) ==
    \/ prompt[m].pc = "lease" /\ call[m].pc = "ok"
    \/ prompt[m].pc \in {"ensure", "await", "up", "send"}

Engaged(p) ==
    p \in running \/ \E i \in 1..Len(stdin[p]) : stdin[p][i].kind = "prompt"

Grants ==
    /\ \A m \in Requests : prompt[m].agent \in Writers /\ Leased(m) => Holds(prompt[m].agent)
    /\ \A p \in Procs : owner[p] \in Writers /\ Engaged(p) => Holds(owner[p])

CoverInv ==
    /\ ManagerInv /\ Actors /\ Hold /\ Pipes /\ Awaited /\ Lives
    /\ RequestSlots /\ AgentSlots /\ EventCalls /\ LeaseInv /\ Grants

-----------------------------------------------------------------------------
(* What CoverInv says of an agent at work.                                 *)

(* While a prompt has not come through, and no response to it is under     *)
(* way, nothing is under way in any process of its agent.                  *)
LEMMA EarlyPrompt ==
    ASSUME ManagerInv, Actors, Awaited, Lives, NEW m \in Requests, Active(m), ~Through(m),
           \A p \in Procs : m \notin pending[p]
    PROVE  /\ prompt[m].agent \in Agents /\ op[prompt[m].agent] = NoOp
           /\ \A p \in Procs : owner[p] = prompt[m].agent => ~Live(p)
           /\ \A n \in Requests : n # m /\ prompt[n].agent = prompt[m].agent =>
                                      prompt[n].pc \in {"done", "failed"}
           /\ prompt[m].pc # "await" => flight[prompt[m].agent] = NoFlight
<1>1. prompt[m].agent \in Agents
  BY InvTypes DEF OwnCallers, Active
<1>2. op[prompt[m].agent] = NoOp
  BY DEF Actors
<1>3. \A p \in Procs : owner[p] = prompt[m].agent => ~Live(p)
  BY DEF Lives, LifeOf
<1>4. \A n \in Requests : n # m /\ prompt[n].agent = prompt[m].agent =>
                              prompt[n].pc \in {"done", "failed"}
  BY <1>1, NoneAssumption DEF Actors, Active
<1>5. prompt[m].pc # "await" => flight[prompt[m].agent] = NoFlight
  BY <1>1, <1>2, <1>4 DEF Actors, NoOp
<1> QED
  BY <1>1, <1>2, <1>3, <1>4, <1>5

(* ... in the phases before "sent" and in the one that releases.           *)
LEMMA PromptAlone ==
    ASSUME ManagerInv, Actors, Awaited, Lives, NEW m \in Requests, Active(m), prompt[m].pc # "sent"
    PROVE  /\ prompt[m].agent \in Agents /\ op[prompt[m].agent] = NoOp
           /\ \A p \in Procs : owner[p] = prompt[m].agent => ~Live(p)
           /\ \A n \in Requests : n # m /\ prompt[n].agent = prompt[m].agent =>
                                      prompt[n].pc \in {"done", "failed"}
           /\ prompt[m].pc # "await" => flight[prompt[m].agent] = NoFlight
           /\ ~Through(m) /\ \A p \in Procs : m \notin pending[p]
<1>1. ~Through(m) /\ \A p \in Procs : m \notin pending[p]
  BY DEF Through, Active, Awaited
<1> QED
  BY <1>1, EarlyPrompt

(* While an operation works, no prompt does and nothing is under way.      *)
LEMMA OpAlone ==
    ASSUME ManagerInv, Actors, Lives, NEW a \in Agents, op[a] # NoOp
    PROVE  /\ \A p \in Procs : owner[p] = a => ~Live(p)
           /\ \A m \in Requests : prompt[m].agent = a => prompt[m].pc \in {"done", "failed"}
           /\ op[a].pc # "await" => flight[a] = NoFlight
<1>1. \A m \in Requests : prompt[m].agent = a => prompt[m].pc \in {"done", "failed"}
  BY NoneAssumption DEF Actors, Active
<1> QED
  BY <1>1 DEF Actors, Lives, LifeOf

(* While a start is in flight nothing is under way.                        *)
LEMMA FlightAlone ==
    ASSUME Lives, NEW a \in Agents, flight[a] # NoFlight
    PROVE  \A p \in Procs : owner[p] = a => ~Live(p)
BY DEF Lives, LifeOf

(* When an agent is quiet nothing is under way.                            *)
LEMMA QuietAlone ==
    ASSUME ManagerInv, Awaited, NEW a \in Agents, Quiet(a)
    PROVE  /\ \A p \in Procs : owner[p] = a => ~Live(p)
           /\ \A m \in Requests : prompt[m].agent = a => prompt[m].pc \in {"done", "failed"}
           /\ op[a] = NoOp /\ flight[a] = NoFlight
           /\ a \in Writers => SlotIdle(Beat(a)) /\ SlotIdle(Free(a))
           /\ \A p \in Procs : owner[p] = a => stdin[p] = <<>>
<1>1. \A m \in Requests : prompt[m].agent = a => prompt[m].pc \in {"done", "failed"}
  BY DEF Quiet, PromptsReturned
<1>2. \A p \in Procs : owner[p] = a => pending[p] = {}
  <2> SUFFICES ASSUME NEW p \in Procs, owner[p] = a, NEW r \in pending[p] PROVE FALSE
    OBVIOUS
  <2>1. r \in Requests
    BY InvTypes DEF RpcInv, RpcTypeOK
  <2> QED
    BY <1>1, <2>1 DEF Awaited
<1> QED
  BY <1>1, <1>2 DEF Quiet, Live

(* The prompt of a step goes on: what it leaves of the others.             *)
LEMMA SetPromptEffect ==
    ASSUME OwnTypes, NEW m \in Requests, NEW pc, SetPrompt(m, pc)
    PROVE  /\ prompt'[m].agent = prompt[m].agent /\ prompt'[m].proc = prompt[m].proc
           /\ prompt'[m].pc = pc
           /\ \A n \in Requests : n # m => prompt'[n] = prompt[n]
BY DEF OwnTypes, PromptStates, SetPrompt

(* The start settles: who awaited it goes on, the others stay.             *)
LEMMA FlightEndsEffect ==
    ASSUME OwnTypes, NEW a \in Agents, NEW pc, NEW p, FlightEnds(a, pc, p)
    PROVE  /\ flight'[a] = NoFlight /\ \A b \in Agents : b # a => flight'[b] = flight[b]
           /\ \A m \in Requests :
                 /\ prompt'[m].agent = prompt[m].agent
                 /\ \/ prompt'[m] = prompt[m] /\ ~(prompt[m].agent = a /\ prompt[m].pc = "await")
                    \/ /\ prompt[m].agent = a /\ prompt[m].pc = "await"
                       /\ prompt'[m].pc = pc /\ prompt'[m].proc = p
           /\ \A b \in Agents : b # a => op'[b] = op[b]
           /\ \/ op'[a] = op[a] /\ op[a].pc # "await"
              \/ op[a].pc = "await" /\ op'[a].pc = pc /\ op'[a].proc = p
           /\ \A i \in Recoveries : recovery[i].pc # "await" => recovery'[i] = recovery[i]
<1>0. /\ flight \in [Agents -> FlightStates] /\ prompt \in [Requests -> PromptStates]
      /\ op \in [Agents -> OpStates] /\ recovery \in [Recoveries -> RecoveryStates]
  BY DEF OwnTypes
<1>1. flight'[a] = NoFlight /\ \A b \in Agents : b # a => flight'[b] = flight[b]
  BY <1>0 DEF FlightEnds
<1>2. ASSUME NEW m \in Requests
      PROVE  /\ prompt'[m].agent = prompt[m].agent
             /\ \/ prompt'[m] = prompt[m] /\ ~(prompt[m].agent = a /\ prompt[m].pc = "await")
                \/ /\ prompt[m].agent = a /\ prompt[m].pc = "await"
                   /\ prompt'[m].pc = pc /\ prompt'[m].proc = p
  <2>1. prompt'[m] = IF prompt[m].agent = a /\ prompt[m].pc = "await"
                     THEN [prompt[m] EXCEPT !.pc = pc, !.proc = p] ELSE prompt[m]
    BY <1>2 DEF FlightEnds
  <2>2. prompt[m] \in PromptStates
    BY <1>0, <1>2
  <2>3. /\ [prompt[m] EXCEPT !.pc = pc, !.proc = p].agent = prompt[m].agent
        /\ [prompt[m] EXCEPT !.pc = pc, !.proc = p].pc = pc
        /\ [prompt[m] EXCEPT !.pc = pc, !.proc = p].proc = p
    BY <2>2 DEF PromptStates
  <2> QED
    BY <2>1, <2>3
<1>3. \A b \in Agents : b # a => op'[b] = op[b]
  BY <1>0 DEF FlightEnds
<1>4. \/ op'[a] = op[a] /\ op[a].pc # "await"
      \/ op[a].pc = "await" /\ op'[a].pc = pc /\ op'[a].proc = p
  <2>1. op'[a] = IF op[a].pc = "await" THEN [op[a] EXCEPT !.pc = pc, !.proc = p] ELSE op[a]
    BY <1>0 DEF FlightEnds
  <2>2. op[a] \in OpStates
    BY <1>0
  <2>3. /\ [op[a] EXCEPT !.pc = pc, !.proc = p].pc = pc
        /\ [op[a] EXCEPT !.pc = pc, !.proc = p].proc = p
    BY <2>2 DEF OpStates
  <2> QED
    BY <2>1, <2>3
<1>5. \A i \in Recoveries : recovery[i].pc # "await" => recovery'[i] = recovery[i]
  BY <1>0 DEF FlightEnds
<1> QED
  BY <1>1, <1>2, <1>3, <1>4, <1>5

(* The steps that change a prompt, and an operation.                       *)
LEMMA PromptSteps ==
    Next => \/ prompt' = prompt
            \/ \E m \in Requests : PromptStep(m)
            \/ \E a \in Agents : Flights(a)
BY ManagerSteps
   DEF LeaseWorks, VoidReturns, ChildStep, PiWorks, PiFaults, Events, OnTurnStart, OnUiRequest,
       OnSettled, OnExit, OnLine, EventUnchanged, RecoveryWakes, RecoveryEnds, RecoveryUnchanged,
       OpStep, Activate, OpStarts, OpBegins, Operations, OpStopped, OpReleased, OpEnsures, OpEnds,
       ActivateLooks, ActivateEnds, OpUnchanged, UserStep, RespondToExtensionUi, Abort,
       UserUnchanged, managerVars

LEMMA OpSteps ==
    Next => \/ op' = op
            \/ \E a \in Agents : Flights(a) \/ OpStep(a)
BY ManagerSteps
   DEF LeaseWorks, VoidReturns, PromptStep, Prompting, PromptStarts, PromptLeased, PromptEnsures,
       PromptMarks, PromptSends, PromptReturns, PromptCatches, PromptReleased, PromptUnchanged,
       ChildStep, PiWorks, PiFaults, Events, OnTurnStart, OnUiRequest, OnSettled, OnExit, OnLine,
       EventUnchanged, RecoveryWakes, RecoveryEnds, RecoveryUnchanged, UserStep,
       RespondToExtensionUi, Abort, UserUnchanged, managerVars

(* A step of one prompt leaves the others.                                 *)
LEMMA OthersStay ==
    ASSUME OwnTypes, NEW n \in Requests, PromptStep(n)
    PROVE  \A m \in Requests : m # n => prompt'[m] = prompt[m]
<1>1. ASSUME NEW pc, SetPrompt(n, pc) PROVE \A m \in Requests : m # n => prompt'[m] = prompt[m]
  BY <1>1, SetPromptEffect
<1>2. CASE PromptEnsures(n) \/ \E a \in Agents : PromptStarts(n, a)
  BY <1>1, <1>2 DEF PromptEnsures, PromptStarts, OwnTypes, PromptStates
<1>3. CASE PromptCatches(n)
  <2>1. \E pc : SetPrompt(n, pc)
    BY <1>3 DEF PromptCatches
  <2> QED
    BY <1>1, <2>1
<1> QED
  BY <1>1, <1>2, <1>3
     DEF PromptStep, Prompting, PromptLeased, PromptMarks, PromptSends, PromptReturns, PromptReleased

(* A prompt is for the agent it was begun for.                             *)
LEMMA AgentStays ==
    ASSUME OwnTypes, Next, NEW m \in Requests, prompt'[m].agent # prompt[m].agent
    PROVE  \E a \in Agents : PromptStarts(m, a)
<1>1. ASSUME NEW n \in Requests, NEW pc, SetPrompt(n, pc) PROVE FALSE
  BY <1>1, SetPromptEffect
<1>2. ASSUME NEW n \in Requests, PromptEnsures(n) PROVE FALSE
  <2>1. CASE \E pc : SetPrompt(n, pc)
    BY <1>1, <2>1
  <2>2. CASE \E p : prompt' = [prompt EXCEPT ![n].pc = "up", ![n].proc = p]
    BY <2>2 DEF OwnTypes, PromptStates
  <2> QED
    BY <1>2, <2>1, <2>2 DEF PromptEnsures
<1>3. ASSUME NEW n \in Requests, NEW a \in Agents, PromptStarts(n, a) PROVE n = m
  BY <1>3 DEF PromptStarts, OwnTypes
<1>4. ASSUME NEW n \in Requests, PromptCatches(n) PROVE FALSE
  <2>1. \E pc : SetPrompt(n, pc)
    BY <1>4 DEF PromptCatches
  <2> QED
    BY <1>1, <2>1
<1>5. ASSUME NEW n \in Requests, PromptStep(n) PROVE \E a \in Agents : PromptStarts(m, a)
  BY <1>1, <1>2, <1>3, <1>4, <1>5
     DEF PromptStep, Prompting, PromptLeased, PromptMarks, PromptSends, PromptReturns, PromptReleased
<1>6. ASSUME NEW a \in Agents, Flights(a) PROVE FALSE
  BY <1>6, FlightEndsEffect
     DEF Flights, FlightSpawns, HandshakeDone, HistoryDone, FlightFails, FlightStopped
<1> QED
  BY <1>5, <1>6, PromptSteps

-----------------------------------------------------------------------------
(* One thing at a time.                                                    *)

(* A prompt at work goes on, and leaves "await" only with its start.       *)
LEMMA ActorsOfPrompt ==
    ASSUME ManagerInv, Actors, NEW m \in Requests, Active(m), prompt[m].pc # "await",
           NEW pc, pc # "new", prompt'[m].agent = prompt[m].agent, prompt'[m].pc = pc,
           \A n \in Requests : n # m => prompt'[n] = prompt[n],
           UNCHANGED <<op, recovery>>,
           \A a \in Agents : flight'[a] # NoFlight =>
               flight[a] # NoFlight \/ (a = prompt[m].agent /\ pc = "await")
    PROVE  Actors'
<1>1. \A n \in Requests : /\ prompt'[n].agent = prompt[n].agent
                          /\ prompt'[n].pc = "new" <=> prompt[n].pc = "new"
                          /\ Active(n)' => Active(n)
                          /\ prompt[n].pc = "await" => prompt'[n].pc = "await"
  BY DEF Active
<1>2. \A a \in Agents : flight'[a] # NoFlight =>
          \/ op'[a].pc = "await"
          \/ \E n \in Requests : prompt'[n].agent = a /\ prompt'[n].pc = "await"
  BY <1>1 DEF Actors
<1> QED
  BY <1>1, <1>2 DEF Actors

(* An operation at work goes on.                                           *)
LEMMA ActorsOfOp ==
    ASSUME ManagerInv, Actors, NEW a \in Agents, op[a] # NoOp, op[a].pc # "await" \/ op'[a].pc = "await",
           \A b \in Agents : b # a => op'[b] = op[b],
           UNCHANGED <<prompt, recovery>>,
           \A b \in Agents : flight'[b] # NoFlight =>
               flight[b] # NoFlight \/ (b = a /\ op'[a].pc = "await")
    PROVE  Actors'
<1>1. \A m \in Requests : Active(m) => prompt[m].agent # a
  BY DEF Actors
<1>2. \A m \in Requests : Active(m)' <=> Active(m)
  BY DEF Active
<1>3. \A m \in Requests : Active(m)' => op'[prompt'[m].agent] = NoOp
  <2> SUFFICES ASSUME NEW m \in Requests, Active(m) PROVE op'[prompt[m].agent] = NoOp
    BY <1>2
  <2>1. op[prompt[m].agent] = NoOp /\ prompt[m].agent # a /\ prompt[m].agent \in Agents
    BY <1>1, InvTypes DEF Actors, OwnCallers, Active
  <2> QED
    BY <2>1
<1>4. \A b \in Agents : flight'[b] # NoFlight =>
          \/ op'[b].pc = "await"
          \/ \E n \in Requests : prompt'[n].agent = b /\ prompt'[n].pc = "await"
  BY DEF Actors
<1> QED
  BY <1>2, <1>3, <1>4 DEF Actors, Active

LEMMA ActorsKept ==
    ASSUME UserWaits, CoverInv, Next
    PROVE  Actors'
<1>0. /\ ManagerInv /\ Actors /\ Hold /\ Awaited /\ Lives /\ OwnTypes /\ OwnCallers
      /\ None \notin Agents
  BY InvTypes, NoneAssumption DEF CoverInv
<1>1. UNCHANGED <<prompt, op, recovery, flight>> => Actors'
  BY <1>0 DEF Actors, Active
<1>2. ASSUME NEW c \in Calls, LeaseWorks(c) \/ VoidReturns(c) PROVE Actors'
  BY <1>1, <1>2 DEF LeaseWorks, VoidReturns, managerVars
<1>3. ASSUME NEW m \in Requests, Prompting(m) PROVE Actors'
  <2>0. Active(m) /\ prompt[m].pc # "await"
    BY <1>3 DEF Active, Prompting, PromptLeased, PromptEnsures, PromptMarks, PromptSends, PromptReturns,
                PromptCatches, PromptReleased
  <2>1. UNCHANGED <<op, recovery>>
    BY <1>3 DEF Prompting, PromptLeased, PromptEnsures, PromptMarks, PromptSends, PromptReturns,
                PromptCatches, PromptReleased, PromptUnchanged
  <2>2. ASSUME NEW pc, pc # "new", SetPrompt(m, pc), flight' = flight PROVE Actors'
    BY <1>0, <2>0, <2>1, <2>2, SetPromptEffect, ActorsOfPrompt
  <2>3. CASE PromptEnsures(m)
    <3>1. CASE /\ prompt' = [prompt EXCEPT ![m].pc = "up", ![m].proc = processes[prompt[m].agent]]
               /\ flight' = flight
      <4>1. /\ prompt'[m].agent = prompt[m].agent /\ prompt'[m].pc = "up"
            /\ \A n \in Requests : n # m => prompt'[n] = prompt[n]
        BY <1>0, <3>1 DEF OwnTypes, PromptStates
      <4> QED
        BY <1>0, <2>0, <2>1, <3>1, <4>1, ActorsOfPrompt
    <3>2. CASE JoinFlight(prompt[m].agent) /\ SetPrompt(m, "await")
      <4>1. \A a \in Agents : flight'[a] # NoFlight => flight[a] # NoFlight \/ a = prompt[m].agent
        BY <1>0, <3>2 DEF JoinFlight, OwnTypes
      <4>2. /\ prompt'[m].agent = prompt[m].agent /\ prompt'[m].pc = "await"
            /\ \A n \in Requests : n # m => prompt'[n] = prompt[n]
        BY <1>0, <3>2, SetPromptEffect
      <4> QED
        BY <1>0, <2>0, <2>1, <4>1, <4>2, ActorsOfPrompt
    <3> QED
      BY <2>3, <3>1, <3>2 DEF PromptEnsures
  <2>4. CASE PromptCatches(m)
    BY <2>2, <2>4 DEF PromptCatches
  <2> QED
    BY <1>3, <2>2, <2>3, <2>4
       DEF Prompting, PromptLeased, PromptMarks, PromptSends, PromptReturns, PromptReleased
<1>4. ASSUME NEW m \in Requests, NEW a \in Agents, PromptStarts(m, a) PROVE Actors'
  <2>1. Quiet(a) /\ prompt[m].pc = "new"
    BY <1>4 DEF PromptStarts, UserWaits
  <2>2. /\ op[a] = NoOp
        /\ \A n \in Requests : prompt[n].agent = a => prompt[n].pc \in {"done", "failed"}
    BY <1>0, <2>1, QuietAlone
  <2>3. /\ prompt'[m].agent = a /\ prompt'[m].pc \in {"lease", "ensure"}
        /\ \A n \in Requests : n # m => prompt'[n] = prompt[n]
        /\ UNCHANGED <<op, recovery, flight>>
    BY <1>0, <1>4 DEF PromptStarts, PromptUnchanged, OwnTypes, PromptStates
  <2> QED
    BY <1>0, <2>1, <2>2, <2>3 DEF Actors, Active
<1>5. ASSUME NEW p \in Procs, ChildStep(p) PROVE Actors'
  BY <1>1, <1>5 DEF ChildStep, PiWorks, PiFaults, managerVars
<1>6. ASSUME NEW p \in Procs, Events(p) PROVE Actors'
  <2>1. recovery' = recovery
    <3>1. CASE OnExit(p)
      <4>1. handle[p] = "stopping"
        BY <1>0, <3>1 DEF OnExit, ExitSeen, Writable, Hold
      <4> QED
        BY <3>1, <4>1 DEF OnExit
    <3> QED
      BY <1>6, <3>1 DEF Events, OnTurnStart, OnUiRequest, OnSettled, OnLine, managerVars
  <2> QED
    BY <1>1, <1>6, <2>1
       DEF Events, OnTurnStart, OnUiRequest, OnSettled, OnExit, OnLine, EventUnchanged, managerVars
<1>7. ASSUME NEW i \in Recoveries, RecoveryWakes(i) \/ RecoveryEnds(i) PROVE Actors'
  BY <1>0, <1>7 DEF RecoveryWakes, RecoveryEnds, Actors, NoRecovery
<1>8. ASSUME NEW a \in Agents, Flights(a) PROVE Actors'
  <2>0. flight[a] # NoFlight
    BY <1>8 DEF Flights, FlightSpawns, HandshakeDone, HistoryDone, FlightFails, FlightStopped, NoFlight
  <2>1. ASSUME UNCHANGED <<prompt, op, recovery>>,
               \A b \in Agents : b # a => flight'[b] = flight[b]
        PROVE  Actors'
    BY <1>0, <2>0, <2>1 DEF Actors, Active
  <2>2. ASSUME NEW pc \in {"up", "down"}, NEW p, FlightEnds(a, pc, p) PROVE Actors'
    <3>1. \A m \in Requests : /\ prompt'[m].agent = prompt[m].agent
                              /\ prompt'[m].pc = "new" <=> prompt[m].pc = "new"
                              /\ Active(m)' <=> Active(m)
                              /\ prompt[m].agent # a => prompt'[m] = prompt[m]
      BY <1>0, <2>2, FlightEndsEffect DEF Active
    <3>2. /\ \A b \in Agents : b # a => op'[b] = op[b] /\ flight'[b] = flight[b]
          /\ op[a] = NoOp => op'[a] = NoOp
          /\ flight'[a] = NoFlight
      BY <1>0, <2>2, FlightEndsEffect DEF NoOp
    <3>3. \A i \in Recoveries : recovery'[i] = NoRecovery
      BY <1>0, <2>2, FlightEndsEffect DEF Actors, NoRecovery
    <3>4. \A m \in Requests : Active(m)' => op'[prompt'[m].agent] = NoOp
      <4> SUFFICES ASSUME NEW m \in Requests, Active(m) PROVE op'[prompt[m].agent] = NoOp
        BY <3>1
      <4>1. op[prompt[m].agent] = NoOp /\ prompt[m].agent \in Agents
        BY <1>0 DEF Actors, OwnCallers, Active
      <4> QED
        BY <3>2, <4>1
    <3> QED
      BY <1>0, <3>1, <3>2, <3>3, <3>4 DEF Actors
  <2>3. CASE FlightSpawns(a)
    BY <1>0, <2>1, <2>3 DEF FlightSpawns, OwnTypes
  <2>4. CASE HandshakeDone(a)
    BY <1>0, <2>1, <2>4 DEF HandshakeDone, OwnTypes
  <2>5. CASE FlightFails(a)
    BY <1>0, <2>1, <2>5 DEF FlightFails, OwnTypes
  <2>6. CASE FlightStopped(a)
    BY <1>0, <2>1, <2>2, <2>6 DEF FlightStopped, OwnTypes
  <2>7. CASE HistoryDone(a)
    BY <2>2, <2>7 DEF HistoryDone
  <2> QED
    BY <1>8, <2>3, <2>4, <2>5, <2>6, <2>7 DEF Flights
<1>9. ASSUME NEW a \in Agents, OpStep(a) PROVE Actors'
  <2>1. ASSUME NEW kind, NEW pc, OpBegins(a, kind, pc) PROVE Actors'
    <3>1. Quiet(a)
      BY <2>1 DEF OpBegins, UserWaits
    <3>2. \A n \in Requests : prompt[n].agent = a => prompt[n].pc \in {"done", "failed"}
      BY <1>0, <3>1, QuietAlone
    <3>3. /\ \A b \in Agents : b # a => op'[b] = op[b]
          /\ op[a] = NoOp
          /\ UNCHANGED <<prompt, recovery, flight>>
      BY <1>0, <2>1 DEF OpBegins, OpUnchanged, OwnTypes
    <3>4. \A m \in Requests : Active(m)' => op'[prompt'[m].agent] = NoOp
      <4> SUFFICES ASSUME NEW m \in Requests, Active(m) PROVE op'[prompt[m].agent] = NoOp
        BY <3>3 DEF Active
      <4>1. op[prompt[m].agent] = NoOp /\ prompt[m].agent \in Agents /\ prompt[m].agent # a
        BY <1>0, <3>2 DEF Actors, OwnCallers, Active
      <4> QED
        BY <3>3, <4>1
    <3> QED
      BY <1>0, <3>3, <3>4 DEF Actors, Active, NoOp
  <2>2. ASSUME op[a] # NoOp, op[a].pc # "await", flight' = flight,
               \A b \in Agents : b # a => op'[b] = op[b], UNCHANGED <<prompt, recovery>>
        PROVE  Actors'
    BY <1>0, <2>2, ActorsOfOp
  <2>3. CASE OpEnsures(a)
    <3>1. /\ op[a] # NoOp /\ op[a].pc = "ensure" /\ UNCHANGED <<prompt, recovery>>
          /\ \A b \in Agents : b # a => op'[b] = op[b]
      BY <1>0, <2>3 DEF OpEnsures, OpUnchanged, NoOp, OwnTypes
    <3>2. CASE flight' = flight
      BY <2>2, <3>1, <3>2
    <3>3. CASE JoinFlight(a) /\ op' = [op EXCEPT ![a].pc = "await"]
      <4>1. \A b \in Agents : flight'[b] # NoFlight => flight[b] # NoFlight \/ b = a
        BY <1>0, <3>3 DEF JoinFlight, OwnTypes
      <4>2. op'[a].pc = "await"
        BY <1>0, <3>3 DEF OwnTypes, OpStates
      <4> QED
        BY <1>0, <3>1, <4>1, <4>2, ActorsOfOp
    <3> QED
      BY <2>3, <3>2, <3>3 DEF OpEnsures
  <2>4. CASE OpStopped(a) \/ OpReleased(a)
    BY <1>0, <2>2, <2>4 DEF OpStopped, OpReleased, OpUnchanged, NoOp, OwnTypes
  <2>5. CASE OpEnds(a) \/ ActivateLooks(a) \/ ActivateEnds(a)
    BY <1>0, <2>2, <2>5 DEF OpEnds, ActivateLooks, ActivateEnds, OpSets, OpUnchanged, NoOp, OwnTypes
  <2> QED
    BY <1>9, <2>1, <2>3, <2>4, <2>5 DEF OpStep, Operations, Activate, OpStarts
<1>10. ASSUME NEW a \in Agents, UserStep(a) PROVE Actors'
  BY <1>1, <1>10 DEF UserStep, RespondToExtensionUi, Abort, UserUnchanged
<1> QED
  BY <1>2, <1>3, <1>4, <1>5, <1>6, <1>7, <1>8, <1>9, <1>10, ManagerSteps DEF PromptStep

-----------------------------------------------------------------------------
(* Open children live, and the process of a prompt at work stays open.     *)

LEMMA HoldKept ==
    ASSUME UserWaits, CoverInv, Next
    PROVE  Hold'
<1>0. /\ ManagerInv /\ Actors /\ Hold /\ Awaited /\ Lives /\ OwnTypes /\ OwnCallers /\ Children
      /\ None \notin Agents /\ None \notin Procs
      /\ handle \in [Procs -> Handles] /\ alive \subseteq Procs
      /\ processes \in [Agents -> Procs \cup {None}] /\ flight \in [Agents -> FlightStates]
  BY InvTypes, NoneAssumption, ManagerAssumption DEF CoverInv, RpcInv, RpcTypeOK, OwnTypes
<1>1. UNCHANGED <<handle, alive, flight, prompt, processes>> => Hold'
  BY <1>0 DEF Hold
<1>2. ASSUME NEW c \in Calls, LeaseWorks(c) \/ VoidReturns(c) PROVE Hold'
  BY <1>1, <1>2 DEF LeaseWorks, VoidReturns, managerVars, rpcVars
<1>3. ASSUME NEW a \in Agents, JoinFlight(a), UNCHANGED <<handle, alive>>,
             \A m \in Requests : prompt'[m].pc \in {"up", "send"} =>
                 prompt'[m] = prompt[m] /\ prompt[m].agent # a
      PROVE  Hold'
  <2>1. /\ \A b \in Agents : flight'[b] = flight[b] \/ flight'[b].pc = "config"
        /\ \A b \in Agents : b # a => processes'[b] = processes[b]
    BY <1>0, <1>3 DEF JoinFlight, NoFlight
  <2>2. \A m \in Requests : prompt'[m].pc \in {"up", "send"} =>
            /\ processes'[prompt'[m].agent] = prompt'[m].proc
            /\ handle'[prompt'[m].proc] = "open"
    BY <1>0, <1>3, <2>1 DEF Hold, OwnCallers
  <2> QED
    BY <1>0, <1>3, <2>1, <2>2 DEF Hold
<1>4. ASSUME NEW m \in Requests, Prompting(m) PROVE Hold'
  <2>1. ASSUME NEW pc, SetPrompt(m, pc), UNCHANGED <<handle, alive, flight, processes>>,
               pc \in {"up", "send"} => prompt[m].pc = "up"
        PROVE  Hold'
    BY <1>0, <2>1, SetPromptEffect DEF Hold
  <2>2. CASE PromptEnsures(m)
    <3> DEFINE a == prompt[m].agent
    <3>0. /\ a \in Agents /\ UNCHANGED <<handle, alive>>
          /\ \A n \in Requests : n # m /\ prompt[n].agent = a => prompt[n].pc \in {"done", "failed"}
      BY <1>0, <2>2, PromptAlone DEF PromptEnsures, Active, rpcVars
    <3>1. CASE /\ HasProcess(a) /\ UNCHANGED <<processes, flight>>
               /\ prompt' = [prompt EXCEPT ![m].pc = "up", ![m].proc = processes[a]]
      <4>1. /\ prompt'[m].agent = a /\ prompt'[m].proc = processes[a]
            /\ \A n \in Requests : n # m => prompt'[n] = prompt[n]
        BY <1>0, <3>1 DEF OwnTypes, PromptStates
      <4>2. handle[processes[a]] = "open"
        BY <3>1 DEF HasProcess, IsRunning
      <4>3. \A n \in Requests : prompt'[n].pc \in {"up", "send"} =>
                processes'[prompt'[n].agent] = prompt'[n].proc /\ handle'[prompt'[n].proc] = "open"
        <5> SUFFICES ASSUME NEW n \in Requests, prompt'[n].pc \in {"up", "send"}
                     PROVE  /\ processes[prompt'[n].agent] = prompt'[n].proc
                            /\ handle[prompt'[n].proc] = "open"
          BY <3>0, <3>1
        <5>1. CASE n = m
          BY <4>1, <4>2, <5>1
        <5>2. CASE n # m
          BY <1>0, <4>1, <5>2 DEF Hold
        <5> QED
          BY <5>1, <5>2
      <4> QED
        BY <1>0, <3>0, <3>1, <4>3 DEF Hold
    <3>2. CASE JoinFlight(a) /\ SetPrompt(m, "await")
      <4>1. \A n \in Requests : prompt'[n].pc \in {"up", "send"} =>
                prompt'[n] = prompt[n] /\ prompt[n].agent # a
        BY <1>0, <3>0, <3>2, SetPromptEffect
      <4> QED
        BY <1>3, <3>0, <3>2, <4>1
    <3> QED
      BY <2>2, <3>1, <3>2 DEF PromptEnsures
  <2>3. CASE PromptCatches(m)
    BY <2>1, <2>3 DEF PromptCatches, rpcVars
  <2>4. CASE PromptSends(m)
    BY <2>1, <2>4 DEF PromptSends, Send, SendFails
  <2> QED
    BY <1>4, <2>1, <2>2, <2>3, <2>4
       DEF Prompting, PromptLeased, PromptMarks, PromptReturns, PromptReleased, rpcVars
<1>5. ASSUME NEW m \in Requests, NEW a \in Agents, PromptStarts(m, a) PROVE Hold'
  <2>1. /\ prompt'[m].pc \in {"lease", "ensure"}
        /\ \A n \in Requests : n # m => prompt'[n] = prompt[n]
        /\ UNCHANGED <<handle, alive, flight, processes>>
    BY <1>0, <1>5 DEF PromptStarts, PromptUnchanged, OwnTypes, PromptStates, rpcVars
  <2> QED
    BY <1>0, <2>1 DEF Hold
<1>6. ASSUME UNCHANGED <<flight, prompt, processes>>,
             \A p \in Procs : handle'[p] = "open" => p \in alive',
             \A p \in Procs : handle[p] = "open" => handle'[p] = "open"
      PROVE  Hold'
  BY <1>0, <1>6 DEF Hold, Children, Started, OwnCallers
<1>7. ASSUME NEW p \in Procs, ChildStep(p) PROVE Hold'
  <2>0. UNCHANGED <<flight, prompt, processes>>
    BY <1>7 DEF ChildStep, PiWorks, PiFaults, managerVars
  <2>1. CASE Kill(p)
    BY <1>0, <1>6, <2>0, <2>1 DEF Kill, Hold
  <2>2. CASE PiDies(p) /\ handle[p] = "stopping"
    BY <1>0, <1>6, <2>0, <2>2 DEF PiDies, Hold
  <2>3. ~Fault("die")
    BY DEF Fault, UserWaits
  <2> QED
    BY <1>1, <1>7, <2>0, <2>1, <2>2, <2>3
       DEF ChildStep, PiWorks, PiFaults, PiAccepts, PiTurns, PiAsks, PiGetsAnswer, PiSettles,
           PiAborts, PiRefuses, PiHandles, TimeOut
<1>8. ASSUME NEW p \in Procs, Events(p) PROVE Hold'
  <2>1. CASE OnExit(p)
    <3>1. handle[p] = "stopping"
      BY <1>0, <2>1 DEF OnExit, ExitSeen, Writable, Hold
    <3>2. processes' = processes /\ flight' = flight /\ prompt' = prompt
      BY <2>1, <3>1 DEF OnExit, EventUnchanged
    <3> QED
      BY <1>0, <1>6, <2>1, <3>1, <3>2 DEF OnExit, ExitSeen, Hold
  <2> QED
    BY <1>1, <1>8, <2>1
       DEF Events, OnTurnStart, OnUiRequest, OnSettled, OnLine, OnResponse, TakeEvent,
           EventUnchanged, managerVars
<1>9. ASSUME NEW i \in Recoveries, RecoveryWakes(i) \/ RecoveryEnds(i) PROVE Hold'
  BY <1>0, <1>9 DEF RecoveryWakes, RecoveryEnds, Actors, NoRecovery
<1>10. ASSUME NEW a \in Agents, Flights(a) PROVE Hold'
  <2>0. flight[a] # NoFlight
    BY <1>10 DEF Flights, FlightSpawns, HandshakeDone, HistoryDone, FlightFails, FlightStopped, NoFlight
  <2>1. \A m \in Requests : prompt[m].pc \in {"up", "send"} =>
            /\ prompt[m].agent # a /\ prompt[m].agent \in Agents /\ prompt[m].proc \in Procs
            /\ owner[prompt[m].proc] # a
            /\ processes[prompt[m].agent] = prompt[m].proc /\ handle[prompt[m].proc] = "open"
    <3> SUFFICES ASSUME NEW m \in Requests, prompt[m].pc \in {"up", "send"}
                 PROVE  /\ prompt[m].agent # a /\ prompt[m].agent \in Agents
                        /\ prompt[m].proc \in Procs /\ owner[prompt[m].proc] # a
                        /\ processes[prompt[m].agent] = prompt[m].proc
                        /\ handle[prompt[m].proc] = "open"
      OBVIOUS
    <3>1. prompt[m].agent \in Agents /\ flight[prompt[m].agent] = NoFlight /\ prompt[m].proc \in Procs
      BY <1>0, PromptAlone DEF Active, OwnCallers
    <3>2. processes[prompt[m].agent] = prompt[m].proc /\ handle[prompt[m].proc] = "open"
      BY <1>0 DEF Hold
    <3>3. owner[prompt[m].proc] = prompt[m].agent
      BY <1>0, <3>1, <3>2 DEF Children
    <3> QED
      BY <2>0, <3>1, <3>2, <3>3
  <2>2. ASSUME UNCHANGED <<handle, alive, prompt>>,
               \A b \in Agents : b # a => flight'[b] = flight[b] /\ processes'[b] = processes[b],
               flight'[a].pc \in {"handshake", "history"} => handle[flight'[a].proc] = "open"
        PROVE  Hold'
    BY <1>0, <2>1, <2>2 DEF Hold
  <2>3. CASE FlightSpawns(a)
    <3>1. PICK p \in Procs : /\ handle[p] = "unborn" /\ handle' = [handle EXCEPT ![p] = "open"]
                             /\ alive' = alive \cup {p}
                             /\ flight' = [flight EXCEPT ![a] = [proc |-> p, pc |-> "handshake"]]
      BY <2>3 DEF FlightSpawns, Spawn
    <3>2. UNCHANGED <<prompt, processes>>
      BY <2>3 DEF FlightSpawns
    <3>3. \A q \in Procs : handle'[q] = "open" => q \in alive'
      BY <1>0, <3>1 DEF Hold
    <3>4. \A b \in Agents : flight'[b].pc \in {"handshake", "history"} =>
                                handle'[flight'[b].proc] = "open"
      BY <1>0, <3>1 DEF Hold, Children, Started
    <3>5. \A m \in Requests : prompt'[m].pc \in {"up", "send"} =>
              processes'[prompt'[m].agent] = prompt'[m].proc /\ handle'[prompt'[m].proc] = "open"
      BY <1>0, <2>1, <3>1, <3>2
    <3> QED
      BY <3>3, <3>4, <3>5 DEF Hold
  <2>4. CASE HandshakeDone(a)
    <3>1. /\ flight'[a].proc = flight[a].proc /\ IsRunning(flight[a].proc)
          /\ \A b \in Agents : b # a => flight'[b] = flight[b] /\ processes'[b] = processes[b]
          /\ UNCHANGED <<handle, alive, prompt>>
      BY <1>0, <2>4 DEF HandshakeDone, FlightStates, rpcVars
    <3> QED
      BY <2>2, <3>1 DEF IsRunning
  <2>5. CASE FlightFails(a)
    <3> DEFINE p == flight[a].proc
    <3>1. p \in Procs /\ owner[p] = a
      BY <1>0, <2>5 DEF FlightFails, Children, Started
    <3>2. /\ handle'[p] # "open" /\ \A q \in Procs : q # p => handle'[q] = handle[q]
          /\ UNCHANGED <<alive, prompt>>
      BY <1>0, <2>5, <3>1 DEF FlightFails, Stop, Writable
    <3>3. /\ flight'[a].pc \in {"fallback", "failing"}
          /\ \A b \in Agents : b # a => flight'[b] = flight[b] /\ processes'[b] = processes[b]
      BY <1>0, <2>5 DEF FlightFails, FlightStates
    <3>4. \A b \in Agents : flight'[b].pc \in {"handshake", "history"} =>
                                handle'[flight'[b].proc] = "open"
      BY <1>0, <3>1, <3>2, <3>3 DEF Hold, Children, Started
    <3>5. \A m \in Requests : prompt'[m].pc \in {"up", "send"} =>
              processes'[prompt'[m].agent] = prompt'[m].proc /\ handle'[prompt'[m].proc] = "open"
      BY <2>1, <3>1, <3>2, <3>3
    <3>6. \A q \in Procs : handle'[q] = "open" => q \in alive'
      BY <1>0, <3>2 DEF Hold
    <3> QED
      BY <3>4, <3>5, <3>6 DEF Hold
  <2>6. ASSUME NEW p, NEW pc \in {"up", "down"}, FlightEnds(a, pc, p),
               UNCHANGED <<handle, alive, processes>>,
               pc = "up" => p = processes[a] /\ handle[p] = "open"
        PROVE  Hold'
    <3>1. /\ flight'[a] = NoFlight /\ \A b \in Agents : b # a => flight'[b] = flight[b]
          /\ \A m \in Requests :
                /\ prompt'[m].agent = prompt[m].agent
                /\ \/ prompt'[m] = prompt[m]
                   \/ prompt[m].agent = a /\ prompt'[m].pc = pc /\ prompt'[m].proc = p
      BY <1>0, <2>6, FlightEndsEffect
    <3> QED
      BY <1>0, <2>6, <3>1 DEF Hold, NoFlight
  <2>7. CASE HistoryDone(a)
    <3> DEFINE p == flight[a].proc
    <3>1. FlightEnds(a, "up", p) /\ flight[a].pc = "history" /\ UNCHANGED <<handle, alive, processes>>
      BY <2>7 DEF HistoryDone, rpcVars
    <3>2. handle[p] = "open" /\ p \in Procs /\ owner[p] = a
      BY <1>0, <3>1 DEF Hold, Children, Started
    <3>3. processes[a] = p
      <4> HIDE DEF p
      <4>1. flight[a] # [proc |-> p, pc |-> "handshake"]
        BY <3>1
      <4>2. processes[a] = p \/ flight[a] = [proc |-> p, pc |-> "handshake"]
        BY <1>0, <3>2 DEF Children
      <4> QED
        BY <4>1, <4>2
    <3> QED
      BY <2>6, <3>1, <3>2, <3>3
  <2>8. CASE FlightStopped(a)
    <3>1. UNCHANGED <<handle, alive, processes>>
      BY <2>8 DEF FlightStopped, rpcVars
    <3>2. CASE FlightEnds(a, "down", None)
      BY <2>6, <3>1, <3>2
    <3>3. CASE prompt' = prompt /\ flight' = [flight EXCEPT ![a] = [proc |-> None, pc |-> "config"]]
      BY <1>0, <2>2, <3>1, <3>3
    <3> QED
      BY <2>8, <3>2, <3>3 DEF FlightStopped
  <2> QED
    BY <1>10, <2>3, <2>4, <2>5, <2>7, <2>8 DEF Flights
<1>11. ASSUME NEW a \in Agents, OpStep(a) PROVE Hold'
  <2>1. ASSUME NEW kind, OpStarts(a, kind) PROVE Hold'
    <3>1. Quiet(a)
      BY <2>1 DEF OpStarts, OpBegins, UserWaits
    <3>2. /\ flight[a] = NoFlight
          /\ \A m \in Requests : prompt[m].agent = a => prompt[m].pc \in {"done", "failed"}
      BY <1>0, <3>1, QuietAlone
    <3>3. UNCHANGED <<flight, prompt, alive>> /\ processes' = [processes EXCEPT ![a] = None]
      BY <2>1 DEF OpStarts, OpBegins, OpUnchanged, Stop, WriteAndStop, rpcVars
    <3>4. \A q \in Procs : /\ q # processes[a] => handle'[q] = handle[q]
                           /\ handle'[q] = "open" => handle[q] = "open"
      BY <1>0, <2>1 DEF OpStarts, rpcVars, Stop, WriteAndStop, Writable
    <3>5. \A q \in Procs : handle'[q] = "open" => q \in alive'
      BY <1>0, <3>3, <3>4 DEF Hold
    <3>6. \A b \in Agents : flight'[b].pc \in {"handshake", "history"} =>
                                handle'[flight'[b].proc] = "open"
      <4> SUFFICES ASSUME NEW b \in Agents, flight[b].pc \in {"handshake", "history"}
                   PROVE  handle'[flight[b].proc] = "open"
        BY <3>3
      <4>1. b # a
        BY <3>2 DEF NoFlight
      <4>2. flight[b].proc \in Procs /\ owner[flight[b].proc] = b /\ handle[flight[b].proc] = "open"
        BY <1>0 DEF Hold, Children, Started
      <4>3. flight[b].proc # processes[a]
        BY <1>0, <4>1, <4>2 DEF Children
      <4> QED
        BY <3>4, <4>2, <4>3
    <3>7. \A m \in Requests : prompt'[m].pc \in {"up", "send"} =>
              processes'[prompt'[m].agent] = prompt'[m].proc /\ handle'[prompt'[m].proc] = "open"
      <4> SUFFICES ASSUME NEW m \in Requests, prompt[m].pc \in {"up", "send"}
                   PROVE  /\ processes'[prompt[m].agent] = prompt[m].proc
                          /\ handle'[prompt[m].proc] = "open"
        BY <3>3
      <4>1. /\ prompt[m].agent # a /\ prompt[m].agent \in Agents /\ prompt[m].proc \in Procs
            /\ processes[prompt[m].agent] = prompt[m].proc /\ handle[prompt[m].proc] = "open"
        BY <1>0, <3>2 DEF Hold, OwnCallers
      <4>2. prompt[m].proc # processes[a]
        BY <1>0, <4>1 DEF Children
      <4> QED
        BY <1>0, <3>3, <3>4, <4>1, <4>2
    <3> QED
      BY <3>5, <3>6, <3>7 DEF Hold
  <2>2. CASE OpEnsures(a)
    <3>1. UNCHANGED <<handle, alive, prompt>>
      BY <2>2 DEF OpEnsures, OpUnchanged, rpcVars
    <3>2. CASE UNCHANGED <<processes, flight>>
      BY <1>1, <3>1, <3>2
    <3>3. CASE JoinFlight(a)
      <4>1. op[a] # NoOp
        BY <2>2 DEF OpEnsures, NoOp
      <4>2. \A m \in Requests : prompt[m].agent = a => prompt[m].pc \in {"done", "failed"}
        BY <1>0, <4>1, OpAlone
      <4> QED
        BY <1>3, <3>1, <3>3, <4>2
    <3> QED
      BY <2>2, <3>2, <3>3 DEF OpEnsures
  <2> QED
    BY <1>1, <1>11, <2>1, <2>2
       DEF OpStep, Activate, OpBegins, Operations, OpStopped, OpReleased, OpEnds, ActivateLooks,
           ActivateEnds, OpUnchanged, rpcVars
<1>12. ASSUME NEW a \in Agents, UserStep(a) PROVE Hold'
  BY <1>1, <1>12 DEF UserStep, RespondToExtensionUi, Abort, Write, UserUnchanged, rpcVars
<1> QED
  BY <1>2, <1>4, <1>5, <1>7, <1>8, <1>9, <1>10, <1>11, <1>12, ManagerSteps DEF PromptStep

-----------------------------------------------------------------------------
(* The pipes.                                                              *)

PipeTypes(p) ==
    stdin[p] \in Seq(Commands) /\ stdout[p] \in Seq(Lines) /\ pending[p] \subseteq Requests

(* Nothing of it changes.                                                  *)
LEMMA PipesFrame ==
    ASSUME NEW p, PipesOf(p), stdin'[p] = stdin[p], stdout'[p] = stdout[p],
           pending'[p] = pending[p], p \in running' <=> p \in running
    PROVE  PipesOf(p)'
BY DEF PipesOf, Waits

(* The first command read is no prompt: the rest stays as it is.           *)
LEMMA PipesRead ==
    ASSUME NEW p, PipeTypes(p), PipesOf(p), stdin[p] # <<>>, stdin[p][1].kind # "prompt",
           stdin'[p] = Tail(stdin[p]), stdout'[p] = stdout[p],
           pending'[p] = pending[p], p \in running' <=> p \in running
    PROVE  PipesOf(p)'
<1>1. /\ Len(stdin[p]) \in Nat /\ Len(stdin[p]) > 0 /\ Len(stdin'[p]) = Len(stdin[p]) - 1
      /\ \A i \in 1..Len(stdin'[p]) : stdin'[p][i] = stdin[p][i + 1] /\ i + 1 \in 1..Len(stdin[p])
  BY DEF PipeTypes
<1>2. \A i \in 1..Len(stdin'[p]) : stdin'[p][i].kind = "prompt" =>
          /\ stdout'[p] = <<>> /\ p \notin running' /\ stdin'[p][i].id \in pending'[p]
          /\ \A j \in 1..Len(stdin'[p]) : stdin'[p][j].kind = "prompt" => j = i
  <2> SUFFICES ASSUME NEW i \in 1..Len(stdin'[p]), stdin'[p][i].kind = "prompt"
               PROVE  /\ stdout'[p] = <<>> /\ p \notin running' /\ stdin'[p][i].id \in pending'[p]
                      /\ \A j \in 1..Len(stdin'[p]) : stdin'[p][j].kind = "prompt" => j = i
    OBVIOUS
  <2>1. i + 1 \in 1..Len(stdin[p]) /\ stdin[p][i + 1].kind = "prompt" /\ stdin'[p][i] = stdin[p][i + 1]
    BY <1>1
  <2>2. /\ stdout[p] = <<>> /\ p \notin running /\ stdin[p][i + 1].id \in pending[p]
        /\ \A j \in 1..Len(stdin[p]) : stdin[p][j].kind = "prompt" => j = i + 1
    BY <2>1 DEF PipesOf
  <2>3. \A j \in 1..Len(stdin'[p]) : stdin'[p][j].kind = "prompt" => j + 1 = i + 1
    BY <1>1, <2>2
  <2> QED
    BY <2>1, <2>2, <2>3
<1>3. \A r \in pending'[p] : Waits(p, r)'
  <2> SUFFICES ASSUME NEW r \in pending[p] PROVE Waits(p, r)'
    OBVIOUS
  <2>1. CASE stdout[p] # <<>> /\ stdout[p][1].kind = "response" /\ stdout[p][1].id = r
    BY <2>1 DEF Waits
  <2>2. CASE \E i \in 1..Len(stdin[p]) : stdin[p][i].kind = "prompt" /\ stdin[p][i].id = r
    <3>1. PICK i \in 1..Len(stdin[p]) : stdin[p][i].kind = "prompt" /\ stdin[p][i].id = r
      BY <2>2
    <3>2. i # 1
      BY <3>1
    <3>3. i - 1 \in 1..Len(stdin'[p]) /\ (i - 1) + 1 = i
      BY <1>1, <3>1, <3>2
    <3>4. stdin'[p][i - 1] = stdin[p][i]
      BY <1>1, <3>3
    <3> QED
      BY <3>1, <3>3, <3>4 DEF Waits
  <2> QED
    BY <2>1, <2>2 DEF PipesOf, Waits
<1> QED
  BY <1>2, <1>3 DEF PipesOf

(* No prompt is in stdin while something is printed or runs, or nothing is *)
(* pending.                                                                *)
LEMMA PipesNoPrompt ==
    ASSUME NEW p, PipesOf(p), stdout[p] # <<>> \/ p \in running \/ pending[p] = {}
    PROVE  \A i \in 1..Len(stdin[p]) : stdin[p][i].kind # "prompt"
BY DEF PipesOf

(* A line that is no response is printed behind the others.                *)
LEMMA PipesPrint ==
    ASSUME NEW p, PipeTypes(p), PipesOf(p), p \in running, NEW line, line.kind \in Kinds,
           stdout'[p] = Append(stdout[p], line),
           \A i \in 1..Len(stdin'[p]) : stdin'[p][i].kind # "prompt",
           pending'[p] = pending[p], line.kind = "agent_settled" => p \notin running'
    PROVE  PipesOf(p)'
<1>1. /\ Len(stdout[p]) \in Nat /\ Len(stdout'[p]) = Len(stdout[p]) + 1
      /\ \A i \in 1..Len(stdout[p]) : stdout'[p][i] = stdout[p][i]
      /\ stdout'[p][Len(stdout[p]) + 1] = line
  BY AppendProperties DEF PipeTypes
<1>2. \A i \in 1..Len(stdout[p]) :
          /\ stdout[p][i].kind = "response" =>
                i = 1 /\ stdout[p][i].id \in pending[p] /\ stdout[p][i].ok # FALSE
          /\ stdout[p][i].kind # "agent_settled"
  BY DEF PipesOf
<1>3. \A i \in 1..Len(stdout'[p]) :
          /\ stdout'[p][i].kind = "response" =>
                /\ i = 1 /\ stdout'[p][i].id \in pending'[p]
                /\ stdout'[p][i].ok = FALSE => Len(stdout'[p]) = 1 /\ p \notin running'
          /\ stdout'[p][i].kind = "agent_settled" => i = Len(stdout'[p]) /\ p \notin running'
  <2> SUFFICES ASSUME NEW i \in 1..Len(stdout'[p])
               PROVE  /\ stdout'[p][i].kind = "response" =>
                           /\ i = 1 /\ stdout'[p][i].id \in pending'[p]
                           /\ stdout'[p][i].ok = FALSE => Len(stdout'[p]) = 1 /\ p \notin running'
                      /\ stdout'[p][i].kind = "agent_settled" =>
                            i = Len(stdout'[p]) /\ p \notin running'
    OBVIOUS
  <2>1. CASE i \in 1..Len(stdout[p])
    BY <1>1, <1>2, <2>1
  <2>2. CASE i = Len(stdout[p]) + 1
    BY <1>1, <2>2 DEF Kinds
  <2>3. i \in 1..(Len(stdout[p]) + 1)
    BY <1>1
  <2>4. i \in 1..Len(stdout[p]) \/ i = Len(stdout[p]) + 1
    BY <1>1, <2>3
  <2> QED
    BY <2>1, <2>2, <2>4
<1>4. \A r \in pending'[p] : Waits(p, r)'
  <2> SUFFICES ASSUME NEW r \in pending[p] PROVE Waits(p, r)'
    OBVIOUS
  <2>1. stdout[p] # <<>> /\ stdout[p][1].kind = "response" /\ stdout[p][1].id = r
    BY PipesNoPrompt DEF PipesOf, Waits
  <2>2. 1 \in 1..Len(stdout[p]) /\ stdout'[p] # <<>>
    BY <1>1, <2>1 DEF PipeTypes
  <2> QED
    BY <1>1, <2>1, <2>2 DEF Waits
<1> QED
  BY <1>3, <1>4 DEF PipesOf

(* A prompt is read and responded to.                                      *)
LEMMA PipesRespond ==
    ASSUME NEW p, PipeTypes(p), PipesOf(p), stdin[p] # <<>>, stdin[p][1].kind = "prompt",
           stdin'[p] = Tail(stdin[p]), pending'[p] = pending[p], NEW line,
           line.kind = "response", line.id = stdin[p][1].id, NEW turn, turn.kind = "turn_start",
           \/ stdout'[p] = stdout[p] \o <<line>> /\ p \notin running'
           \/ stdout'[p] = stdout[p] \o <<line, turn>> /\ line.ok = TRUE
    PROVE  PipesOf(p)'
<1>1. /\ Len(stdin[p]) \in Nat /\ Len(stdin[p]) > 0 /\ Len(stdin'[p]) = Len(stdin[p]) - 1
      /\ \A i \in 1..Len(stdin'[p]) : stdin'[p][i] = stdin[p][i + 1] /\ i + 1 \in 1..Len(stdin[p])
  BY DEF PipeTypes
<1>2. 1 \in 1..Len(stdin[p])
  BY <1>1
<1>3. /\ stdout[p] = <<>> /\ stdin[p][1].id \in pending[p]
      /\ \A j \in 1..Len(stdin[p]) : stdin[p][j].kind = "prompt" => j = 1
  BY <1>2 DEF PipesOf
<1>4. \A i \in 1..Len(stdin'[p]) : stdin'[p][i].kind # "prompt"
  BY <1>1, <1>3
<1>5. \A r \in pending[p] : r = line.id
  BY <1>3 DEF PipesOf, Waits
<1>6. /\ stdout'[p] # <<>> /\ stdout'[p][1] = line
      /\ \A i \in 1..Len(stdout'[p]) : i = 1 \/ stdout'[p][i] = turn
      /\ \/ Len(stdout'[p]) = 1 /\ p \notin running'
         \/ line.ok = TRUE
  <2>1. CASE stdout'[p] = stdout[p] \o <<line>> /\ p \notin running'
    <3>1. stdout'[p] = <<line>>
      BY <1>3, <2>1
    <3> QED
      BY <2>1, <3>1
  <2>2. CASE stdout'[p] = stdout[p] \o <<line, turn>> /\ line.ok = TRUE
    <3>1. stdout'[p] = <<line, turn>>
      BY <1>3, <2>2
    <3> QED
      BY <2>2, <3>1
  <2> QED
    BY <2>1, <2>2
<1>7. \A r \in pending'[p] : Waits(p, r)'
  BY <1>5, <1>6 DEF Waits
<1>8. \A i \in 1..Len(stdout'[p]) :
          /\ stdout'[p][i].kind = "response" =>
                /\ i = 1 /\ stdout'[p][i].id \in pending'[p]
                /\ stdout'[p][i].ok = FALSE => Len(stdout'[p]) = 1 /\ p \notin running'
          /\ stdout'[p][i].kind = "agent_settled" => i = Len(stdout'[p]) /\ p \notin running'
  BY <1>3, <1>6
<1> QED
  BY <1>4, <1>7, <1>8 DEF PipesOf

(* The child reads, prints and settles.                                    *)
LEMMA ChildPipes ==
    ASSUME RpcInv, Pipes, NEW p \in Procs,
           \/ PiAccepts(p) \/ PiHandles(p) \/ PiRefuses(p) \/ PiTurns(p) \/ PiAsks(p)
           \/ PiGetsAnswer(p) \/ PiSettles(p) \/ PiAborts(p)
    PROVE  Pipes'
<1>0. /\ stdin \in [Procs -> Seq(Commands)] /\ stdout \in [Procs -> Seq(Lines)]
      /\ PipeTypes(p) /\ PipesOf(p) /\ asking \subseteq running
  BY DEF RpcInv, RpcTypeOK, PipeTypes, Pipes
<1>1. ASSUME NEW q \in Procs, q # p PROVE PipesOf(q)'
  <2>1. /\ stdin'[q] = stdin[q] /\ stdout'[q] = stdout[q] /\ pending'[q] = pending[q]
        /\ q \in running' <=> q \in running
    BY <1>0, <1>1 DEF PiAccepts, PiHandles, PiRefuses, PiTurns, PiAsks, PiGetsAnswer, PiSettles,
                      PiAborts, Consume, Prints
  <2> QED
    BY <1>1, <2>1, PipesFrame DEF Pipes
<1>2. ASSUME PiAccepts(p) \/ PiHandles(p) \/ PiRefuses(p) PROVE PipesOf(p)'
  <2> DEFINE turn == [kind |-> "turn_start"]
             Line(ok) == [kind |-> "response", id |-> stdin[p][1].id, ok |-> ok]
  <2>1. /\ stdin[p] # <<>> /\ stdin[p][1].kind = "prompt"
        /\ stdin'[p] = Tail(stdin[p]) /\ pending'[p] = pending[p]
    BY <1>0, <1>2 DEF PiAccepts, PiHandles, PiRefuses, Command, Consume
  <2>2. 1 \in 1..Len(stdin[p])
    BY <1>0, <2>1 DEF PipeTypes
  <2>3. p \notin running
    BY <1>0, <2>1, <2>2 DEF PipesOf
  <2>4. CASE PiAccepts(p)
    <3>1. stdout'[p] = stdout[p] \o <<Line(TRUE), turn>>
      BY <1>0, <2>3, <2>4 DEF PiAccepts, Prints, Respond
    <3>2. /\ Line(TRUE).kind = "response" /\ Line(TRUE).id = stdin[p][1].id /\ Line(TRUE).ok = TRUE
          /\ turn.kind = "turn_start"
      OBVIOUS
    <3> HIDE DEF Line, turn
    <3> QED
      BY <1>0, <2>1, <3>1, <3>2, PipesRespond
  <2>5. CASE PiHandles(p) \/ PiRefuses(p)
    <3>0. stdout'[p] = stdout[p] \o <<Line(TRUE)>> \/ stdout'[p] = stdout[p] \o <<Line(FALSE)>>
      <4>1. CASE PiHandles(p)
        BY <1>0, <2>1, <4>1 DEF PiHandles, Prints, Respond
      <4>2. CASE PiRefuses(p)
        BY <1>0, <2>1, <4>2 DEF PiRefuses, Prints, Respond
      <4> QED
        BY <2>5, <4>1, <4>2
    <3>1. PICK ok \in BOOLEAN : stdout'[p] = stdout[p] \o <<Line(ok)>>
      <4> HIDE DEF Line
      <4> QED
        BY <3>0
    <3>2. Line(ok).kind = "response" /\ Line(ok).id = stdin[p][1].id /\ turn.kind = "turn_start"
      OBVIOUS
    <3>3. p \notin running'
      BY <2>3, <2>5 DEF PiHandles, PiRefuses
    <3> HIDE DEF Line, turn
    <3> QED
      BY <1>0, <2>1, <3>1, <3>2, <3>3, PipesRespond
  <2> QED
    BY <1>2, <2>4, <2>5
<1>3. ASSUME PiTurns(p) \/ PiAsks(p) \/ PiSettles(p) PROVE PipesOf(p)'
  <2>1. p \in running
    BY <1>3 DEF PiTurns, PiAsks, PiSettles
  <2>2. PICK kind \in Kinds : /\ stdout'[p] = stdout[p] \o <<[kind |-> kind]>>
                              /\ kind = "agent_settled" => p \notin running'
    BY <1>0, <1>3 DEF PiTurns, PiAsks, PiSettles, Prints, Kinds
  <2> DEFINE line == [kind |-> kind]
  <2>3. line.kind = kind
    OBVIOUS
  <2>4. stdout'[p] = Append(stdout[p], line)
    <3>1. line \in Lines
      BY <2>2, LineTypes
    <3> HIDE DEF line
    <3>2. stdout[p] \o <<line>> = Append(stdout[p], line)
      BY <1>0, <3>1 DEF PipeTypes
    <3> QED
      BY <2>2, <3>2 DEF line
  <2>5. stdin'[p] = stdin[p] /\ pending'[p] = pending[p]
    BY <1>3 DEF PiTurns, PiAsks, PiSettles
  <2>6. \A i \in 1..Len(stdin'[p]) : stdin'[p][i].kind # "prompt"
    BY <1>0, <2>1, <2>5, PipesNoPrompt
  <2> HIDE DEF line
  <2> QED
    BY <1>0, <2>1, <2>2, <2>3, <2>4, <2>5, <2>6, PipesPrint
<1>4. ASSUME PiGetsAnswer(p) PROVE PipesOf(p)'
  <2>1. /\ stdin[p] # <<>> /\ stdin[p][1].kind # "prompt" /\ stdin'[p] = Tail(stdin[p])
        /\ stdout'[p] = stdout[p] /\ pending'[p] = pending[p] /\ running' = running
    BY <1>0, <1>4 DEF PiGetsAnswer, Command, Consume
  <2> QED
    BY <1>0, <2>1, PipesRead
<1>5. ASSUME PiAborts(p) PROVE PipesOf(p)'
  <2>1. /\ stdin[p] # <<>> /\ stdin[p][1].kind # "prompt" /\ stdin'[p] = Tail(stdin[p])
        /\ pending'[p] = pending[p] /\ running' = running \ {p}
    BY <1>0, <1>5 DEF PiAborts, Command, Consume
  <2>2. CASE p \notin running
    <3>1. stdout'[p] = stdout[p]
      BY <1>0, <1>5, <2>2 DEF PiAborts, Prints
    <3> QED
      BY <1>0, <2>1, <2>2, <3>1, PipesRead
  <2>3. CASE p \in running
    <3> DEFINE line == [kind |-> "agent_settled"]
    <3>1. line \in Lines /\ line.kind = "agent_settled" /\ line.kind \in Kinds
      BY LineTypes DEF Kinds
    <3>2. stdout'[p] = stdout[p] \o <<line>>
      BY <1>0, <1>5, <2>3 DEF PiAborts, Prints
    <3> HIDE DEF line
    <3>3. stdout'[p] = Append(stdout[p], line)
      BY <1>0, <3>1, <3>2 DEF PipeTypes
    <3>4. \A i \in 1..Len(stdin[p]) : stdin[p][i].kind # "prompt"
      BY <1>0, <2>3, PipesNoPrompt
    <3>5. \A i \in 1..Len(stdin'[p]) : stdin'[p][i].kind # "prompt"
      BY <1>0, <2>1, <3>4 DEF PipeTypes
    <3> QED
      BY <1>0, <2>1, <2>3, <3>1, <3>3, <3>5, PipesPrint
  <2> QED
    BY <2>2, <2>3
<1> QED
  BY <1>1, <1>2, <1>3, <1>4, <1>5 DEF Pipes

(* A line is handled.                                                      *)
LEMMA LinePipes ==
    ASSUME RpcInv, Pipes, NEW p \in Procs, OnResponse(p) \/ \E kind \in Kinds : TakeEvent(p, kind)
    PROVE  /\ Pipes' /\ pending'[p] = {} /\ \A i \in 1..Len(stdin[p]) : stdin[p][i].kind # "prompt"
           /\ \A q \in Procs : q # p => stdout'[q] = stdout[q] /\ pending'[q] = pending[q]
           /\ OnResponse(p) => pending[p] = {stdout[p][1].id}
           /\ ~OnResponse(p) => pending[p] = {} /\ result' = result
<1>0. /\ stdin \in [Procs -> Seq(Commands)] /\ stdout \in [Procs -> Seq(Lines)]
      /\ pending \in [Procs -> SUBSET Requests]
      /\ PipeTypes(p) /\ PipesOf(p)
  BY DEF RpcInv, RpcTypeOK, PipeTypes, Pipes
<1>1. /\ stdout[p] # <<>> /\ Len(stdout[p]) \in Nat /\ Len(stdout[p]) > 0 /\ 1 \in 1..Len(stdout[p])
      /\ UNCHANGED <<stdin, running>>
      /\ \A q \in Procs : q # p => stdout'[q] = stdout[q] /\ pending'[q] = pending[q]
      /\ stdout'[p] = Tail(stdout[p])
  <2>1. /\ stdout[p] # <<>> /\ UNCHANGED <<stdin, running>>
        /\ stdout'[p] = Tail(stdout[p]) /\ \A q \in Procs : q # p => stdout'[q] = stdout[q]
    BY <1>0 DEF OnResponse, TakeEvent, HasLine
  <2>2. \A q \in Procs : q # p => pending'[q] = pending[q]
    BY <1>0 DEF OnResponse, TakeEvent
  <2> QED
    BY <1>0, <2>1, <2>2 DEF PipeTypes
<1>2. \A i \in 1..Len(stdin[p]) : stdin[p][i].kind # "prompt"
  BY <1>0, <1>1, PipesNoPrompt
<1>3. \A r \in pending[p] : stdout[p][1].kind = "response" /\ stdout[p][1].id = r
  BY <1>0, <1>2 DEF PipesOf, Waits
<1>4. OnResponse(p) => pending[p] = {stdout[p][1].id} /\ pending'[p] = {}
  <2> SUFFICES ASSUME OnResponse(p) PROVE pending[p] = {stdout[p][1].id} /\ pending'[p] = {}
    OBVIOUS
  <2>1. stdout[p][1].kind = "response" /\ Head(stdout[p]) = stdout[p][1]
    BY <1>0, <1>1 DEF OnResponse, HasLine, PipeTypes
  <2>2. stdout[p][1].id \in pending[p]
    BY <1>0, <1>1, <2>1 DEF PipesOf
  <2>3. pending'[p] = pending[p] \ {stdout[p][1].id}
    BY <1>0, <2>1, <2>2 DEF OnResponse
  <2> QED
    BY <1>3, <2>2, <2>3
<1>5. ~OnResponse(p) => pending[p] = {} /\ pending'[p] = {} /\ result' = result
  <2> SUFFICES ASSUME NEW kind \in Kinds, TakeEvent(p, kind)
               PROVE  pending[p] = {} /\ pending'[p] = {} /\ result' = result
    OBVIOUS
  <2>1. Head(stdout[p]) = stdout[p][1] /\ stdout[p][1].kind # "response"
    BY <1>0, <1>1 DEF TakeEvent, HasLine, PipeTypes, Kinds
  <2> QED
    BY <1>3, <2>1 DEF TakeEvent
<1>6. PipesOf(p)'
  <2>1. \A i \in 1..Len(stdout'[p]) : stdout'[p][i] = stdout[p][i + 1] /\ i + 1 \in 1..Len(stdout[p])
    BY <1>0, <1>1 DEF PipeTypes
  <2>2. Len(stdout'[p]) = Len(stdout[p]) - 1
    BY <1>0, <1>1 DEF PipeTypes
  <2>3. \A i \in 1..Len(stdout'[p]) :
            /\ stdout'[p][i].kind # "response"
            /\ stdout'[p][i].kind = "agent_settled" => i = Len(stdout'[p]) /\ p \notin running'
    <3> SUFFICES ASSUME NEW i \in 1..Len(stdout'[p])
                 PROVE  /\ stdout'[p][i].kind # "response"
                        /\ stdout'[p][i].kind = "agent_settled" =>
                              i = Len(stdout'[p]) /\ p \notin running'
      OBVIOUS
    <3>1. /\ stdout[p][i + 1].kind = "response" => i + 1 = 1
          /\ stdout[p][i + 1].kind = "agent_settled" => i + 1 = Len(stdout[p]) /\ p \notin running
      BY <1>0, <2>1 DEF PipesOf
    <3> QED
      BY <1>1, <2>1, <2>2, <3>1
  <2> QED
    BY <1>1, <1>2, <1>4, <1>5, <2>3 DEF PipesOf
<1>7. \A q \in Procs : q # p => PipesOf(q)'
  BY <1>1, PipesFrame DEF Pipes
<1> QED
  BY <1>1, <1>2, <1>4, <1>5, <1>6, <1>7 DEF Pipes

(* Something that is no prompt is written.                                 *)
LEMMA WritePipes ==
    ASSUME RpcInv, Pipes, NEW p \in Procs, NEW kinds \in Told,
           Write(p, kinds) \/ WriteAndStop(p, kinds)
    PROVE  /\ Pipes' /\ UNCHANGED <<stdout, pending, running>>
           /\ \A q \in Procs : \A i \in 1..Len(stdin'[q]) : stdin'[q][i].kind = "prompt" =>
                  \E j \in 1..Len(stdin[q]) : stdin[q][j].kind = "prompt"
<1>0. /\ stdin \in [Procs -> Seq(Commands)] /\ PipeTypes(p) /\ PipesOf(p)
  BY DEF RpcInv, RpcTypeOK, PipeTypes, Pipes
<1> DEFINE w == Written(kinds)
<1>1. w \in Seq(Commands) /\ \A i \in 1..Len(w) : w[i].kind # "prompt"
  BY WrittenTypes
<1>2. /\ stdin'[p] = stdin[p] \o w /\ \A q \in Procs : q # p => stdin'[q] = stdin[q]
      /\ UNCHANGED <<stdout, pending, running>>
  BY <1>0 DEF Write, WriteAndStop, Written
<1> HIDE DEF w
<1>3. /\ Len(stdin[p]) \in Nat /\ Len(w) \in Nat /\ Len(stdin'[p]) = Len(stdin[p]) + Len(w)
      /\ \A i \in 1..Len(stdin[p]) : stdin'[p][i] = stdin[p][i] /\ i \in 1..Len(stdin'[p])
      /\ \A i \in 1..Len(stdin'[p]) : i > Len(stdin[p]) => stdin'[p][i] = w[i - Len(stdin[p])]
  BY <1>0, <1>1, <1>2, ConcatProperties DEF PipeTypes
<1>4. \A i \in 1..Len(stdin'[p]) : stdin'[p][i].kind = "prompt" => i \in 1..Len(stdin[p])
  <2> SUFFICES ASSUME NEW i \in 1..Len(stdin'[p]), stdin'[p][i].kind = "prompt", i > Len(stdin[p])
               PROVE  FALSE
    BY <1>3
  <2>1. i - Len(stdin[p]) \in 1..Len(w)
    BY <1>3
  <2> QED
    BY <1>1, <1>3, <2>1
<1>5. PipesOf(p)'
  <2>1. \A r \in pending'[p] : Waits(p, r)'
    <3> SUFFICES ASSUME NEW r \in pending[p] PROVE Waits(p, r)'
      BY <1>2
    <3>1. Waits(p, r)
      BY <1>0 DEF PipesOf
    <3> QED
      BY <1>2, <1>3, <3>1 DEF Waits
  <2>2. \A i \in 1..Len(stdin'[p]) : stdin'[p][i].kind = "prompt" =>
            /\ stdout'[p] = <<>> /\ p \notin running' /\ stdin'[p][i].id \in pending'[p]
            /\ \A j \in 1..Len(stdin'[p]) : stdin'[p][j].kind = "prompt" => j = i
    <3> SUFFICES ASSUME NEW i \in 1..Len(stdin'[p]), stdin'[p][i].kind = "prompt"
                 PROVE  /\ stdout[p] = <<>> /\ p \notin running /\ stdin'[p][i].id \in pending[p]
                        /\ \A j \in 1..Len(stdin'[p]) : stdin'[p][j].kind = "prompt" => j = i
      BY <1>2
    <3>1. i \in 1..Len(stdin[p]) /\ stdin'[p][i] = stdin[p][i]
      BY <1>3, <1>4
    <3>2. /\ stdout[p] = <<>> /\ p \notin running /\ stdin[p][i].id \in pending[p]
          /\ \A j \in 1..Len(stdin[p]) : stdin[p][j].kind = "prompt" => j = i
      BY <1>0, <3>1 DEF PipesOf
    <3> QED
      BY <1>3, <1>4, <3>1, <3>2
  <2> QED
    BY <1>0, <1>2, <2>1, <2>2 DEF PipesOf
<1>6. \A q \in Procs : q # p => PipesOf(q)'
  BY <1>2, PipesFrame DEF Pipes
<1>7. \A q \in Procs : \A i \in 1..Len(stdin'[q]) : stdin'[q][i].kind = "prompt" =>
          \E j \in 1..Len(stdin[q]) : stdin[q][j].kind = "prompt"
  BY <1>2, <1>3, <1>4
<1> QED
  BY <1>2, <1>5, <1>6, <1>7 DEF Pipes

(* A prompt is sent to a process where nothing is under way.               *)
LEMMA SendPipes ==
    ASSUME RpcInv, Pipes, NEW p \in Procs, NEW r \in Requests, Send(p, r), ~Live(p)
    PROVE  /\ Pipes' /\ pending'[p] = {r} /\ UNCHANGED <<stdout, running>>
           /\ \A q \in Procs : q # p => stdin'[q] = stdin[q] /\ pending'[q] = pending[q]
<1>0. /\ stdin \in [Procs -> Seq(Commands)] /\ pending \in [Procs -> SUBSET Requests]
      /\ PipeTypes(p) /\ PipesOf(p) /\ [kind |-> "prompt", id |-> r] \in Commands
  BY CommandTypes DEF RpcInv, RpcTypeOK, PipeTypes, Pipes
<1> DEFINE line == [kind |-> "prompt", id |-> r]
<1>1. line \in Commands /\ line.kind = "prompt" /\ line.id = r
  BY <1>0
<1>2. /\ stdin'[p] = Append(stdin[p], line) /\ pending'[p] = pending[p] \cup {r}
      /\ UNCHANGED <<stdout, running>>
      /\ \A q \in Procs : q # p => stdin'[q] = stdin[q] /\ pending'[q] = pending[q]
  BY <1>0 DEF Send
<1> HIDE DEF line
<1>3. stdout[p] = <<>> /\ p \notin running /\ pending[p] = {}
  BY DEF Live
<1>4. \A i \in 1..Len(stdin[p]) : stdin[p][i].kind # "prompt"
  BY <1>0, <1>3, PipesNoPrompt
<1>5. /\ Len(stdin[p]) \in Nat /\ Len(stdin'[p]) = Len(stdin[p]) + 1
      /\ \A i \in 1..Len(stdin[p]) : stdin'[p][i] = stdin[p][i]
      /\ stdin'[p][Len(stdin[p]) + 1] = line
  BY <1>0, <1>1, <1>2, AppendProperties DEF PipeTypes
<1>6. \A i \in 1..Len(stdin'[p]) : stdin'[p][i].kind = "prompt" => i = Len(stdin[p]) + 1
  <2> SUFFICES ASSUME NEW i \in 1..Len(stdin'[p]), i # Len(stdin[p]) + 1
               PROVE  stdin'[p][i].kind # "prompt"
    OBVIOUS
  <2>1. i \in 1..Len(stdin[p])
    BY <1>5
  <2> QED
    BY <1>4, <1>5, <2>1
<1>7. \A i \in 1..Len(stdin'[p]) : stdin'[p][i].kind = "prompt" =>
          /\ stdout'[p] = <<>> /\ p \notin running' /\ stdin'[p][i].id \in pending'[p]
          /\ \A j \in 1..Len(stdin'[p]) : stdin'[p][j].kind = "prompt" => j = i
  BY <1>1, <1>2, <1>3, <1>5, <1>6
<1>8. \A s \in pending'[p] : Waits(p, s)'
  <2>1. Len(stdin[p]) + 1 \in 1..Len(stdin'[p])
    BY <1>5
  <2> QED
    BY <1>1, <1>2, <1>3, <1>5, <2>1 DEF Waits
<1>9. PipesOf(p)'
  BY <1>2, <1>3, <1>7, <1>8 DEF PipesOf
<1>10. \A q \in Procs : q # p => PipesOf(q)'
  BY <1>2, PipesFrame DEF Pipes
<1> QED
  BY <1>2, <1>3, <1>9, <1>10 DEF Pipes

(* A process where nothing is under way ends.                              *)
LEMMA EndPipes ==
    ASSUME RpcInv, Pipes, NEW p \in Procs, ~Live(p), ExitSeen(p) \/ Kill(p) \/ PiDies(p)
    PROVE  Pipes' /\ UNCHANGED <<stdin, stdout, pending, running, result>>
<1>0. /\ pending \in [Procs -> SUBSET Requests] /\ result \in [Requests -> Results]
      /\ pending[p] = {} /\ p \notin running
  BY DEF RpcInv, RpcTypeOK, Live
<1>1. UNCHANGED <<stdin, stdout>> /\ running' = running
  BY <1>0 DEF ExitSeen, Kill, PiDies
<1>2. pending' = pending
  BY <1>0 DEF ExitSeen, Kill, PiDies, RejectPending
<1>3. result' = result
  BY <1>0 DEF ExitSeen, Kill, PiDies, RejectPending
<1> QED
  BY <1>1, <1>2, <1>3, PipesFrame DEF Pipes

(* A process that is not open has nothing under way; nor has one to which  *)
(* a prompt is about to be sent.                                           *)
LEMMA NotLive ==
    ASSUME CoverInv
    PROVE  /\ \A p \in Procs : handle[p] # "open" => ~Live(p)
           /\ \A m \in Requests : prompt[m].pc = "send" =>
                 /\ prompt[m].proc \in Procs /\ prompt[m].agent \in Agents
                 /\ ~Live(prompt[m].proc) /\ handle[prompt[m].proc] = "open"
                 /\ owner[prompt[m].proc] = prompt[m].agent
                 /\ processes[prompt[m].agent] = prompt[m].proc
<1>1. \A p \in Procs : handle[p] # "open" => ~Live(p)
  BY DEF CoverInv, Lives, LifeOf
<1> SUFFICES ASSUME NEW m \in Requests, prompt[m].pc = "send"
             PROVE  /\ prompt[m].proc \in Procs /\ prompt[m].agent \in Agents
                    /\ ~Live(prompt[m].proc) /\ handle[prompt[m].proc] = "open"
                    /\ owner[prompt[m].proc] = prompt[m].agent
                    /\ processes[prompt[m].agent] = prompt[m].proc
  BY <1>1
<1>2. prompt[m].proc \in Procs /\ prompt[m].agent \in Agents
  BY InvTypes DEF CoverInv, OwnCallers
<1>3. handle[prompt[m].proc] = "open" /\ processes[prompt[m].agent] = prompt[m].proc
  BY DEF CoverInv, Hold
<1>4. owner[prompt[m].proc] = prompt[m].agent
  BY <1>2, <1>3, InvTypes, ManagerAssumption DEF CoverInv, Children
<1>5. ~Live(prompt[m].proc)
  BY <1>2, <1>4, PromptAlone DEF CoverInv, Active
<1> QED
  BY <1>2, <1>3, <1>4, <1>5

(* What the transport does in a step: a send, a write, a step of a child   *)
(* or of the listener, the end of a process, or nothing in the pipes.      *)
SendStep(m) == PromptSends(m) /\ Send(prompt[m].proc, m)

WriteStep ==
    \E p \in Procs, kinds \in Told : Write(p, kinds) \/ WriteAndStop(p, kinds)

PiLives(p) ==
    /\ \/ PiAccepts(p) \/ PiHandles(p) \/ PiRefuses(p) \/ PiTurns(p) \/ PiAsks(p)
       \/ PiGetsAnswer(p) \/ PiSettles(p) \/ PiAborts(p)
    /\ UNCHANGED <<leaseVars, processes, flight, owner, prompt, op, recovery>>

LineStep(p) == OnTurnStart(p) \/ OnUiRequest(p) \/ OnSettled(p) \/ OnLine(p)

EndStep(p) ==
    /\ ExitSeen(p) \/ Kill(p) \/ PiDies(p)
    /\ handle[p] # "open"
    /\ UNCHANGED <<leaseVars, processes, flight, owner, prompt, op, recovery>>

PipesRest == UNCHANGED <<stdin, stdout, pending, running, result>>

(* A child lives, or ends while it is being stopped; its lines are handled. *)
LEMMA ChildSteps ==
    ASSUME UserWaits, CoverInv, NEW p \in Procs, ChildStep(p) \/ Events(p)
    PROVE  PiLives(p) \/ LineStep(p) \/ EndStep(p)
<1>1. UNCHANGED <<leaseVars, processes, flight, owner, prompt, op, recovery>> \/ Events(p)
  BY DEF ChildStep, PiWorks, PiFaults, managerVars
<1>2. ~Fault("die") /\ "timeout" \notin Faults
  BY DEF Fault, UserWaits
<1>3. CASE OnExit(p)
  <2>1. handle[p] = "stopping" /\ ExitSeen(p)
    BY <1>3 DEF OnExit, ExitSeen, Writable, Hold, CoverInv
  <2> QED
    BY <1>3, <2>1 DEF OnExit, EventUnchanged, EndStep
<1> QED
  BY <1>1, <1>2, <1>3
     DEF ChildStep, PiWorks, PiFaults, PiLives, EndStep, Kill, Events, LineStep

LEMMA PipeSteps ==
    ASSUME UserWaits, CoverInv, Next
    PROVE  \/ \E m \in Requests : SendStep(m)
           \/ WriteStep
           \/ \E p \in Procs : PiLives(p) \/ LineStep(p) \/ EndStep(p)
           \/ PipesRest
<1>0. /\ ManagerInv /\ Hold /\ Children
      /\ processes \in [Agents -> Procs \cup {None}] /\ asked \in [Agents -> Procs \cup {None}]
      /\ handle \in [Procs -> Handles]
  BY InvTypes DEF CoverInv, OwnTypes, RpcInv, RpcTypeOK
<1> USE DEF PipesRest
<1>1. ASSUME NEW c \in Calls, LeaseWorks(c) \/ VoidReturns(c) PROVE PipesRest
  BY <1>1 DEF LeaseWorks, VoidReturns, rpcVars
<1>2. ASSUME NEW m \in Requests, PromptStep(m) PROVE SendStep(m) \/ PipesRest
  <2>1. CASE PromptSends(m)
    <3>1. Writable(prompt[m].proc)
      BY <2>1, NotLive DEF PromptSends, Writable
    <3> QED
      BY <2>1, <3>1 DEF PromptSends, SendFails, SendStep
  <2> QED
    BY <1>2, <2>1
       DEF PromptStep, Prompting, PromptStarts, PromptLeased, PromptEnsures, PromptMarks,
           PromptReturns, PromptCatches, PromptReleased, rpcVars
<1>3. ASSUME NEW p \in Procs, ChildStep(p) \/ Events(p)
      PROVE  PiLives(p) \/ LineStep(p) \/ EndStep(p)
  BY <1>3, ChildSteps
<1>4. ASSUME NEW i \in Recoveries, RecoveryWakes(i) \/ RecoveryEnds(i) PROVE PipesRest
  BY <1>4 DEF RecoveryWakes, RecoveryEnds, RecoveryUnchanged, rpcVars
<1>5. ASSUME NEW a \in Agents, Flights(a) PROVE PipesRest
  BY <1>5 DEF Flights, FlightSpawns, Spawn, HandshakeDone, HistoryDone, FlightFails, Stop,
              FlightStopped, rpcVars
<1>6. ASSUME NEW a \in Agents, OpStep(a) PROVE WriteStep \/ PipesRest
  <2>1. ASSUME NEW kind, OpStarts(a, kind) PROVE WriteStep \/ PipesRest
    <3>1. CASE processes[a] = None \/ Stop(processes[a])
      BY <2>1, <3>1 DEF OpStarts, Stop, rpcVars
    <3>2. CASE processes[a] \in Procs /\ WriteAndStop(processes[a], <<"answer">>)
      BY <3>2 DEF WriteStep, Told
    <3> QED
      BY <1>0, <2>1, <3>1, <3>2 DEF OpStarts
  <2> QED
    BY <1>6, <2>1
       DEF OpStep, Activate, Operations, OpStopped, OpReleased, OpEnsures, OpEnds,
           ActivateLooks, ActivateEnds, rpcVars
<1>7. ASSUME NEW a \in Agents, UserStep(a) PROVE WriteStep \/ PipesRest
  <2>1. CASE RespondToExtensionUi(a)
    BY <1>0, <2>1 DEF RespondToExtensionUi, Told, WriteStep, rpcVars
  <2>2. CASE Abort(a)
    BY <1>0, <2>2 DEF Abort, Told, WriteStep
  <2> QED
    BY <1>7, <2>1, <2>2 DEF UserStep
<1> QED
  BY <1>1, <1>2, <1>3, <1>4, <1>5, <1>6, <1>7, ManagerSteps

LEMMA PipesKept ==
    ASSUME UserWaits, CoverInv, Next
    PROVE  Pipes'
<1>0. RpcInv /\ Pipes
  BY DEF CoverInv, ManagerInv
<1>1. ASSUME NEW m \in Requests, SendStep(m) PROVE Pipes'
  BY <1>0, <1>1, NotLive, SendPipes DEF SendStep, PromptSends
<1>2. CASE WriteStep
  BY <1>0, <1>2, WritePipes DEF WriteStep
<1>3. ASSUME NEW p \in Procs, PiLives(p) PROVE Pipes'
  BY <1>0, <1>3, ChildPipes DEF PiLives
<1>4. ASSUME NEW p \in Procs, LineStep(p) PROVE Pipes'
  BY <1>0, <1>4, LinePipes
     DEF LineStep, OnTurnStart, OnUiRequest, OnSettled, OnLine, Kinds
<1>5. ASSUME NEW p \in Procs, EndStep(p) PROVE Pipes'
  BY <1>0, <1>5, NotLive, EndPipes DEF EndStep
<1>6. CASE PipesRest
  BY <1>0, <1>6, PipesFrame DEF PipesRest, Pipes
<1> QED
  BY <1>1, <1>2, <1>3, <1>4, <1>5, <1>6, PipeSteps

-----------------------------------------------------------------------------
(* The prompts a process has to answer.                                    *)

(* A prompt that waits for its response is left alone by the manager, and  *)
(* so is the owner of a process that was started.                          *)
LEMMA SentStays ==
    ASSUME ManagerInv, Next
    PROVE  /\ \A r \in Requests : prompt[r].pc = "sent" /\ result[r] = "waiting" =>
                  prompt'[r] = prompt[r]
           /\ \A p \in Procs : handle[p] # "unborn" => owner'[p] = owner[p]
<1>0. OwnTypes
  BY InvTypes
<1>1. \A p \in Procs : handle[p] # "unborn" => owner'[p] = owner[p]
  <2>1. ASSUME NEW a \in Agents, FlightSpawns(a)
        PROVE  \A p \in Procs : handle[p] # "unborn" => owner'[p] = owner[p]
    BY <1>0, <2>1 DEF FlightSpawns, OwnTypes
  <2>2. owner' = owner \/ \E a \in Agents : FlightSpawns(a)
    BY ManagerSteps
       DEF LeaseWorks, VoidReturns, PromptStep, Prompting, PromptStarts, PromptLeased,
           PromptEnsures, PromptMarks, PromptSends, PromptReturns, PromptCatches, PromptReleased,
           PromptUnchanged, ChildStep, PiWorks, PiFaults, Events, OnTurnStart, OnUiRequest,
           OnSettled, OnExit, OnLine, EventUnchanged, RecoveryWakes, RecoveryEnds,
           RecoveryUnchanged, Flights, HandshakeDone, HistoryDone, FlightFails, FlightStopped,
           OpStep, Activate, OpStarts, OpBegins, Operations, OpStopped, OpReleased, OpEnsures,
           OpEnds, ActivateLooks, ActivateEnds, OpUnchanged, UserStep, RespondToExtensionUi, Abort,
           UserUnchanged, managerVars
  <2> QED
    BY <2>1, <2>2
<1> SUFFICES ASSUME NEW r \in Requests, prompt[r].pc = "sent", result[r] = "waiting"
             PROVE  prompt'[r] = prompt[r]
  BY <1>1
<1>2. ASSUME NEW m \in Requests, PromptStep(m) PROVE prompt'[r] = prompt[r]
  <2>1. ASSUME NEW pc, SetPrompt(m, pc), m # r PROVE prompt'[r] = prompt[r]
    BY <1>0, <2>1, SetPromptEffect
  <2>2. CASE PromptEnsures(m) \/ \E a \in Agents : PromptStarts(m, a)
    BY <1>0, <2>1, <2>2 DEF PromptEnsures, PromptStarts, OwnTypes, PromptStates
  <2> QED
    BY <1>2, <2>1, <2>2
       DEF PromptStep, Prompting, PromptLeased, PromptMarks, PromptSends, PromptReturns,
           PromptCatches, PromptReleased, Settled
<1>3. ASSUME NEW a \in Agents, Flights(a) PROVE prompt'[r] = prompt[r]
  <2>1. ASSUME NEW pc, NEW p, FlightEnds(a, pc, p) PROVE prompt'[r] = prompt[r]
    BY <1>0, <2>1, FlightEndsEffect
  <2> QED
    BY <1>3, <2>1 DEF Flights, FlightSpawns, HandshakeDone, HistoryDone, FlightFails, FlightStopped
<1> QED
  BY <1>2, <1>3, PromptSteps

LEMMA AwaitedKept ==
    ASSUME UserWaits, CoverInv, Next
    PROVE  Awaited'
<1>0. /\ ManagerInv /\ RpcInv /\ Pipes /\ Awaited /\ OwnTypes
      /\ pending \in [Procs -> SUBSET Requests] /\ result \in [Requests -> Results]
      /\ stdout \in [Procs -> Seq(Lines)]
  BY InvTypes DEF CoverInv, RpcInv, RpcTypeOK
<1>1. ASSUME NEW p \in Procs, NEW r \in pending[p], result'[r] = "waiting"
      PROVE  prompt'[r].pc = "sent" /\ prompt'[r].agent = owner'[p]
  <2>1. result[r] = "waiting" /\ prompt[r].pc = "sent" /\ prompt[r].agent = owner[p] /\ r \in Requests
    BY <1>0, <1>1 DEF Awaited
  <2>2. handle[p] # "unborn"
    BY <1>1 DEF CoverInv, Lives, LifeOf, Live
  <2> QED
    BY <1>0, <2>1, <2>2, SentStays
<1>2. ASSUME NEW m \in Requests, SendStep(m) PROVE Awaited'
  <2> DEFINE p == prompt[m].proc
  <2>1. p \in Procs /\ ~Live(p) /\ prompt[m].pc = "send" /\ owner[p] = prompt[m].agent
        /\ Send(p, m) /\ SetPrompt(m, "sent") /\ owner' = owner
    BY <1>2, NotLive DEF SendStep, PromptSends, PromptUnchanged
  <2> HIDE DEF p
  <2>2. /\ pending'[p] = {m} /\ \A q \in Procs : q # p => pending'[q] = pending[q]
    BY <1>0, <2>1, SendPipes
  <2>3. result'[m] = "waiting" /\ \A r \in Requests : r # m => result'[r] = result[r]
    BY <1>0, <2>1 DEF Send
  <2>4. prompt'[m].pc = "sent" /\ prompt'[m].agent = owner'[p]
    BY <1>0, <2>1, SetPromptEffect
  <2>5. \A q \in Procs : \A r \in pending'[q] :
            result'[r] = "waiting" /\ prompt'[r].pc = "sent" /\ prompt'[r].agent = owner'[q]
    <3> SUFFICES ASSUME NEW q \in Procs, NEW r \in pending'[q]
                 PROVE  /\ result'[r] = "waiting" /\ prompt'[r].pc = "sent"
                        /\ prompt'[r].agent = owner'[q]
      OBVIOUS
    <3>1. CASE q = p
      BY <2>2, <2>3, <2>4, <3>1
    <3>2. CASE q # p
      <4>1. r \in pending[q] /\ r \in Requests
        BY <1>0, <2>2, <3>2
      <4>2. result[r] = "waiting" /\ prompt[r].pc = "sent"
        BY <1>0, <4>1 DEF Awaited
      <4>3. r # m
        BY <2>1, <4>2
      <4>4. result'[r] = "waiting"
        BY <2>3, <4>1, <4>2, <4>3
      <4> QED
        BY <1>1, <4>1, <4>4
    <3> QED
      BY <3>1, <3>2
  <2> QED
    BY <2>5 DEF Awaited
<1>3. ASSUME UNCHANGED <<pending, result>> PROVE Awaited'
  BY <1>0, <1>1, <1>3 DEF Awaited
<1>4. CASE WriteStep
  BY <1>3, <1>4 DEF WriteStep, Write, WriteAndStop
<1>5. ASSUME NEW p \in Procs, PiLives(p) PROVE Awaited'
  BY <1>3, <1>5 DEF PiLives, PiAccepts, PiHandles, PiRefuses, PiTurns, PiAsks, PiGetsAnswer,
                    PiSettles, PiAborts
<1>6. ASSUME NEW p \in Procs, LineStep(p) PROVE Awaited'
  <2>1. OnResponse(p) \/ \E kind \in Kinds : TakeEvent(p, kind)
    BY <1>6 DEF LineStep, OnTurnStart, OnUiRequest, OnSettled, OnLine, Kinds
  <2>2. /\ pending'[p] = {} /\ \A q \in Procs : q # p => pending'[q] = pending[q]
        /\ OnResponse(p) => pending[p] = {stdout[p][1].id}
        /\ ~OnResponse(p) => result' = result
    BY <1>0, <2>1, LinePipes
  <2>3. \A q \in Procs : \A r \in pending'[q] : r \in pending[q] /\ result'[r] = "waiting"
    <3> SUFFICES ASSUME NEW q \in Procs, NEW r \in pending'[q]
                 PROVE  r \in pending[q] /\ result'[r] = "waiting"
      OBVIOUS
    <3>1. q # p /\ r \in pending[q] /\ r \in Requests /\ result[r] = "waiting"
      BY <1>0, <2>2 DEF Awaited
    <3>2. CASE OnResponse(p)
      <4>1. r # stdout[p][1].id
        BY <1>0, <2>2, <3>1, <3>2 DEF RpcInv, WaitingIsPending
      <4>2. Head(stdout[p]) = stdout[p][1]
        BY <1>0, <3>2 DEF OnResponse, HasLine
      <4> QED
        BY <1>0, <3>1, <3>2, <4>1, <4>2 DEF OnResponse
    <3> QED
      BY <2>2, <3>1, <3>2
  <2> QED
    BY <1>0, <1>1, <2>3 DEF Awaited
<1>7. ASSUME NEW p \in Procs, EndStep(p) PROVE Awaited'
  BY <1>0, <1>3, <1>7, NotLive, EndPipes DEF EndStep
<1> QED
  BY <1>2, <1>3, <1>4, <1>5, <1>6, <1>7, PipeSteps DEF PipesRest

-----------------------------------------------------------------------------
(* While something is under way in a process, its agent is left alone.     *)

(* Two processes of which something is under way are of two agents.        *)
LEMMA LiveOnce ==
    ASSUME Lives, NEW p \in Procs, NEW q \in Procs, Live(p), Live(q), owner[p] = owner[q]
    PROVE  p = q
BY DEF Lives, LifeOf

(* What a step leaves of an agent at work.                                 *)
LEMMA LifeFrame ==
    ASSUME NEW p \in Procs, LifeOf(p),
           handle'[p] = handle[p], owner'[p] = owner[p],
           processes'[owner[p]] = processes[owner[p]], flight'[owner[p]] = flight[owner[p]],
           op'[owner[p]] = op[owner[p]],
           \A m \in Requests : prompt'[m].agent = owner[p] =>
               /\ prompt[m].agent = owner[p]
               /\ Through(m) => Through(m)'
               /\ m \in pending[p] => m \in pending'[p] \/ Through(m)'
    PROVE  LifeOf(p)'
BY DEF LifeOf

(* A prompt that came through stays so.                                    *)
LEMMA ThroughStays ==
    ASSUME NEW m \in Requests, Through(m), prompt'[m] = prompt[m],
           result[m] = "answered" => result'[m] = "answered"
    PROVE  Through(m)'
BY DEF Through

(* A step of the prompt m, of an agent that has nothing under way.         *)
LEMMA LifeOfPrompt ==
    ASSUME UserWaits, CoverInv, NEW p \in Procs, Live(p), NEW m \in Requests, PromptStep(m)
    PROVE  LifeOf(p)'
<1>0. /\ ManagerInv /\ Actors /\ Awaited /\ Lives /\ OwnTypes /\ LifeOf(p) /\ owner[p] \in Agents
      /\ handle[p] = "open" /\ pending \in [Procs -> SUBSET Requests]
      /\ result \in [Requests -> Results]
  BY InvTypes DEF CoverInv, Lives, LifeOf, RpcInv, RpcTypeOK
<1> DEFINE a == owner[p]
<1>1. owner' = owner /\ handle' = handle /\ op' = op
  BY <1>0
     DEF PromptStep, Prompting, PromptStarts, PromptLeased, PromptEnsures, PromptMarks, PromptSends,
         PromptReturns, PromptCatches, PromptReleased, PromptUnchanged, Send, SendFails, rpcVars
<1>2. /\ \A n \in Requests : n # m => prompt'[n] = prompt[n]
      /\ ~(\E b \in Agents : PromptStarts(m, b)) => prompt'[m].agent = prompt[m].agent
  <2>1. ASSUME NEW pc, SetPrompt(m, pc)
        PROVE  /\ \A n \in Requests : n # m => prompt'[n] = prompt[n]
               /\ prompt'[m].agent = prompt[m].agent
    BY <1>0, <2>1, SetPromptEffect
  <2>2. CASE PromptEnsures(m)
    BY <1>0, <2>1, <2>2 DEF PromptEnsures, OwnTypes, PromptStates
  <2>3. CASE \E b \in Agents : PromptStarts(m, b)
    BY <1>0, <2>3 DEF PromptStarts, OwnTypes, PromptStates
  <2>4. CASE PromptCatches(m)
    BY <2>1, <2>4 DEF PromptCatches
  <2> QED
    BY <2>1, <2>2, <2>3, <2>4
       DEF PromptStep, Prompting, PromptLeased, PromptMarks, PromptSends, PromptReturns,
           PromptReleased
<1>3. \A n \in Requests : n # m => result'[n] = result[n]
  BY <1>0
     DEF PromptStep, Prompting, PromptStarts, PromptLeased, PromptEnsures, PromptMarks, PromptSends,
         PromptReturns, PromptCatches, PromptReleased, Send, SendFails, rpcVars
<1>4. \A n \in Requests : n \in pending[p] => n \in pending'[p]
  BY <1>0
     DEF PromptStep, Prompting, PromptStarts, PromptLeased, PromptEnsures, PromptMarks, PromptSends,
         PromptReturns, PromptCatches, PromptReleased, Send, SendFails, rpcVars
<1>5. \A n \in Requests : n # m /\ prompt'[n].agent = a =>
          /\ prompt[n].agent = a
          /\ Through(n) => Through(n)'
          /\ n \in pending[p] => n \in pending'[p] \/ Through(n)'
  BY <1>2, <1>3, <1>4, ThroughStays
<1>6. ASSUME NEW b \in Agents, b # a, \A c \in Agents : c # b => processes'[c] = processes[c]
                                                              /\ flight'[c] = flight[c],
             prompt'[m].agent = b
      PROVE  LifeOf(p)'
  BY <1>0, <1>1, <1>5, <1>6, LifeFrame
<1>7. ASSUME NEW b \in Agents, PromptStarts(m, b) PROVE LifeOf(p)'
  <2>1. b # a
    BY <1>0, <1>7, QuietAlone DEF PromptStarts, UserWaits
  <2>2. prompt'[m].agent = b /\ UNCHANGED <<processes, flight>>
    BY <1>0, <1>7 DEF PromptStarts, OwnTypes, PromptStates
  <2> QED
    BY <1>6, <2>1, <2>2
<1>8. ASSUME Prompting(m), Active(m), ~Through(m), \A q \in Procs : m \notin pending[q]
      PROVE  LifeOf(p)'
  <2>1. prompt[m].agent # a /\ prompt[m].agent \in Agents
    BY <1>0, <1>8, EarlyPrompt
  <2>2. \A c \in Agents : c # prompt[m].agent => processes'[c] = processes[c] /\ flight'[c] = flight[c]
    BY <1>0, <1>8
       DEF Prompting, PromptLeased, PromptEnsures, PromptMarks, PromptSends, PromptReturns,
           PromptCatches, PromptReleased, JoinFlight, OwnTypes
  <2>3. prompt'[m].agent = prompt[m].agent
    <3>1. prompt[m].pc # "new"
      BY <1>8 DEF Active
    <3> QED
      BY <1>2, <3>1 DEF PromptStarts
  <2> QED
    BY <1>6, <2>1, <2>2, <2>3
<1>9. CASE PromptReturns(m)
  <2>1. prompt'[m].pc = "done" /\ prompt'[m].agent = prompt[m].agent /\ UNCHANGED <<processes, flight>>
    BY <1>0, <1>9, SetPromptEffect DEF PromptReturns
  <2>2. Through(m)'
    BY <2>1 DEF Through
  <2>3. \A n \in Requests : prompt'[n].agent = owner[p] =>
            /\ prompt[n].agent = owner[p]
            /\ Through(n) => Through(n)'
            /\ n \in pending[p] => n \in pending'[p] \/ Through(n)'
    BY <1>5, <2>1, <2>2
  <2> QED
    BY <1>0, <1>1, <2>1, <2>3, LifeFrame
<1>10. CASE PromptCatches(m)
  <2>1. result[m] # "waiting" \/ prompt[m].pc # "sent"
    BY <1>10 DEF PromptCatches, Active, Through, Settled
  <2>2. Active(m) /\ ~Through(m)
    BY <1>10 DEF PromptCatches, Active, Through, Settled
  <2>3. \A q \in Procs : m \notin pending[q]
    BY <1>0, <2>1 DEF Awaited
  <2> QED
    BY <1>8, <1>10, <2>2, <2>3 DEF Prompting
<1>11. CASE Prompting(m) /\ ~PromptReturns(m) /\ ~PromptCatches(m)
  <2>1. prompt[m].pc \in {"lease", "ensure", "up", "send", "release"}
    BY <1>11
       DEF Prompting, PromptLeased, PromptEnsures, PromptMarks, PromptSends, PromptReleased
  <2>2. Active(m) /\ ~Through(m) /\ \A q \in Procs : m \notin pending[q]
    BY <1>0, <2>1 DEF Active, Through, Awaited
  <2> QED
    BY <1>8, <1>11, <2>2
<1> QED
  BY <1>7, <1>9, <1>10, <1>11 DEF PromptStep

(* A step of a start, which is one of another agent.                       *)
LEMMA LifeOfFlight ==
    ASSUME UserWaits, CoverInv, NEW p \in Procs, Live(p), NEW b \in Agents, Flights(b)
    PROVE  LifeOf(p)'
<1>0. /\ ManagerInv /\ Children /\ Lives /\ OwnTypes /\ LifeOf(p) /\ owner[p] \in Agents
      /\ handle[p] = "open" /\ handle \in [Procs -> Handles]
  BY InvTypes DEF CoverInv, Lives, LifeOf, RpcInv, RpcTypeOK
<1>1. flight[b] # NoFlight
  BY <1>0 DEF Flights, FlightSpawns, HandshakeDone, HistoryDone, FlightFails, FlightStopped, NoFlight
<1>2. b # owner[p]
  BY <1>0, <1>1 DEF LifeOf
<1>3. UNCHANGED <<pending, result>>
  BY DEF Flights, FlightSpawns, Spawn, HandshakeDone, HistoryDone, FlightFails, Stop, FlightStopped,
         rpcVars
<1>4. handle'[p] = handle[p] /\ owner'[p] = owner[p]
  <2>1. CASE FlightSpawns(b)
    BY <1>0, <2>1 DEF FlightSpawns, Spawn, OwnTypes
  <2>2. CASE FlightFails(b)
    <3>1. flight[b].proc # p
      BY <1>0, <1>2, <2>2 DEF FlightFails, Children, Started
    <3> QED
      BY <1>0, <2>2, <3>1 DEF FlightFails, Stop
  <2> QED
    BY <2>1, <2>2 DEF Flights, HandshakeDone, HistoryDone, FlightStopped, rpcVars
<1>5. ASSUME UNCHANGED <<prompt, op>>,
             \A c \in Agents : c # b => processes'[c] = processes[c] /\ flight'[c] = flight[c]
      PROVE  LifeOf(p)'
  <2>1. \A m \in Requests : prompt'[m].agent = owner[p] =>
            /\ prompt[m].agent = owner[p]
            /\ Through(m) => Through(m)'
            /\ m \in pending[p] => m \in pending'[p] \/ Through(m)'
    BY <1>3, <1>5, ThroughStays
  <2> QED
    BY <1>0, <1>2, <1>4, <1>5, <2>1, LifeFrame
<1>6. ASSUME NEW pc, NEW q, FlightEnds(b, pc, q), processes' = processes PROVE LifeOf(p)'
  <2>1. /\ \A c \in Agents : c # b => flight'[c] = flight[c] /\ op'[c] = op[c]
        /\ \A m \in Requests : prompt'[m].agent = prompt[m].agent
                               /\ (prompt'[m] = prompt[m] \/ prompt[m].agent = b)
    BY <1>0, <1>6, FlightEndsEffect
  <2>2. \A m \in Requests : prompt'[m].agent = owner[p] =>
            /\ prompt[m].agent = owner[p]
            /\ Through(m) => Through(m)'
            /\ m \in pending[p] => m \in pending'[p] \/ Through(m)'
    BY <1>2, <1>3, <2>1, ThroughStays
  <2> QED
    BY <1>0, <1>2, <1>4, <1>6, <2>1, <2>2, LifeFrame
<1>7. CASE FlightSpawns(b)
  BY <1>0, <1>5, <1>7 DEF FlightSpawns, OwnTypes
<1>8. CASE HandshakeDone(b)
  BY <1>0, <1>5, <1>8 DEF HandshakeDone, OwnTypes
<1>9. CASE HistoryDone(b)
  BY <1>6, <1>9 DEF HistoryDone
<1>10. CASE FlightFails(b)
  BY <1>0, <1>5, <1>10 DEF FlightFails, OwnTypes
<1>11. CASE FlightStopped(b)
  BY <1>0, <1>5, <1>6, <1>11 DEF FlightStopped, OwnTypes
<1> QED
  BY <1>7, <1>8, <1>9, <1>10, <1>11 DEF Flights

(* An operation, which is on another agent.                                *)
LEMMA LifeOfOp ==
    ASSUME UserWaits, CoverInv, NEW p \in Procs, Live(p), NEW b \in Agents, OpStep(b)
    PROVE  LifeOf(p)'
<1>0. /\ ManagerInv /\ Children /\ Awaited /\ Lives /\ OwnTypes /\ LifeOf(p) /\ owner[p] \in Agents
      /\ handle[p] = "open" /\ handle \in [Procs -> Handles] /\ None \notin Procs
  BY InvTypes, ManagerAssumption DEF CoverInv, Lives, LifeOf, RpcInv, RpcTypeOK
<1>1. b # owner[p]
  <2>1. CASE Operations(b)
    <3>1. op[b] # NoOp
      BY <2>1 DEF Operations, OpStopped, OpReleased, OpEnsures, OpEnds, ActivateLooks, ActivateEnds,
                  NoOp
    <3> QED
      BY <1>0, <3>1 DEF LifeOf
  <2>2. CASE ~Operations(b)
    <3>1. Quiet(b)
      BY <2>2 DEF OpStep, Activate, OpStarts, OpBegins, UserWaits
    <3> QED
      BY <1>0, <3>1, QuietAlone
  <2> QED
    BY <2>1, <2>2
<1>2. UNCHANGED <<owner, prompt, pending, result>>
  BY DEF OpStep, Operations, Activate, OpStarts, OpBegins, OpStopped, OpReleased, OpEnsures, OpEnds,
         ActivateLooks, ActivateEnds, OpUnchanged, Stop, WriteAndStop, rpcVars
<1>3. handle'[p] = handle[p]
  <2>1. ASSUME NEW kind, OpStarts(b, kind) PROVE handle'[p] = handle[p]
    <3>1. processes[b] # p
      BY <1>0, <1>1 DEF Children
    <3> QED
      BY <1>0, <2>1, <3>1 DEF OpStarts, Stop, WriteAndStop, rpcVars
  <2> QED
    BY <2>1 DEF OpStep, Operations, Activate, OpStopped, OpReleased, OpEnsures, OpEnds,
                ActivateLooks, ActivateEnds, rpcVars
<1>4. /\ processes'[owner[p]] = processes[owner[p]] /\ flight'[owner[p]] = flight[owner[p]]
      /\ op'[owner[p]] = op[owner[p]]
  BY <1>0, <1>1
     DEF OpStep, Operations, Activate, OpStarts, OpBegins, OpStopped, OpReleased, OpEnsures, OpEnds,
         ActivateLooks, ActivateEnds, OpSets, OpUnchanged, JoinFlight, OwnTypes
<1>5. \A m \in Requests : prompt'[m].agent = owner[p] =>
            /\ prompt[m].agent = owner[p]
            /\ Through(m) => Through(m)'
            /\ m \in pending[p] => m \in pending'[p] \/ Through(m)'
  BY <1>2, ThroughStays
<1> QED
  BY <1>0, <1>2, <1>3, <1>4, <1>5, LifeFrame

(* A line is handled: of this process, then it is the response to the      *)
(* prompt that waits, or an event; or of another agent's.                  *)
LEMMA LifeOfLine ==
    ASSUME UserWaits, CoverInv, NEW p \in Procs, Live(p), NEW q \in Procs, LineStep(q), Live(p)'
    PROVE  LifeOf(p)'
<1>0. /\ ManagerInv /\ RpcInv /\ Pipes /\ Awaited /\ Lives /\ LifeOf(p) /\ PipesOf(q)
      /\ result \in [Requests -> Results] /\ stdout \in [Procs -> Seq(Lines)]
      /\ pending \in [Procs -> SUBSET Requests]
  BY DEF CoverInv, Lives, ManagerInv, RpcInv, RpcTypeOK, Pipes
<1>1. UNCHANGED <<handle, owner, processes, flight, op, prompt>>
  BY DEF LineStep, OnTurnStart, OnUiRequest, OnSettled, OnLine, OnResponse, TakeEvent,
         EventUnchanged, managerVars
<1>2. OnResponse(q) \/ \E kind \in Kinds : TakeEvent(q, kind)
  BY DEF LineStep, OnTurnStart, OnUiRequest, OnSettled, OnLine, Kinds
<1>3. /\ pending'[q] = {} /\ \A o \in Procs : o # q => pending'[o] = pending[o]
      /\ OnResponse(q) => pending[q] = {stdout[q][1].id}
      /\ ~OnResponse(q) => pending[q] = {} /\ result' = result
  BY <1>0, <1>2, LinePipes
<1>4. CASE ~OnResponse(q)
  <2>1. \A m \in Requests : prompt'[m].agent = owner[p] =>
            /\ prompt[m].agent = owner[p]
            /\ Through(m) => Through(m)'
            /\ m \in pending[p] => m \in pending'[p] \/ Through(m)'
    BY <1>1, <1>3, <1>4, ThroughStays
  <2> QED
    BY <1>0, <1>1, <2>1, LifeFrame
<1>5. CASE OnResponse(q)
  <2>0. PICK r \in Requests : r = stdout[q][1].id
    BY <1>0, <1>3, <1>5
  <2>1. /\ stdout[q] # <<>> /\ Head(stdout[q]) = stdout[q][1] /\ stdout[q][1].kind = "response"
        /\ 1 \in 1..Len(stdout[q])
    BY <1>0, <1>5 DEF OnResponse, HasLine
  <2>2. r \in pending[q] /\ result[r] = "waiting" /\ prompt[r].pc = "sent"
    BY <1>0, <1>3, <1>5, <2>0 DEF Awaited
  <2>3. /\ \A m \in Requests : m # r => result'[m] = result[m]
        /\ result'[r] = IF stdout[q][1].ok THEN "answered" ELSE "refused"
    BY <1>0, <1>5, <2>0, <2>1, <2>2 DEF OnResponse
  <2>4. r \in pending[p] => Through(r)'
    <3> SUFFICES ASSUME r \in pending[p] PROVE Through(r)'
      OBVIOUS
    <3>1. p = q
      BY <1>0, <2>2 DEF RpcInv, WaitingIsPending
    <3>2. stdout[q][1].ok # FALSE
      <4> SUFFICES ASSUME stdout[q][1].ok = FALSE PROVE FALSE
        OBVIOUS
      <4>1. Len(stdout[q]) = 1 /\ q \notin running
        BY <1>0, <2>1 DEF PipesOf
      <4>2. stdout'[q] = Tail(stdout[q]) /\ running' = running
        BY <1>0, <1>5 DEF OnResponse
      <4>3. stdout'[q] = <<>>
        <5>1. Tail(stdout[q]) \in Seq(Lines) /\ Len(Tail(stdout[q])) = 0
          BY <1>0, <2>1, <4>1
        <5> QED
          BY <4>2, <5>1, EmptySeq
      <4> QED
        BY <1>3, <3>1, <4>1, <4>2, <4>3 DEF Live
    <3>3. stdout[q][1].ok = TRUE
      <4>1. stdout[q][1] \in Lines
        BY <1>0, <2>1
      <4>2. stdout[q][1].ok \in BOOLEAN
        BY <2>1, <4>1 DEF Lines
      <4> QED
        BY <3>2, <4>2
    <3>4. result'[r] = "answered"
      BY <2>3, <3>3
    <3> QED
      BY <1>1, <2>2, <3>4 DEF Through
  <2>5. \A m \in Requests : prompt'[m].agent = owner[p] =>
            /\ prompt[m].agent = owner[p]
            /\ Through(m) => Through(m)'
            /\ m \in pending[p] => m \in pending'[p] \/ Through(m)'
    <3> SUFFICES ASSUME NEW m \in Requests
                 PROVE  /\ Through(m) => Through(m)'
                        /\ m \in pending[p] => m \in pending'[p] \/ Through(m)'
      BY <1>1
    <3>1. CASE m = r
      BY <2>2, <2>4, <3>1 DEF Through
    <3>2. CASE m # r
      <4>1. Through(m) => Through(m)'
        BY <1>1, <2>3, <3>2, ThroughStays
      <4>2. m \in pending[p] => m \in pending'[p]
        BY <1>3, <1>5, <2>0, <3>2
      <4> QED
        BY <4>1, <4>2
    <3> QED
      BY <3>1, <3>2
  <2> QED
    BY <1>0, <1>1, <2>5, LifeFrame
<1> QED
  BY <1>4, <1>5

(* What is under way was so before, or a prompt is just sent.              *)
LEMMA LiveBefore ==
    ASSUME UserWaits, CoverInv, Next, NEW p \in Procs, Live(p)', ~Live(p)
    PROVE  \E m \in Requests : SendStep(m) /\ p = prompt[m].proc /\ prompt[m].agent = owner[p]
<1>0. /\ ManagerInv /\ RpcInv /\ Pipes /\ stdin \in [Procs -> Seq(Commands)]
      /\ stdout \in [Procs -> Seq(Lines)] /\ pending \in [Procs -> SUBSET Requests]
      /\ asking \subseteq running /\ p \notin running /\ stdout[p] = <<>> /\ pending[p] = {}
  BY DEF CoverInv, ManagerInv, RpcInv, RpcTypeOK, Live
<1>1. ASSUME NEW m \in Requests, SendStep(m)
      PROVE  SendStep(m) /\ p = prompt[m].proc /\ prompt[m].agent = owner[p]
  <2>1. /\ prompt[m].proc \in Procs /\ ~Live(prompt[m].proc) /\ Send(prompt[m].proc, m)
        /\ owner[prompt[m].proc] = prompt[m].agent
    BY <1>1, NotLive DEF SendStep, PromptSends
  <2>2. /\ UNCHANGED <<stdout, running>>
        /\ \A q \in Procs : q # prompt[m].proc => pending'[q] = pending[q]
    BY <1>0, <2>1, SendPipes
  <2> QED
    BY <1>0, <1>1, <2>1, <2>2 DEF Live
<1>2. ~WriteStep
  <2>1. WriteStep => UNCHANGED <<stdout, pending, running>>
    BY DEF WriteStep, Write, WriteAndStop
  <2> QED
    BY <1>0, <2>1 DEF Live
<1>3. ASSUME NEW q \in Procs, PiLives(q) PROVE FALSE
  <2>1. pending' = pending
    BY <1>3 DEF PiLives, PiAccepts, PiHandles, PiRefuses, PiTurns, PiAsks, PiGetsAnswer, PiSettles,
                PiAborts
  <2>2. CASE q # p
    BY <1>0, <1>3, <2>1, <2>2
       DEF PiLives, PiAccepts, PiHandles, PiRefuses, PiTurns, PiAsks, PiGetsAnswer, PiSettles,
           PiAborts, Prints, Live
  <2>3. CASE q = p
    <3>1. ~PiTurns(p) /\ ~PiAsks(p) /\ ~PiSettles(p)
      BY <1>0 DEF PiTurns, PiAsks, PiSettles
    <3>2. ~Command(p, "prompt")
      <4> SUFFICES ASSUME Command(p, "prompt") PROVE FALSE
        OBVIOUS
      <4>1. stdin[p][1].kind = "prompt" /\ 1 \in 1..Len(stdin[p])
        BY <1>0 DEF Command
      <4> QED
        BY <1>0, <4>1, PipesNoPrompt DEF Pipes
    <3>3. PiGetsAnswer(p) \/ PiAborts(p)
      BY <1>3, <2>3, <3>1, <3>2 DEF PiLives, PiAccepts, PiHandles, PiRefuses
    <3>4. CASE PiGetsAnswer(p)
      BY <1>0, <2>1, <3>4 DEF PiGetsAnswer, Live
    <3>5. CASE PiAborts(p)
      <4>1. stdout'[p] = stdout[p] /\ p \notin running'
        BY <1>0, <3>5 DEF PiAborts, Prints
      <4> QED
        BY <1>0, <2>1, <4>1 DEF Live
    <3> QED
      BY <3>3, <3>4, <3>5
  <2> QED
    BY <2>2, <2>3
<1>4. ASSUME NEW q \in Procs, LineStep(q) PROVE FALSE
  <2>1. OnResponse(q) \/ \E kind \in Kinds : TakeEvent(q, kind)
    BY <1>4 DEF LineStep, OnTurnStart, OnUiRequest, OnSettled, OnLine, Kinds
  <2>2. q # p
    BY <1>0, <2>1 DEF OnResponse, TakeEvent, HasLine
  <2>3. stdout'[p] = stdout[p] /\ pending'[p] = pending[p] /\ running' = running
    BY <1>0, <2>1, <2>2, LinePipes DEF OnResponse, TakeEvent
  <2> QED
    BY <1>0, <2>3 DEF Live
<1>5. ASSUME NEW q \in Procs, EndStep(q) PROVE FALSE
  <2>1. UNCHANGED <<stdout, pending, running>>
    BY <1>0, <1>5, NotLive, EndPipes DEF EndStep
  <2> QED
    BY <1>0, <2>1 DEF Live
<1>6. ~PipesRest
  BY <1>0 DEF PipesRest, Live
<1> QED
  BY <1>1, <1>2, <1>3, <1>4, <1>5, <1>6, PipeSteps

LEMMA LivesKept ==
    ASSUME UserWaits, CoverInv, Next
    PROVE  Lives'
<1> SUFFICES ASSUME NEW p \in Procs, Live(p)' PROVE LifeOf(p)'
  BY DEF Lives
<1>0. /\ ManagerInv /\ Actors /\ Lives /\ OwnTypes /\ RpcInv /\ Pipes /\ Awaited
      /\ pending \in [Procs -> SUBSET Requests] /\ handle \in [Procs -> Handles]
  BY InvTypes DEF CoverInv, RpcInv, RpcTypeOK
<1>1. CASE ~Live(p)
  <2>1. PICK m \in Requests : SendStep(m) /\ p = prompt[m].proc /\ prompt[m].agent = owner[p]
    BY <1>1, LiveBefore
  <2>2. /\ prompt[m].pc = "send" /\ Send(p, m) /\ SetPrompt(m, "sent")
        /\ UNCHANGED <<processes, flight, owner, op, handle>>
    BY <2>1 DEF SendStep, PromptSends, PromptUnchanged, Send
  <2>3. /\ owner[p] \in Agents /\ handle[p] = "open" /\ processes[owner[p]] = p
    BY <2>1, <2>2, NotLive
  <2>4. /\ op[owner[p]] = NoOp /\ flight[owner[p]] = NoFlight
        /\ \A n \in Requests : n # m /\ prompt[n].agent = owner[p] => prompt[n].pc \in {"done", "failed"}
    BY <1>0, <2>1, <2>2, PromptAlone DEF Active
  <2>5. m \in pending'[p] /\ \A n \in Requests : n # m => prompt'[n] = prompt[n]
    BY <1>0, <1>1, <2>2, SendPipes, SetPromptEffect
  <2>6. \A n \in Requests : prompt'[n].agent = owner[p] => Through(n)' \/ n \in pending'[p]
    BY <2>4, <2>5 DEF Through
  <2> QED
    BY <2>2, <2>3, <2>4, <2>6 DEF LifeOf
<1>2. CASE Live(p)
  <2>0. LifeOf(p) /\ handle[p] = "open"
    BY <1>0, <1>2 DEF Lives, LifeOf
  <2>1. ASSUME UNCHANGED <<owner, processes, flight, op, prompt, pending, result>>,
               handle'[p] = handle[p]
        PROVE  LifeOf(p)'
    <3>1. \A m \in Requests : prompt'[m].agent = owner[p] =>
              /\ prompt[m].agent = owner[p]
              /\ Through(m) => Through(m)'
              /\ m \in pending[p] => m \in pending'[p] \/ Through(m)'
      BY <2>1, ThroughStays
    <3> QED
      BY <2>0, <2>1, <3>1, LifeFrame
  <2>2. ASSUME NEW c \in Calls, LeaseWorks(c) \/ VoidReturns(c) PROVE LifeOf(p)'
    BY <2>1, <2>2 DEF LeaseWorks, VoidReturns, managerVars, rpcVars
  <2>3. ASSUME NEW m \in Requests, PromptStep(m) PROVE LifeOf(p)'
    BY <1>2, <2>3, LifeOfPrompt
  <2>4. ASSUME NEW q \in Procs, PiLives(q) PROVE LifeOf(p)'
    BY <2>1, <2>4
       DEF PiLives, PiAccepts, PiHandles, PiRefuses, PiTurns, PiAsks, PiGetsAnswer, PiSettles,
           PiAborts
  <2>5. ASSUME NEW q \in Procs, LineStep(q) PROVE LifeOf(p)'
    BY <1>2, <2>5, LifeOfLine
  <2>6. ASSUME NEW q \in Procs, EndStep(q) PROVE LifeOf(p)'
    <3>1. UNCHANGED <<pending, result>>
      BY <1>0, <2>6, NotLive, EndPipes DEF EndStep
    <3>2. handle'[p] = handle[p]
      BY <1>0, <2>0, <2>6 DEF EndStep, ExitSeen, Kill, PiDies
    <3> QED
      BY <2>1, <2>6, <3>1, <3>2 DEF EndStep
  <2>7. ASSUME NEW i \in Recoveries, RecoveryWakes(i) \/ RecoveryEnds(i) PROVE FALSE
    BY <1>0, <2>7 DEF RecoveryWakes, RecoveryEnds, Actors, NoRecovery
  <2>8. ASSUME NEW a \in Agents, Flights(a) PROVE LifeOf(p)'
    BY <1>2, <2>8, LifeOfFlight
  <2>9. ASSUME NEW a \in Agents, OpStep(a) PROVE LifeOf(p)'
    BY <1>2, <2>9, LifeOfOp
  <2>10. ASSUME NEW a \in Agents, UserStep(a) PROVE LifeOf(p)'
    BY <2>1, <2>10 DEF UserStep, RespondToExtensionUi, Abort, Write, UserUnchanged, rpcVars
  <2> QED
    BY <2>2, <2>3, <2>4, <2>5, <2>6, <2>7, <2>8, <2>9, <2>10, ChildSteps, ManagerSteps
<1> QED
  BY <1>1, <1>2

-----------------------------------------------------------------------------
(* What the calls on the lease file are for.                               *)

(* A step on the file changes neither what a call is for nor whether its   *)
(* slot is taken.                                                          *)
LEMMA LeaseStepEffect ==
    ASSUME LeaseTypes, NEW c \in Calls, LeaseStep(c)
    PROVE  \A d \in Calls : /\ call'[d].agent = call[d].agent /\ call'[d].op = call[d].op
                            /\ SlotIdle(d)' <=> SlotIdle(d)
<1>0. call \in [Calls -> CallStates]
  BY DEF LeaseTypes, LeaseTypeOK
<1>1. ASSUME NEW pc, pc # "idle", call[c].pc # "idle",
             Goto(c, pc) \/ \E lease : GotoWith(c, pc, lease)
      PROVE  \A d \in Calls : /\ call'[d].agent = call[d].agent /\ call'[d].op = call[d].op
                              /\ SlotIdle(d)' <=> SlotIdle(d)
  BY <1>0, <1>1 DEF Goto, GotoWith, CallStates, SlotIdle
<1>2. CASE Unlink(c)
  <2>1. \A d \in Calls : /\ call'[d].agent = call[d].agent /\ call'[d].op = call[d].op
                         /\ call'[d].pc = "idle" <=> call[d].pc = "idle"
    BY <1>0, <1>2 DEF Unlink, At, CallStates
  <2> QED
    BY <2>1 DEF SlotIdle
<1>3. CASE ReadAbsent(c) \/ ReadForeign(c) \/ ReadOwn(c) \/ ReadForClear(c)
  <2>1. \E pc : /\ pc # "idle" /\ call[c].pc # "idle"
                /\ Goto(c, pc) \/ \E lease : GotoWith(c, pc, lease)
    <3>1. call[c].pc # "idle"
      BY <1>3 DEF ReadAbsent, ReadForeign, ReadOwn, ReadForClear, Reads, At
    <3>2. CASE ReadAbsent(c)
      BY <3>1, <3>2 DEF ReadAbsent
    <3>3. CASE ReadForeign(c)
      BY <3>1, <3>3 DEF ReadForeign
    <3>4. CASE ReadOwn(c)
      BY <3>1, <3>4 DEF ReadOwn
    <3>5. CASE ReadForClear(c)
      BY <3>1, <3>5 DEF ReadForClear
    <3> QED
      BY <1>3, <3>2, <3>3, <3>4, <3>5
  <2> QED
    BY <1>1, <2>1
<1> QED
  BY <1>1, <1>2, <1>3
     DEF LeaseStep, OpenNew, OpenExisting, ReadTorn, Truncate, Fill, FillLost, At

LEMMA BeginEffect ==
    ASSUME LeaseTypes, NEW c \in Calls, NEW kind, NEW a, Begin(c, kind, a, App)
    PROVE  /\ SlotIdle(c) /\ ~SlotIdle(c)' /\ call'[c].op = kind /\ call'[c].agent = a
           /\ call'[c].pc = IF kind = "acquire" THEN "open" ELSE "read"
           /\ \A d \in Calls : d # c => call'[d] = call[d] /\ (SlotIdle(d)' <=> SlotIdle(d))
           /\ UNCHANGED <<file, up>>
<1>1. call'[c] = [op |-> kind, pc |-> IF kind = "acquire" THEN "open" ELSE "read",
                  agent |-> a, app |-> App, seen |-> Absent]
  BY DEF LeaseTypes, LeaseTypeOK, Begin
<1>2. \A d \in Calls : d # c => call'[d] = call[d]
  BY DEF LeaseTypes, LeaseTypeOK, Begin
<1>3. call'[c].pc = IF kind = "acquire" THEN "open" ELSE "read"
  BY <1>1
<1>4. call'[c].pc # "idle"
  BY <1>3
<1> QED
  BY <1>1, <1>2, <1>3, <1>4 DEF SlotIdle, Begin, At

LEMMA ReturnEffect ==
    ASSUME LeaseTypes, NEW c \in Calls, Return(c)
    PROVE  /\ ~SlotIdle(c) /\ SlotIdle(c)' /\ call'[c] = IdleCall
           /\ \A d \in Calls : d # c => call'[d] = call[d] /\ (SlotIdle(d)' <=> SlotIdle(d))
           /\ UNCHANGED <<file, up>>
BY DEF LeaseTypes, LeaseTypeOK, Return, SlotIdle, IdleCall, Final

(* The call of a prompt is there while the prompt waits for it.            *)
LEMMA RequestSlotsKept ==
    ASSUME ManagerInv, RequestSlots, Next
    PROVE  RequestSlots'
<1>0. OwnTypes /\ LeaseTypes /\ prompt \in [Requests -> PromptStates]
  BY InvTypes DEF OwnTypes
<1>1. ASSUME \A m \in Requests : /\ call'[m] = call[m]
                                 /\ prompt[m].pc \in {"lease", "release"} => prompt'[m] = prompt[m]
      PROVE  RequestSlots'
  BY <1>0, <1>1 DEF RequestSlots
<1>2. ASSUME NEW c \in Calls, LeaseWorks(c) PROVE RequestSlots'
  BY <1>0, <1>2, LeaseStepEffect, Slotted DEF LeaseWorks, managerVars, RequestSlots, SlotIdle
<1>3. ASSUME NEW c \in Calls, VoidReturns(c) PROVE RequestSlots'
  <2>1. c \notin Requests
    BY <1>3, ManagerAssumption DEF VoidReturns
  <2> QED
    BY <1>0, <1>1, <1>3, <2>1, ReturnEffect, Slotted DEF VoidReturns, managerVars
<1>4. ASSUME NEW m \in Requests, \A n \in Requests : n # m => prompt'[n] = prompt[n] /\ call'[n] = call[n],
             \/ SlotIdle(m)'
             \/ /\ prompt'[m].pc \in {"lease", "release"} /\ call'[m].agent = prompt'[m].agent
                /\ call'[m].op = IF prompt'[m].pc = "lease" THEN "acquire" ELSE "release"
      PROVE  RequestSlots'
  BY <1>0, <1>4 DEF RequestSlots, SlotIdle
<1>5. ASSUME NEW m \in Requests, Prompting(m) PROVE RequestSlots'
  <2>0. m \in Calls /\ \A n \in Requests : n \in Calls
    BY Slotted
  <2>1. CASE PromptLeased(m) \/ PromptReleased(m)
    BY <1>0, <1>4, <2>0, <2>1, ReturnEffect, SetPromptEffect DEF PromptLeased, PromptReleased
  <2>2. CASE PromptCatches(m)
    <3>1. PICK pc : SetPrompt(m, pc)
      BY <2>2 DEF PromptCatches
    <3>2. /\ \A n \in Requests : n # m => prompt'[n] = prompt[n]
          /\ prompt'[m].agent = prompt[m].agent
      BY <1>0, <3>1, SetPromptEffect
    <3>3. CASE prompt[m].agent \in Writers
      <4>1. Begin(m, "release", prompt[m].agent, App) /\ SetPrompt(m, "release")
        BY <2>2, <3>3 DEF PromptCatches
      <4>2. prompt'[m].pc = "release"
        BY <1>0, <4>1, SetPromptEffect
      <4> QED
        BY <1>0, <1>4, <2>0, <3>2, <4>1, <4>2, BeginEffect
    <3>4. CASE prompt[m].agent \notin Writers
      <4>1. call' = call /\ SlotIdle(m)
        BY <1>0, <2>2, <3>4 DEF PromptCatches, leaseVars, RequestSlots, SlotIdle
      <4> QED
        BY <1>4, <3>2, <4>1 DEF SlotIdle
    <3> QED
      BY <3>3, <3>4
  <2>3. CASE PromptEnsures(m)
    <3>1. call' = call /\ SlotIdle(m)
      BY <1>0, <2>3 DEF PromptEnsures, leaseVars, RequestSlots, SlotIdle
    <3>2. \A n \in Requests : n # m => prompt'[n] = prompt[n]
      BY <1>0, <2>3 DEF PromptEnsures, SetPrompt
    <3> QED
      BY <1>4, <3>1, <3>2 DEF SlotIdle
  <2>4. CASE PromptMarks(m) \/ PromptSends(m) \/ PromptReturns(m)
    <3>1. call' = call /\ SlotIdle(m)
      BY <1>0, <2>4 DEF PromptMarks, PromptSends, PromptReturns, leaseVars, RequestSlots, SlotIdle
    <3>2. \A n \in Requests : n # m => prompt'[n] = prompt[n]
      BY <1>0, <2>4, SetPromptEffect DEF PromptMarks, PromptSends, PromptReturns
    <3> QED
      BY <1>4, <3>1, <3>2 DEF SlotIdle
  <2> QED
    BY <1>5, <2>1, <2>2, <2>3, <2>4 DEF Prompting
<1>6. ASSUME NEW m \in Requests, NEW a \in Agents, PromptStarts(m, a) PROVE RequestSlots'
  <2>0. m \in Calls /\ \A n \in Requests : n \in Calls
    BY Slotted
  <2>1. /\ \A n \in Requests : n # m => prompt'[n] = prompt[n]
        /\ prompt'[m].agent = a /\ prompt'[m].pc = IF a \in Writers THEN "lease" ELSE "ensure"
    BY <1>0, <1>6 DEF PromptStarts, PromptStates
  <2>2. CASE a \in Writers
    <3>1. Begin(m, "acquire", a, App) /\ prompt'[m].pc = "lease"
      BY <1>6, <2>1, <2>2 DEF PromptStarts
    <3> QED
      BY <1>0, <1>4, <2>0, <2>1, <3>1, BeginEffect
  <2>3. CASE a \notin Writers
    <3>1. call' = call /\ SlotIdle(m)
      BY <1>0, <1>6, <2>3 DEF PromptStarts, leaseVars, RequestSlots, SlotIdle
    <3> QED
      BY <1>4, <2>1, <3>1 DEF SlotIdle
  <2> QED
    BY <2>2, <2>3
<1>7. ASSUME NEW p \in Procs, ChildStep(p) PROVE RequestSlots'
  BY <1>1, <1>7 DEF ChildStep, PiWorks, PiFaults, leaseVars, managerVars
<1>8. ASSUME NEW p \in Procs, Events(p) PROVE RequestSlots'
  <2>1. prompt' = prompt
    BY <1>8 DEF Events, OnTurnStart, OnUiRequest, OnSettled, OnExit, OnLine, EventUnchanged, managerVars
  <2>2. \/ call' = call
        \/ \E a \in Writers, kind \in Ops : Begin(Beat(a), kind, a, App) \/ Begin(Free(a), kind, a, App)
    BY <1>8 DEF Events, OnTurnStart, OnUiRequest, OnSettled, OnExit, OnLine, VoidRelease, leaseVars, Ops
  <2>3. \A m \in Requests : call'[m] = call[m]
    BY <1>0, <2>2, BeginEffect, Slotted
  <2> QED
    BY <1>1, <2>1, <2>3
<1>9. ASSUME NEW i \in Recoveries, RecoveryWakes(i) \/ RecoveryEnds(i) PROVE RequestSlots'
  BY <1>1, <1>9 DEF RecoveryWakes, RecoveryEnds, RecoveryUnchanged, leaseVars
<1>10. ASSUME NEW a \in Agents, Flights(a) PROVE RequestSlots'
  <2>1. call' = call
    BY <1>10 DEF Flights, FlightSpawns, HandshakeDone, HistoryDone, FlightFails, FlightStopped, leaseVars
  <2>2. \/ prompt' = prompt
        \/ \E pc, p : FlightEnds(a, pc, p)
    BY <1>10 DEF Flights, FlightSpawns, HandshakeDone, HistoryDone, FlightFails, FlightStopped
  <2>3. \A m \in Requests : prompt[m].pc \in {"lease", "release"} => prompt'[m] = prompt[m]
    BY <1>0, <2>2, FlightEndsEffect
  <2> QED
    BY <1>1, <2>1, <2>3
<1>11. ASSUME NEW a \in Agents, OpStep(a) PROVE RequestSlots'
  <2>1. prompt' = prompt
    BY <1>11 DEF OpStep, Activate, OpStarts, OpBegins, Operations, OpStopped, OpReleased, OpEnsures,
                 OpEnds, ActivateLooks, ActivateEnds, OpUnchanged
  <2>2. \/ call' = call
        \/ a \in Writers /\ (Begin(OpSlot(a), "release", a, App) \/ Return(OpSlot(a)))
    BY <1>11 DEF OpStep, Activate, OpStarts, OpBegins, Operations, OpStopped, OpReleased, OpEnsures,
                 OpEnds, ActivateLooks, ActivateEnds, leaseVars
  <2>3. \A m \in Requests : call'[m] = call[m]
    BY <1>0, <2>2, BeginEffect, ReturnEffect, Slotted
  <2> QED
    BY <1>1, <2>1, <2>3
<1>12. ASSUME NEW a \in Agents, UserStep(a) PROVE RequestSlots'
  BY <1>1, <1>12 DEF UserStep, RespondToExtensionUi, Abort, UserUnchanged, leaseVars
<1> QED
  BY <1>2, <1>3, <1>5, <1>6, <1>7, <1>8, <1>9, <1>10, <1>11, <1>12, ManagerSteps
     DEF PromptStep

(* The steps, by the call they begin or end.                               *)
LEMMA CallSteps ==
    ASSUME Next
    PROVE  \/ \E c \in Calls : LeaseWorks(c) \/ VoidReturns(c)
           \/ \E m \in Requests, a \in Writers : PromptStarts(m, a) /\ Begin(m, "acquire", a, App)
           \/ \E m \in Requests : (PromptLeased(m) \/ PromptReleased(m)) /\ Return(m)
           \/ \E m \in Requests, a \in Writers :
                 PromptCatches(m) /\ prompt[m].agent = a /\ Begin(m, "release", a, App)
           \/ \E p \in Procs, a \in Writers :
                 OnTurnStart(p) /\ owner[p] = a /\ Begin(Beat(a), "heartbeat", a, App)
           \/ \E p \in Procs, a \in Writers :
                 (OnSettled(p) \/ OnExit(p)) /\ owner[p] = a /\ Begin(Free(a), "release", a, App)
           \/ \E a \in Writers : OpStopped(a) /\ Begin(OpSlot(a), "release", a, App)
           \/ \E a \in Writers : OpReleased(a) /\ Return(OpSlot(a))
           \/ UNCHANGED leaseVars
<1>1. ASSUME NEW m \in Requests, Prompting(m)
      PROVE  \/ (PromptLeased(m) \/ PromptReleased(m)) /\ Return(m)
             \/ \E a \in Writers : PromptCatches(m) /\ prompt[m].agent = a /\ Begin(m, "release", a, App)
             \/ UNCHANGED leaseVars
  BY <1>1 DEF Prompting, PromptLeased, PromptEnsures, PromptMarks, PromptSends, PromptReturns,
              PromptCatches, PromptReleased
<1>2. ASSUME NEW m \in Requests, NEW a \in Agents, PromptStarts(m, a)
      PROVE  (a \in Writers /\ Begin(m, "acquire", a, App)) \/ UNCHANGED leaseVars
  BY <1>2 DEF PromptStarts
<1>3. ASSUME NEW p \in Procs, ChildStep(p) PROVE UNCHANGED leaseVars
  BY <1>3 DEF ChildStep, PiWorks, PiFaults
<1>4. ASSUME NEW p \in Procs, Events(p)
      PROVE  \/ \E a \in Writers :
                    \/ OnTurnStart(p) /\ owner[p] = a /\ Begin(Beat(a), "heartbeat", a, App)
                    \/ (OnSettled(p) \/ OnExit(p)) /\ owner[p] = a /\ Begin(Free(a), "release", a, App)
             \/ UNCHANGED leaseVars
  BY <1>4 DEF Events, OnTurnStart, OnUiRequest, OnSettled, OnExit, OnLine, VoidRelease
<1>5. ASSUME NEW i \in Recoveries, RecoveryWakes(i) \/ RecoveryEnds(i) PROVE UNCHANGED leaseVars
  BY <1>5 DEF RecoveryWakes, RecoveryEnds, RecoveryUnchanged
<1>6. ASSUME NEW a \in Agents, Flights(a) PROVE UNCHANGED leaseVars
  BY <1>6 DEF Flights, FlightSpawns, HandshakeDone, HistoryDone, FlightFails, FlightStopped
<1>7. ASSUME NEW a \in Agents, OpStep(a)
      PROVE  \/ a \in Writers /\ OpStopped(a) /\ Begin(OpSlot(a), "release", a, App)
             \/ a \in Writers /\ OpReleased(a) /\ Return(OpSlot(a))
             \/ UNCHANGED leaseVars
  BY <1>7 DEF OpStep, Activate, OpStarts, OpBegins, Operations, OpStopped, OpReleased, OpEnsures,
              OpEnds, ActivateLooks, ActivateEnds
<1>8. ASSUME NEW a \in Agents, UserStep(a) PROVE UNCHANGED leaseVars
  BY <1>8 DEF UserStep, RespondToExtensionUi, Abort, UserUnchanged
<1> QED
  BY <1>1, <1>2, <1>3, <1>4, <1>5, <1>6, <1>7, <1>8, ManagerSteps DEF PromptStep

(* An operation that releases the lease stays until its call has returned. *)
LEMMA OpReleaseStays ==
    ASSUME ManagerInv, Next, NEW a \in Agents, op[a].pc = "release"
    PROVE  op'[a] = op[a] \/ OpReleased(a)
<1>0. OwnTypes
  BY InvTypes
<1>1. ASSUME NEW b \in Agents, Flights(b) PROVE op'[a] = op[a]
  BY <1>0, <1>1, FlightEndsEffect
     DEF Flights, FlightSpawns, HandshakeDone, HistoryDone, FlightFails, FlightStopped
<1>2. ASSUME NEW b \in Agents, OpStep(b) PROVE op'[a] = op[a] \/ OpReleased(a)
  <2>1. CASE b # a
    BY <1>0, <1>2, <2>1
       DEF OpStep, Activate, OpStarts, OpBegins, Operations, OpStopped, OpReleased, OpEnsures,
           OpEnds, ActivateLooks, ActivateEnds, OpSets, OwnTypes
  <2>2. CASE b = a
    BY <1>2, <2>2
       DEF OpStep, Activate, OpStarts, OpBegins, Operations, OpStopped, OpEnsures,
           OpEnds, ActivateLooks, ActivateEnds, NoOp
  <2> QED
    BY <2>1, <2>2
<1> QED
  BY <1>1, <1>2, OpSteps

LEMMA AgentSlotsKept ==
    ASSUME ManagerInv, AgentSlots, Next
    PROVE  AgentSlots'
<1>0. OwnTypes /\ LeaseTypes
  BY InvTypes
<1> SUFFICES ASSUME NEW a \in Writers
             PROVE  /\ ~SlotIdle(Beat(a))' => call'[Beat(a)].op = "heartbeat" /\ call'[Beat(a)].agent = a
                    /\ ~SlotIdle(Free(a))' => call'[Free(a)].op = "release" /\ call'[Free(a)].agent = a
                    /\ ~SlotIdle(OpSlot(a))' =>
                          /\ call'[OpSlot(a)].op = "release" /\ call'[OpSlot(a)].agent = a
                          /\ op'[a].pc = "release"
  BY DEF AgentSlots, SlotIdle
<1>1. /\ a \in Agents /\ Beat(a) \in Calls /\ Free(a) \in Calls /\ OpSlot(a) \in Calls
      /\ Beat(a) # Free(a) /\ Beat(a) # OpSlot(a) /\ Free(a) # OpSlot(a)
      /\ \A m \in Requests : m \in Calls /\ m # Beat(a) /\ m # Free(a) /\ m # OpSlot(a)
      /\ \A b \in Writers : /\ Beat(b) \in Calls /\ Free(b) \in Calls /\ OpSlot(b) \in Calls
                            /\ Beat(b) # Free(a) /\ Beat(b) # OpSlot(a)
                            /\ Free(b) # Beat(a) /\ Free(b) # OpSlot(a)
                            /\ OpSlot(b) # Beat(a) /\ OpSlot(b) # Free(a)
                            /\ b # a => Beat(b) # Beat(a) /\ Free(b) # Free(a) /\ OpSlot(b) # OpSlot(a)
  BY Slotted
<1>2. /\ ~SlotIdle(Beat(a)) => call[Beat(a)].op = "heartbeat" /\ call[Beat(a)].agent = a
      /\ ~SlotIdle(Free(a)) => call[Free(a)].op = "release" /\ call[Free(a)].agent = a
      /\ ~SlotIdle(OpSlot(a)) =>
            /\ call[OpSlot(a)].op = "release" /\ call[OpSlot(a)].agent = a /\ op[a].pc = "release"
  BY <1>0 DEF AgentSlots, SlotIdle
<1> DEFINE Kept(c) == /\ call'[c].agent = call[c].agent /\ call'[c].op = call[c].op
                      /\ SlotIdle(c)' <=> SlotIdle(c)
<1>3. ASSUME Kept(OpSlot(a)), ~SlotIdle(OpSlot(a)) PROVE op'[a].pc = "release"
  <2>1. CASE OpReleased(a)
    BY <1>0, <1>1, <1>3, <2>1, ReturnEffect DEF OpReleased
  <2> QED
    BY <1>0, <1>1, <1>2, <1>3, <2>1, OpReleaseStays
<1>4. ASSUME Kept(Beat(a)), Kept(Free(a)), Kept(OpSlot(a))
      PROVE  /\ ~SlotIdle(Beat(a))' => call'[Beat(a)].op = "heartbeat" /\ call'[Beat(a)].agent = a
             /\ ~SlotIdle(Free(a))' => call'[Free(a)].op = "release" /\ call'[Free(a)].agent = a
             /\ ~SlotIdle(OpSlot(a))' =>
                   /\ call'[OpSlot(a)].op = "release" /\ call'[OpSlot(a)].agent = a
                   /\ op'[a].pc = "release"
  BY <1>2, <1>3, <1>4
<1>5. ASSUME NEW c \in Calls, LeaseWorks(c) \/ VoidReturns(c)
      PROVE  \A d \in Calls : Kept(d) \/ SlotIdle(d)'
  BY <1>0, <1>5, LeaseStepEffect, ReturnEffect DEF LeaseWorks, VoidReturns
<1>6. ASSUME NEW m \in Requests, NEW kind, NEW b, Begin(m, kind, b, App) \/ Return(m)
      PROVE  Kept(Beat(a)) /\ Kept(Free(a)) /\ Kept(OpSlot(a))
  BY <1>0, <1>1, <1>6, BeginEffect, ReturnEffect
<1>7. UNCHANGED leaseVars => Kept(Beat(a)) /\ Kept(Free(a)) /\ Kept(OpSlot(a))
  BY DEF leaseVars, SlotIdle
<1>8. ASSUME NEW b \in Writers, Begin(Beat(b), "heartbeat", b, App)
      PROVE  /\ Kept(Free(a)) /\ Kept(OpSlot(a))
             /\ Kept(Beat(a)) \/ (call'[Beat(a)].op = "heartbeat" /\ call'[Beat(a)].agent = a)
  <2>1. CASE b = a
    BY <1>0, <1>1, <1>8, <2>1, BeginEffect
  <2>2. CASE b # a
    BY <1>0, <1>1, <1>8, <2>2, BeginEffect
  <2> QED
    BY <2>1, <2>2
<1>9. ASSUME NEW b \in Writers, Begin(Free(b), "release", b, App)
      PROVE  /\ Kept(Beat(a)) /\ Kept(OpSlot(a))
             /\ Kept(Free(a)) \/ (call'[Free(a)].op = "release" /\ call'[Free(a)].agent = a)
  <2>1. CASE b = a
    BY <1>0, <1>1, <1>9, <2>1, BeginEffect
  <2>2. CASE b # a
    BY <1>0, <1>1, <1>9, <2>2, BeginEffect
  <2> QED
    BY <2>1, <2>2
<1>10. ASSUME NEW b \in Writers, OpStopped(b), Begin(OpSlot(b), "release", b, App)
       PROVE  /\ Kept(Beat(a)) /\ Kept(Free(a))
              /\ \/ Kept(OpSlot(a))
                 \/ /\ call'[OpSlot(a)].op = "release" /\ call'[OpSlot(a)].agent = a
                    /\ op'[a].pc = "release"
  <2>1. CASE b # a
    BY <1>0, <1>1, <1>10, <2>1, BeginEffect
  <2>2. CASE b = a
    <3>1. op'[a].pc = "release"
      BY <1>0, <1>1, <1>10, <2>2 DEF OpStopped, OwnTypes, OpStates
    <3> QED
      BY <1>0, <1>1, <1>10, <2>2, <3>1, BeginEffect
  <2> QED
    BY <2>1, <2>2
<1>11. ASSUME NEW b \in Writers, Return(OpSlot(b))
       PROVE  Kept(Beat(a)) /\ Kept(Free(a)) /\ (Kept(OpSlot(a)) \/ SlotIdle(OpSlot(a))')
  BY <1>0, <1>1, <1>11, ReturnEffect
<1> HIDE DEF Kept
<1>12. /\ Kept(Beat(a)) \/ SlotIdle(Beat(a))' \/ (call'[Beat(a)].op = "heartbeat" /\ call'[Beat(a)].agent = a)
       /\ Kept(Free(a)) \/ SlotIdle(Free(a))' \/ (call'[Free(a)].op = "release" /\ call'[Free(a)].agent = a)
       /\ \/ Kept(OpSlot(a)) \/ SlotIdle(OpSlot(a))'
          \/ call'[OpSlot(a)].op = "release" /\ call'[OpSlot(a)].agent = a /\ op'[a].pc = "release"
  BY <1>1, <1>5, <1>6, <1>7, <1>8, <1>9, <1>10, <1>11, CallSteps
<1> QED
  BY <1>2, <1>3, <1>12 DEF Kept

(* A prompt that came through stays so.                                    *)
LEMMA ThroughKept ==
    ASSUME ManagerInv, Next, NEW m \in Requests, Through(m)
    PROVE  Through(m)' /\ prompt'[m].agent = prompt[m].agent
<1>0. OwnTypes /\ RpcInv
  BY InvTypes
<1>1. result[m] = "answered" => result'[m] = "answered"
  BY <1>0, Transports, TransportSettles DEF Settled
<1>2. ASSUME prompt'[m] = prompt[m] PROVE Through(m)' /\ prompt'[m].agent = prompt[m].agent
  BY <1>1, <1>2 DEF Through
<1>3. ASSUME NEW n \in Requests, PromptStep(n)
      PROVE  Through(m)' /\ prompt'[m].agent = prompt[m].agent
  <2>1. CASE n # m
    <3>1. prompt'[m] = prompt[m]
      BY <1>0, <1>3, <2>1, OthersStay
    <3> QED
      BY <1>2, <3>1
  <2>2. CASE n = m
    <3>1. PromptReturns(m)
      BY <1>3, <2>2
         DEF Through, PromptStep, Prompting, PromptStarts, PromptLeased, PromptEnsures, PromptMarks,
             PromptSends, PromptCatches, PromptReleased, Settled
    <3>2. prompt'[m].pc = "done" /\ prompt'[m].agent = prompt[m].agent
      BY <1>0, <3>1, SetPromptEffect DEF PromptReturns
    <3> QED
      BY <3>2 DEF Through
  <2> QED
    BY <2>1, <2>2
<1>4. ASSUME NEW a \in Agents, Flights(a) PROVE prompt'[m] = prompt[m]
  <2>1. ASSUME NEW pc, NEW p, FlightEnds(a, pc, p) PROVE prompt'[m] = prompt[m]
    BY <1>0, <2>1, FlightEndsEffect DEF Through
  <2> QED
    BY <1>4, <2>1 DEF Flights, FlightSpawns, HandshakeDone, HistoryDone, FlightFails, FlightStopped
<1> QED
  BY <1>2, <1>3, <1>4, PromptSteps

(* The exit of a child that was stopped begins no call.                    *)
LEMMA ExitStays ==
    ASSUME UserWaits, CoverInv, NEW p \in Procs, OnExit(p)
    PROVE  UNCHANGED leaseVars
BY DEF CoverInv, Hold, OnExit, ExitSeen, Writable

(* A heartbeat or a release that an event started: the run of the agent is *)
(* not, or no longer, awaited.                                             *)
LEMMA EventCallsKept ==
    ASSUME UserWaits, CoverInv, Next
    PROVE  EventCalls'
<1>0. /\ ManagerInv /\ RpcInv /\ Pipes /\ Lives /\ Awaited /\ EventCalls /\ AgentSlots /\ OwnTypes /\ LeaseTypes
      /\ stdout \in [Procs -> Seq(Lines)] /\ pending \in [Procs -> SUBSET Requests]
  BY InvTypes DEF CoverInv, RpcInv, RpcTypeOK
<1> SUFFICES ASSUME NEW a \in Writers
             PROVE  /\ ~SlotIdle(Beat(a))' \/ ~SlotIdle(Free(a))' =>
                          op'[a] = NoOp /\ \A m \in Requests : prompt'[m].agent = a => Through(m)'
                    /\ SlotIdle(Beat(a))' \/ SlotIdle(Free(a))'
                    /\ ~SlotIdle(Free(a))' => \A p \in Procs : owner'[p] = a => ~Live(p)'
  BY DEF EventCalls
<1>1. /\ a \in Agents /\ Beat(a) \in Calls /\ Free(a) \in Calls /\ Beat(a) # Free(a)
      /\ \A m \in Requests : m \in Calls /\ m # Beat(a) /\ m # Free(a)
      /\ \A b \in Writers : /\ Beat(b) \in Calls /\ Free(b) \in Calls /\ OpSlot(b) \in Calls
                            /\ Beat(b) # Free(a) /\ Free(b) # Beat(a)
                            /\ OpSlot(b) # Beat(a) /\ OpSlot(b) # Free(a)
                            /\ b # a => Beat(b) # Beat(a) /\ Free(b) # Free(a)
  BY Slotted
(* When the handling of an event of a process of the agent begins a call.  *)
<1>2. ASSUME NEW p \in Procs, owner[p] = a, LineStep(p), ~OnResponse(p),
             call'[Beat(a)] # call[Beat(a)] \/ call'[Free(a)] # call[Free(a)]
      PROVE  op'[a] = NoOp /\ \A m \in Requests : prompt'[m].agent = a => Through(m)'
  <2>1. \E kind \in Kinds : TakeEvent(p, kind)
    BY <1>2 DEF LineStep, OnTurnStart, OnUiRequest, OnSettled, OnLine, Kinds
  <2>2. Live(p) /\ pending[p] = {} /\ result' = result
    BY <1>0, <1>2, <2>1, LinePipes DEF TakeEvent, HasLine, Live
  <2>3. op[a] = NoOp /\ \A m \in Requests : prompt[m].agent = a => Through(m)
    BY <1>0, <1>2, <2>2 DEF Lives, LifeOf
  <2>4. UNCHANGED <<op, prompt>>
    BY <1>2 DEF LineStep, OnTurnStart, OnUiRequest, OnSettled, OnLine, EventUnchanged
  <2> QED
    BY <2>2, <2>3, <2>4 DEF Through
(* While a call goes on that was begun before.                             *)
<1>3. ASSUME ~SlotIdle(Beat(a)) \/ ~SlotIdle(Free(a))
      PROVE  op'[a] = NoOp /\ \A m \in Requests : prompt'[m].agent = a => Through(m)'
  <2>1. op[a] = NoOp /\ \A m \in Requests : prompt[m].agent = a => Through(m)
    BY <1>0, <1>3 DEF EventCalls
  <2>2. ~Quiet(a)
    BY <1>3 DEF Quiet
  <2>3. op'[a] = op[a]
    <3>1. ASSUME NEW b \in Agents, Flights(b) PROVE op'[a] = op[a]
      BY <1>0, <1>1, <2>1, <3>1, FlightEndsEffect
         DEF Flights, FlightSpawns, HandshakeDone, HistoryDone, FlightFails, FlightStopped, NoOp
    <3>2. ASSUME NEW b \in Agents, OpStep(b) PROVE op'[a] = op[a]
      <4>1. CASE b # a
        BY <1>0, <1>1, <3>2, <4>1
           DEF OpStep, Activate, OpStarts, OpBegins, Operations, OpStopped, OpReleased, OpEnsures,
               OpEnds, ActivateLooks, ActivateEnds, OpSets, OwnTypes
      <4>2. b # a
        BY <2>1, <2>2, <3>2
           DEF OpStep, Activate, OpStarts, OpBegins, UserWaits, Operations, OpStopped, OpReleased,
               OpEnsures, OpEnds, ActivateLooks, ActivateEnds, NoOp
      <4> QED
        BY <4>1, <4>2
    <3> QED
      BY <3>1, <3>2, OpSteps
  <2>4. ASSUME NEW m \in Requests, prompt'[m].agent = a PROVE Through(m)'
    <3>1. prompt[m].agent = a
      <4>1. ASSUME NEW b \in Agents, PromptStarts(m, b) PROVE FALSE
        <5>1. prompt'[m].agent = b
          BY <1>0, <4>1 DEF PromptStarts, OwnTypes, PromptStates
        <5> QED
          BY <2>2, <2>4, <4>1, <5>1 DEF PromptStarts, UserWaits
      <4> QED
        BY <1>0, <2>4, <4>1, AgentStays
    <3> QED
      BY <1>0, <2>1, <3>1, ThroughKept
  <2> QED
    BY <2>1, <2>3, <2>4
(* While a release goes on that was begun before, nothing starts.          *)
<1>4. ASSUME ~SlotIdle(Free(a)), NEW p \in Procs, owner'[p] = a, Live(p)' PROVE FALSE
  <2>1. /\ \A q \in Procs : owner[q] = a => ~Live(q)
        /\ \A m \in Requests : prompt[m].agent = a => Through(m)
    BY <1>0, <1>4 DEF EventCalls
  <2>2. CASE Live(p)
    <3>1. handle[p] = "open"
      BY <1>0, <2>2 DEF Lives, LifeOf
    <3>2. owner'[p] = owner[p]
      BY <1>0, <3>1, SentStays
    <3> QED
      BY <1>4, <2>1, <2>2, <3>2
  <2>3. CASE ~Live(p)
    <3>1. PICK m \in Requests : SendStep(m) /\ p = prompt[m].proc /\ prompt[m].agent = owner[p]
      BY <1>4, <2>3, LiveBefore
    <3>2. owner' = owner /\ prompt[m].pc = "send"
      BY <3>1 DEF SendStep, PromptSends, PromptUnchanged
    <3> QED
      BY <1>4, <2>1, <3>1, <3>2 DEF Through
  <2> QED
    BY <2>2, <2>3
<1>5. ASSUME SlotIdle(Beat(a)) => SlotIdle(Beat(a))', SlotIdle(Free(a)) => SlotIdle(Free(a))'
      PROVE  /\ ~SlotIdle(Beat(a))' \/ ~SlotIdle(Free(a))' =>
                   op'[a] = NoOp /\ \A m \in Requests : prompt'[m].agent = a => Through(m)'
             /\ SlotIdle(Beat(a))' \/ SlotIdle(Free(a))'
             /\ ~SlotIdle(Free(a))' => \A p \in Procs : owner'[p] = a => ~Live(p)'
  BY <1>0, <1>3, <1>4, <1>5 DEF EventCalls
<1>6. ASSUME NEW c \in Calls, LeaseWorks(c) \/ VoidReturns(c)
      PROVE  \A d \in Calls : SlotIdle(d) => SlotIdle(d)'
  BY <1>0, <1>6, LeaseStepEffect, ReturnEffect DEF LeaseWorks, VoidReturns
<1>7. ASSUME NEW c \in Calls, c # Beat(a), c # Free(a), NEW kind, NEW b,
             Begin(c, kind, b, App) \/ Return(c)
      PROVE  (SlotIdle(Beat(a)) => SlotIdle(Beat(a))') /\ (SlotIdle(Free(a)) => SlotIdle(Free(a))')
  BY <1>0, <1>1, <1>7, BeginEffect, ReturnEffect
<1>8. UNCHANGED leaseVars =>
          (SlotIdle(Beat(a)) => SlotIdle(Beat(a))') /\ (SlotIdle(Free(a)) => SlotIdle(Free(a))')
  BY DEF leaseVars, SlotIdle
<1>9. ASSUME NEW p \in Procs, OnTurnStart(p), owner[p] = a, Begin(Beat(a), "heartbeat", a, App)
      PROVE  /\ op'[a] = NoOp /\ \A m \in Requests : prompt'[m].agent = a => Through(m)'
             /\ SlotIdle(Free(a))'
  <2>1. SlotIdle(Free(a)) /\ SlotIdle(Free(a))' /\ SlotIdle(Beat(a)) /\ ~SlotIdle(Beat(a))'
    <3>1. SlotIdle(Free(a))
      BY <1>0, <1>1, <1>9 DEF OnTurnStart, ReleasesOver, UserWaits, AgentSlots, SlotIdle
    <3> QED
      BY <1>0, <1>1, <1>9, <3>1, BeginEffect
  <2>2. call'[Beat(a)] # call[Beat(a)]
    BY <2>1 DEF SlotIdle
  <2>3. LineStep(p) /\ ~OnResponse(p)
    BY <1>9 DEF LineStep, OnTurnStart, OnResponse, TakeEvent, HasLine
  <2> QED
    BY <1>2, <1>9, <2>1, <2>2, <2>3
<1>10. ASSUME NEW p \in Procs, OnSettled(p), owner[p] = a, Begin(Free(a), "release", a, App)
       PROVE  /\ op'[a] = NoOp /\ \A m \in Requests : prompt'[m].agent = a => Through(m)'
              /\ SlotIdle(Beat(a))' /\ \A q \in Procs : owner'[q] = a => ~Live(q)'
  <2>1. SlotIdle(Beat(a)) /\ SlotIdle(Beat(a))' /\ SlotIdle(Free(a)) /\ ~SlotIdle(Free(a))'
    <3>1. SlotIdle(Beat(a))
      BY <1>10 DEF OnSettled, BeatsOver, UserWaits
    <3> QED
      BY <1>0, <1>1, <1>10, <3>1, BeginEffect
  <2>2. call'[Free(a)] # call[Free(a)]
    BY <2>1 DEF SlotIdle
  <2>3. LineStep(p) /\ ~OnResponse(p) /\ TakeEvent(p, "agent_settled") /\ owner' = owner
    BY <1>10 DEF LineStep, OnSettled, OnResponse, TakeEvent, HasLine, EventUnchanged
  <2>4. op'[a] = NoOp /\ \A m \in Requests : prompt'[m].agent = a => Through(m)'
    BY <1>2, <1>10, <2>2, <2>3
  <2>5. /\ stdout[p] # <<>> /\ 1 \in 1..Len(stdout[p]) /\ stdout[p][1].kind = "agent_settled"
        /\ Len(stdout[p]) \in Nat /\ stdout'[p] = Tail(stdout[p]) /\ running' = running
    BY <1>0, <2>3 DEF TakeEvent, HasLine
  <2>6. Len(stdout[p]) = 1 /\ p \notin running
    BY <1>0, <2>5 DEF Pipes, PipesOf
  <2>7. stdout'[p] = <<>>
    <3>1. Tail(stdout[p]) \in Seq(Lines) /\ Len(Tail(stdout[p])) = 0
      BY <1>0, <2>5, <2>6
    <3> QED
      BY <2>5, <3>1, EmptySeq
  <2>8. pending'[p] = {} /\ \A q \in Procs : q # p => stdout'[q] = stdout[q] /\ pending'[q] = pending[q]
    BY <1>0, <2>3, LinePipes DEF Kinds
  <2>9. ~Live(p)'
    BY <2>5, <2>6, <2>7, <2>8 DEF Live
  <2>10. \A q \in Procs : q # p /\ owner[q] = a => ~Live(q)
    BY <1>0, <1>10, <2>5, LiveOnce DEF Live
  <2>11. \A q \in Procs : q # p /\ owner[q] = a => ~Live(q)'
    BY <2>5, <2>8, <2>10 DEF Live
  <2> QED
    BY <2>1, <2>3, <2>4, <2>9, <2>11
<1>11. ASSUME NEW p \in Procs, NEW b \in Writers, owner[p] = b,
              \/ OnTurnStart(p) /\ Begin(Beat(b), "heartbeat", b, App)
              \/ OnSettled(p) /\ Begin(Free(b), "release", b, App)
       PROVE  /\ ~SlotIdle(Beat(a))' \/ ~SlotIdle(Free(a))' =>
                    op'[a] = NoOp /\ \A m \in Requests : prompt'[m].agent = a => Through(m)'
              /\ SlotIdle(Beat(a))' \/ SlotIdle(Free(a))'
              /\ ~SlotIdle(Free(a))' => \A q \in Procs : owner'[q] = a => ~Live(q)'
  <2>1. CASE b # a
    BY <1>1, <1>5, <1>7, <1>11, <2>1
  <2>2. CASE b = a
    BY <1>9, <1>10, <1>11, <2>2
  <2> QED
    BY <2>1, <2>2
<1> QED
  BY <1>1, <1>5, <1>6, <1>7, <1>8, <1>11, CallSteps, ExitStays

-----------------------------------------------------------------------------
(* The lease on disk.                                                      *)

(* One call at a time is under way for an agent.                           *)
LEMMA CallAlone ==
    ASSUME CoverInv, NEW c \in Calls, NEW d \in Calls, ~SlotIdle(c), ~SlotIdle(d),
           call[c].agent = call[d].agent
    PROVE  c = d
<1>0. Actors /\ RequestSlots /\ AgentSlots /\ EventCalls
  BY DEF CoverInv
<1>1. \A m \in Requests : ~SlotIdle(m) =>
          /\ Active(m) /\ ~Through(m) /\ call[m].agent = prompt[m].agent /\ op[prompt[m].agent] = NoOp
  BY <1>0 DEF RequestSlots, SlotIdle, Active, Through, Actors
<1>2. \A m, n \in Requests : ~SlotIdle(m) /\ ~SlotIdle(n) /\ call[m].agent = call[n].agent => m = n
  BY <1>0, <1>1 DEF Actors
<1>3. ASSUME NEW a \in Writers
      PROVE  /\ ~SlotIdle(Beat(a)) => call[Beat(a)].agent = a /\ SlotIdle(Free(a))
             /\ ~SlotIdle(Free(a)) => call[Free(a)].agent = a
             /\ ~SlotIdle(OpSlot(a)) => call[OpSlot(a)].agent = a /\ op[a] # NoOp
             /\ ~SlotIdle(Beat(a)) \/ ~SlotIdle(Free(a)) =>
                   op[a] = NoOp /\ \A m \in Requests : prompt[m].agent = a => Through(m)
  BY <1>0 DEF AgentSlots, EventCalls, SlotIdle, NoOp
<1>4. ASSUME NEW m \in Requests, NEW a \in Writers, NEW e \in {Beat(a), Free(a), OpSlot(a)},
             ~SlotIdle(m), ~SlotIdle(e), call[m].agent = call[e].agent
      PROVE  FALSE
  BY <1>1, <1>3, <1>4
<1>5. ASSUME NEW a \in Writers, NEW b \in Writers, NEW e \in {Beat(a), Free(a), OpSlot(a)},
             NEW f \in {Beat(b), Free(b), OpSlot(b)},
             ~SlotIdle(e), ~SlotIdle(f), call[e].agent = call[f].agent
      PROVE  e = f
  <2>1. call[e].agent = a /\ call[f].agent = b
    BY <1>3, <1>5
  <2>2. a = b
    BY <1>5, <2>1
  <2> QED
    BY <1>3, <1>5, <2>2
<1> QED
  BY <1>2, <1>4, <1>5, Slotted

(* A call of one step is another call's only if they are the same.         *)
LEMMA GotoEffect ==
    ASSUME LeaseTypes, NEW c \in Calls, NEW pc, NEW lease,
           Goto(c, pc) \/ GotoWith(c, pc, lease)
    PROVE  /\ call'[c].pc = pc /\ call'[c].agent = call[c].agent /\ call'[c].op = call[c].op
           /\ call'[c].app = call[c].app
           /\ GotoWith(c, pc, lease) => call'[c].seen = lease
           /\ Goto(c, pc) => call'[c].seen = call[c].seen
           /\ \A d \in Calls : d # c => call'[d] = call[d]
<1>0. call \in [Calls -> CallStates]
  BY DEF LeaseTypes, LeaseTypeOK
<1> QED
  BY <1>0 DEF Goto, GotoWith, CallStates

(* What a call at pc has to do with the file.                              *)
LeaseCall(c) ==
    /\ call[c].pc \in {"truncate", "unlink"} => file = Lease(call[c].agent, App)
    /\ call[c].pc = "truncate" => call[c].seen = file
    /\ call[c].pc = "unlink" => call[c].op = "release"
    /\ call[c].pc = "fill" => file = Torn /\ call[c].seen = Lease(call[c].agent, App)
    /\ call[c].pc # "lost"
    /\ call[c].op = "clear" => call[c].pc = "idle"

(* The lease that is read names its owner, the one main process.           *)
LEMMA LeaseRead ==
    ASSUME LeaseTypes, file.state = "lease"
    PROVE  file = Lease(file.holder, App) /\ file.holder \in Agents
<1>1. file \in Leases
  BY DEF LeaseTypes, LeaseTypeOK, Files, Absent, Torn
<1>2. PICK a \in Agents, p \in Apps : file = Lease(a, p)
  BY <1>1 DEF Leases
<1>3. p = App
  BY ManagerAssumption
<1> QED
  BY <1>2, <1>3 DEF Lease

LEMMA LeaseParts ==
    /\ \A a, p : /\ Lease(a, p).state = "lease" /\ Lease(a, p).holder = a
                 /\ Lease(a, p) # Torn /\ Lease(a, p) # Absent
    /\ Torn.state = "torn" /\ Absent.state = "absent" /\ Torn # Absent
<1>1. /\ Torn.state = "torn" /\ Absent.state = "absent"
      /\ \A a, p : Lease(a, p).state = "lease" /\ Lease(a, p).holder = a
  BY DEF Lease, Torn, Absent
<1> QED
  BY <1>1

(* The steps of a call that leave the file.                                *)
LEMMA LeaseStays ==
    ASSUME LeaseTypes, LeaseInv, NEW c \in Calls, file' = file, up' = up,
           \A d \in Calls : d # c => call'[d] = call[d],
           call[c].pc # "fill", LeaseCall(c)', call'[c].pc # "fill"
    PROVE  LeaseInv'
<1>1. \A d \in Calls : LeaseCall(d)'
  BY DEF LeaseInv, LeaseCall
<1>2. \A d \in Calls : At(d, "fill")' <=> At(d, "fill")
  BY DEF At
<1>3. file'.state = "torn" => \E d \in Calls : At(d, "fill")'
  BY <1>2 DEF LeaseInv
<1>4. \A d, e \in Calls : At(d, "fill")' /\ At(e, "fill")' => d = e
  BY <1>2 DEF LeaseInv
<1> QED
  BY <1>1, <1>3, <1>4 DEF LeaseInv, LeaseCall

(* Each step of a call on the file keeps it.                               *)
LEMMA LeaseStepKeeps ==
    ASSUME CoverInv, NEW c \in Calls, LeaseStep(c)
    PROVE  LeaseInv'
<1>0. LeaseTypes /\ LeaseInv /\ up = {App} /\ \A d \in Calls : LeaseCall(d)
  BY InvTypes DEF CoverInv, LeaseInv, LeaseCall
<1>1. ~SlotIdle(c) /\ call[c].agent \in Agents /\ call[c].app = App /\ call[c].op # "clear"
  <2>1. ~SlotIdle(c)
    BY DEF LeaseStep, OpenNew, OpenExisting, ReadTorn, ReadAbsent, ReadForeign, ReadOwn,
           ReadForClear, Reads, Truncate, Fill, FillLost, Unlink, At, SlotIdle
  <2> QED
    BY <1>0, <2>1, ManagerAssumption DEF LeaseTypes, LeaseCall, SlotIdle
<1>2. \A d \in Calls : ~SlotIdle(d) /\ call[d].agent = call[c].agent => d = c
  BY <1>1, CallAlone
<1>3. ASSUME NEW pc \in {"open", "read", "ok", "conflict", "error"}, Goto(c, pc), call[c].pc # "fill",
             file' = file, up' = up
      PROVE  LeaseInv'
  <2>1. /\ call'[c].pc = pc /\ call'[c].op = call[c].op /\ \A d \in Calls : d # c => call'[d] = call[d]
    BY <1>0, <1>3, GotoEffect
  <2>2. LeaseCall(c)'
    BY <1>1, <1>3, <2>1 DEF LeaseCall
  <2> QED
    BY <1>0, <1>3, <2>1, <2>2, LeaseStays
<1>4. CASE OpenExisting(c) \/ ReadTorn(c)
  BY <1>3, <1>4 DEF OpenExisting, ReadTorn, At
<1>5. CASE ReadAbsent(c)
  <2>1. PICK pc \in {"open", "ok"} : Goto(c, pc)
    BY <1>5 DEF ReadAbsent
  <2> QED
    BY <1>3, <1>5, <2>1 DEF ReadAbsent, At
<1>6. CASE ReadForeign(c)
  <2>1. PICK pc \in {"conflict", "ok"} : Goto(c, pc)
    BY <1>6 DEF ReadForeign
  <2> QED
    BY <1>3, <1>6, <2>1 DEF ReadForeign, Reads, At
<1>7. CASE ReadOwn(c)
  <2>1. file = Lease(call[c].agent, App) /\ file' = file /\ up' = up /\ call[c].pc = "read"
    BY <1>0, <1>7, LeaseRead DEF ReadOwn, Reads, At
  <2>2. PICK pc \in {"unlink", "truncate"} :
            GotoWith(c, pc, file) /\ (pc = "unlink" <=> call[c].op = "release")
    <3>1. CASE call[c].op = "release"
      BY <1>7, <3>1 DEF ReadOwn
    <3>2. CASE call[c].op # "release"
      BY <1>7, <3>2 DEF ReadOwn
    <3> QED
      BY <3>1, <3>2
  <2>3. /\ call'[c].pc = pc /\ call'[c].op = call[c].op /\ call'[c].agent = call[c].agent
        /\ call'[c].seen = file /\ \A d \in Calls : d # c => call'[d] = call[d]
    BY <1>0, <2>2, GotoEffect
  <2>4. LeaseCall(c)'
    BY <1>1, <2>1, <2>2, <2>3 DEF LeaseCall
  <2> QED
    BY <1>0, <2>1, <2>2, <2>3, <2>4, LeaseStays
<1>8. ~ReadForClear(c) /\ ~FillLost(c)
  BY <1>0, <1>1 DEF ReadForClear, FillLost, At, LeaseCall
(* A call that takes the file to Torn, the only one for its agent.         *)
<1>9. ASSUME file' = Torn, up' = up, call'[c].pc = "fill",
             call'[c].seen = Lease(call[c].agent, App),
             call'[c].agent = call[c].agent, call'[c].op = call[c].op,
             \A d \in Calls : d # c => call'[d] = call[d],
             \A d \in Calls : d # c => call[d].pc \notin {"truncate", "unlink", "fill"}
      PROVE  LeaseInv'
  <2>1. \A d \in Calls : LeaseCall(d)'
    BY <1>0, <1>1, <1>9 DEF LeaseCall
  <2>2. \A d \in Calls : At(d, "fill")' <=> d = c
    BY <1>9 DEF At
  <2> QED
    BY <1>0, <1>9, <2>1, <2>2 DEF LeaseInv, LeaseCall
<1>10. CASE OpenNew(c)
  <2>1. \A d \in Calls : call[d].pc \notin {"truncate", "unlink", "fill"}
    BY <1>0, <1>10, LeaseParts DEF OpenNew, LeaseCall
  <2>2. GotoWith(c, "fill", Lease(call[c].agent, App))
    BY <1>1, <1>10 DEF OpenNew
  <2> QED
    BY <1>0, <1>9, <1>10, <2>1, <2>2, GotoEffect DEF OpenNew
<1>11. CASE Truncate(c)
  <2>1. /\ call[c].pc = "truncate" /\ file = Lease(call[c].agent, App) /\ call[c].seen = file
    BY <1>0, <1>11 DEF Truncate, At, LeaseCall
  <2>2. \A d \in Calls : d # c => call[d].pc \notin {"truncate", "unlink", "fill"}
    <3> SUFFICES ASSUME NEW d \in Calls, call[d].pc \in {"truncate", "unlink", "fill"} PROVE d = c
      OBVIOUS
    <3>1. call[d].pc # "fill"
      BY <1>0, <2>1, LeaseParts DEF LeaseCall
    <3>2. file = Lease(call[d].agent, App)
      BY <1>0, <3>1 DEF LeaseCall
    <3>3. call[d].agent = call[c].agent
      <4>1. file.holder = call[c].agent /\ Lease(call[d].agent, App).holder = call[d].agent
        BY <2>1, LeaseParts
      <4> QED
        BY <3>2, <4>1
    <3> QED
      BY <1>2, <3>3 DEF SlotIdle
  <2>3. Goto(c, "fill")
    BY <1>11 DEF Truncate
  <2> QED
    BY <1>0, <1>9, <1>11, <2>1, <2>2, <2>3, GotoEffect DEF Truncate
<1>12. CASE Fill(c)
  <2>1. /\ call[c].pc = "fill" /\ file = Torn /\ file' = Lease(call[c].agent, App) /\ up' = up
    BY <1>0, <1>12 DEF Fill, At, LeaseCall
  <2>2. /\ call'[c].pc = "ok" /\ call'[c].op = call[c].op /\ call'[c].agent = call[c].agent
        /\ \A d \in Calls : d # c => call'[d] = call[d]
    BY <1>0, <1>12, GotoEffect DEF Fill
  <2>3. \A d \in Calls : d # c => call[d].pc \notin {"truncate", "unlink", "fill"}
    BY <1>0, <2>1, LeaseParts DEF LeaseCall, LeaseInv, At
  <2>4. \A d \in Calls : LeaseCall(d)'
    BY <1>0, <1>1, <2>2, <2>3 DEF LeaseCall
  <2>5. \A d \in Calls : ~At(d, "fill")'
    BY <2>2, <2>3 DEF At
  <2> QED
    BY <1>0, <2>1, <2>4, <2>5, LeaseParts DEF LeaseInv, LeaseCall
<1>13. CASE Unlink(c)
  <2>1. call[c].pc = "unlink" /\ file = Lease(call[c].agent, App) /\ file' = Absent /\ up' = up
    BY <1>0, <1>13 DEF Unlink, At, LeaseCall
  <2>2. \A d \in Calls : d # c => call[d].pc \notin {"truncate", "unlink", "fill"}
    <3> SUFFICES ASSUME NEW d \in Calls, call[d].pc \in {"truncate", "unlink", "fill"} PROVE d = c
      OBVIOUS
    <3>1. call[d].pc # "fill"
      BY <1>0, <2>1, LeaseParts DEF LeaseCall
    <3>2. file = Lease(call[d].agent, App)
      BY <1>0, <3>1 DEF LeaseCall
    <3>3. call[d].agent = call[c].agent
      <4>1. file.holder = call[c].agent /\ Lease(call[d].agent, App).holder = call[d].agent
        BY <2>1, LeaseParts
      <4> QED
        BY <3>2, <4>1
    <3> QED
      BY <1>2, <3>3 DEF SlotIdle
  <2>3. /\ \A d \in Calls : d # c => call'[d] = call[d]
        /\ call'[c].pc = "ok" /\ call'[c].op = call[c].op
    <3>1. call'[c] = [call[c] EXCEPT !.pc = "ok"]
      BY <1>13 DEF Unlink
    <3>2. call[c] \in CallStates
      BY <1>0 DEF LeaseTypes, LeaseTypeOK
    <3>3. call'[c].pc = "ok" /\ call'[c].op = call[c].op
      BY <3>1, <3>2 DEF CallStates
    <3> QED
      BY <1>13, <2>2, <3>3 DEF Unlink
  <2>4. \A d \in Calls : LeaseCall(d)'
    BY <1>0, <1>1, <2>2, <2>3 DEF LeaseCall
  <2>5. \A d \in Calls : ~At(d, "fill")'
    BY <2>2, <2>3 DEF At
  <2> QED
    BY <1>0, <2>1, <2>4, <2>5, LeaseParts DEF LeaseInv, LeaseCall
<1> QED
  BY <1>4, <1>5, <1>6, <1>7, <1>8, <1>10, <1>11, <1>12, <1>13 DEF LeaseStep

LEMMA LeaseInvKept ==
    ASSUME UserWaits, CoverInv, Next
    PROVE  LeaseInv'
<1>0. LeaseTypes /\ LeaseInv /\ \A d \in Calls : LeaseCall(d)
  BY InvTypes DEF CoverInv, LeaseInv, LeaseCall
<1>1. ASSUME NEW c \in Calls, NEW kind \in {"acquire", "heartbeat", "release"}, NEW a, Begin(c, kind, a, App)
      PROVE  LeaseInv'
  <2>1. /\ call[c].pc = "idle" /\ call'[c].pc \in {"open", "read"} /\ call'[c].op = kind
        /\ \A d \in Calls : d # c => call'[d] = call[d]
        /\ UNCHANGED <<file, up>>
    BY <1>0, <1>1, BeginEffect DEF SlotIdle
  <2>2. LeaseCall(c)'
    BY <1>1, <2>1 DEF LeaseCall
  <2> QED
    BY <1>0, <2>1, <2>2, LeaseStays
<1>2. ASSUME NEW c \in Calls, Return(c) PROVE LeaseInv'
  <2>1. /\ call[c].pc # "fill" /\ call'[c] = IdleCall
        /\ \A d \in Calls : d # c => call'[d] = call[d]
        /\ UNCHANGED <<file, up>>
    BY <1>0, <1>2, ReturnEffect DEF Return, Final
  <2>2. LeaseCall(c)' /\ call'[c].pc # "fill"
    BY <2>1 DEF LeaseCall, IdleCall
  <2> QED
    BY <1>0, <2>1, <2>2, LeaseStays
<1>3. UNCHANGED leaseVars => LeaseInv'
  BY <1>0 DEF leaseVars, LeaseInv, At
<1>4. LeaseCalls
  BY LeaseOf DEF CoverInv
<1> QED
  BY <1>1, <1>2, <1>3, <1>4, LeaseStepKeeps DEF LeaseCalls

-----------------------------------------------------------------------------
(* Who was granted the lease keeps it.                                     *)

(* While the lease of an agent is removed, nothing of it is covered.       *)
LEMMA NotCovered ==
    ASSUME CoverInv, NEW c \in Calls, At(c, "unlink")
    PROVE  /\ \A m \in Requests : prompt[m].agent = call[c].agent => ~Leased(m)
           /\ \A p \in Procs : owner[p] = call[c].agent => ~Live(p)
<1> DEFINE a == call[c].agent
<1>0. /\ ManagerInv /\ Actors /\ Awaited /\ Lives /\ RequestSlots /\ AgentSlots /\ EventCalls
      /\ call[c].op = "release" /\ call[c].pc = "unlink"
  BY DEF CoverInv, LeaseInv, At
<1>1. CASE c \in Requests
  <2>1. prompt[c].pc = "release" /\ a = prompt[c].agent
    BY <1>0, <1>1 DEF RequestSlots
  <2>2. Active(c) /\ prompt[c].pc # "sent"
    BY <2>1 DEF Active
  <2>3. /\ \A p \in Procs : owner[p] = a => ~Live(p)
        /\ \A n \in Requests : n # c /\ prompt[n].agent = a => prompt[n].pc \in {"done", "failed"}
    BY <1>0, <1>1, <2>1, <2>2, PromptAlone
  <2> QED
    BY <2>1, <2>3 DEF Leased
<1>2. ASSUME NEW b \in Writers, c = Beat(b) PROVE FALSE
  BY <1>0, <1>2 DEF AgentSlots
<1>3. ASSUME NEW b \in Writers, c = Free(b)
      PROVE  /\ \A m \in Requests : prompt[m].agent = a => ~Leased(m)
             /\ \A p \in Procs : owner[p] = a => ~Live(p)
  <2>1. a = b /\ ~SlotIdle(Free(b))
    BY <1>0, <1>3 DEF AgentSlots, SlotIdle
  <2> QED
    BY <1>0, <2>1 DEF EventCalls, Through, Leased
<1>4. ASSUME NEW b \in Writers, c = OpSlot(b)
      PROVE  /\ \A m \in Requests : prompt[m].agent = a => ~Leased(m)
             /\ \A p \in Procs : owner[p] = a => ~Live(p)
  <2>1. a = b /\ op[b].pc = "release" /\ b \in Agents
    BY <1>0, <1>4, Slotted DEF AgentSlots
  <2>2. op[b] # NoOp
    BY <2>1 DEF NoOp
  <2>3. /\ \A p \in Procs : owner[p] = b => ~Live(p)
        /\ \A m \in Requests : prompt[m].agent = b => prompt[m].pc \in {"done", "failed"}
    BY <1>0, <2>1, <2>2, OpAlone
  <2> QED
    BY <2>1, <2>3 DEF Leased
<1> QED
  BY <1>1, <1>2, <1>3, <1>4, Slotted

(* The lease of an agent leaves the disk only when a call removes it.      *)
LEMMA HoldsKept ==
    ASSUME UserWaits, CoverInv, Next, NEW a \in Agents, Holds(a),
           \A c \in Calls : At(c, "unlink") => call[c].agent # a
    PROVE  Holds(a)'
<1>0. LeaseTypes /\ LeaseInv /\ \A d \in Calls : LeaseCall(d)
  BY InvTypes DEF CoverInv, LeaseInv, LeaseCall
<1>1. ASSUME file' = file, \A d \in Calls : At(d, "fill") => call'[d] = call[d]
      PROVE  Holds(a)'
  BY <1>1 DEF Holds, Names, At
<1>2. ASSUME NEW c \in Calls, NEW pc, NEW lease, Goto(c, pc) \/ GotoWith(c, pc, lease),
             file' = file, ~At(c, "fill")
      PROVE  Holds(a)'
  BY <1>0, <1>1, <1>2, GotoEffect
<1>3. ASSUME NEW c \in Calls, LeaseStep(c) PROVE Holds(a)'
  <2>1. CASE OpenNew(c)
    <3>1. file = Absent
      BY <2>1 DEF OpenNew
    <3> QED
      BY <3>1, LeaseParts DEF Holds, Names
  <2>2. CASE OpenExisting(c) \/ ReadTorn(c) \/ ReadAbsent(c) \/ ReadForeign(c) \/ ReadOwn(c)
             \/ ReadForClear(c) \/ FillLost(c)
    <3>1. file' = file /\ ~At(c, "fill")
      BY <2>2 DEF OpenExisting, ReadTorn, ReadAbsent, ReadForeign, ReadOwn, ReadForClear, FillLost,
                  Reads, At
    <3>2. \E pc, lease : Goto(c, pc) \/ GotoWith(c, pc, lease)
      BY <2>2 DEF OpenExisting, ReadTorn, ReadAbsent, ReadForeign, ReadOwn, ReadForClear, FillLost
    <3> QED
      BY <1>2, <3>1, <3>2
  <2>3. CASE Truncate(c)
    <3>1. file = Lease(call[c].agent, App) /\ file' = Torn /\ Goto(c, "fill")
      BY <1>0, <2>3 DEF Truncate, At, LeaseCall
    <3>2. file.holder = call[c].agent /\ file # Torn
      BY <3>1, LeaseParts
    <3>3. call[c].agent = a
      BY <3>2 DEF Holds, Names
    <3>4. call'[c].pc = "fill" /\ call'[c].agent = a
      BY <1>0, <3>1, <3>3, GotoEffect
    <3> QED
      BY <3>1, <3>4 DEF Holds, At
  <2>4. CASE Fill(c)
    <3>1. file = Torn /\ file' = Lease(call[c].agent, App) /\ At(c, "fill")
      BY <1>0, <2>4 DEF Fill, At, LeaseCall
    <3>2. ~Names(a)
      BY <3>1, LeaseParts DEF Names
    <3>3. call[c].agent = a
      BY <1>0, <3>1, <3>2 DEF Holds, LeaseInv
    <3>4. file'.state = "lease" /\ file'.holder = a
      BY <3>1, <3>3, LeaseParts
    <3> QED
      BY <3>4 DEF Holds, Names
  <2>5. CASE Unlink(c)
    <3>1. file = Lease(call[c].agent, App) /\ At(c, "unlink")
      BY <1>0, <2>5 DEF Unlink, At, LeaseCall
    <3>2. file.holder = call[c].agent /\ file # Torn
      BY <3>1, LeaseParts
    <3> QED
      BY <3>1, <3>2 DEF Holds, Names
  <2> QED
    BY <1>3, <2>1, <2>2, <2>3, <2>4, <2>5 DEF LeaseStep
<1>4. ASSUME NEW c \in Calls, NEW kind, NEW b, Begin(c, kind, b, App) PROVE Holds(a)'
  <2>1. ~At(c, "fill")
    BY <1>4 DEF Begin, At
  <2> QED
    BY <1>0, <1>1, <1>4, <2>1, BeginEffect
<1>5. ASSUME NEW c \in Calls, Return(c) PROVE Holds(a)'
  <2>1. ~At(c, "fill")
    BY <1>5 DEF Return, At, Final
  <2> QED
    BY <1>0, <1>1, <1>5, <2>1, ReturnEffect
<1>6. UNCHANGED leaseVars => Holds(a)'
  BY <1>1 DEF leaseVars
<1> QED
  BY <1>3, <1>4, <1>5, <1>6, LeaseOf DEF CoverInv, LeaseCalls

(* Only the call of a prompt that ends by writing the lease returns "ok".  *)
LEMMA AcquireEnds ==
    ASSUME UserWaits, CoverInv, Next, NEW m \in Requests, prompt' = prompt, prompt[m].pc = "lease",
           call'[m].pc = "ok"
    PROVE  call[m].pc = "ok" \/ Fill(m)
<1>0. LeaseTypes /\ LeaseInv /\ RequestSlots /\ m \in Calls /\ LeaseCall(m)
  BY InvTypes, Slotted DEF CoverInv, LeaseInv, LeaseCall
<1>1. ASSUME NEW pc, NEW lease, Goto(m, pc) \/ GotoWith(m, pc, lease) PROVE pc = "ok"
  BY <1>0, <1>1, GotoEffect
<1>2. ASSUME LeaseStep(m) PROVE Fill(m)
  <2>1. call[m].pc # "idle"
    BY <1>2 DEF LeaseStep, OpenNew, OpenExisting, ReadTorn, ReadAbsent, ReadForeign, ReadOwn,
                ReadForClear, Reads, Truncate, Fill, FillLost, Unlink, At
  <2>2. call[m].op = "acquire" /\ call[m].pc # "lost" /\ call[m].pc # "unlink"
    BY <1>0, <2>1 DEF RequestSlots, LeaseCall
  <2> QED
    BY <1>1, <1>2, <2>2
       DEF LeaseStep, OpenNew, OpenExisting, ReadTorn, ReadAbsent, ReadForeign, ReadOwn,
           ReadForClear, Truncate, FillLost, Unlink, At
<1>3. ASSUME NEW c \in Calls, c # m, LeaseStep(c) PROVE call[m].pc = "ok"
  <2>1. CASE Unlink(c)
    <3>1. call'[m] = IF call[m].pc = "fill" THEN [call[m] EXCEPT !.pc = "lost"] ELSE call[m]
      BY <1>0, <1>3, <2>1 DEF Unlink
    <3>2. [call[m] EXCEPT !.pc = "lost"].pc # "ok"
      BY <1>0 DEF LeaseTypes, LeaseTypeOK, CallStates
    <3> QED
      BY <3>1, <3>2
  <2>2. CASE \E pc, lease : Goto(c, pc) \/ GotoWith(c, pc, lease)
    BY <1>0, <1>3, <2>2, GotoEffect
  <2> QED
    BY <1>3, <2>1, <2>2
       DEF LeaseStep, OpenNew, OpenExisting, ReadTorn, ReadAbsent, ReadForeign, ReadOwn,
           ReadForClear, Truncate, Fill, FillLost
<1>4. ASSUME NEW c \in Calls, NEW kind, NEW a, Begin(c, kind, a, App) PROVE call[m].pc = "ok"
  <2>1. c # m
    BY <1>0, <1>4, BeginEffect
  <2> QED
    BY <1>0, <1>4, <2>1, BeginEffect
<1>5. ASSUME NEW c \in Calls, Return(c) PROVE call[m].pc = "ok"
  <2>1. c # m
    BY <1>0, <1>5, ReturnEffect DEF IdleCall
  <2> QED
    BY <1>0, <1>5, <2>1, ReturnEffect
<1>6. UNCHANGED leaseVars => call[m].pc = "ok"
  BY DEF leaseVars
<1> QED
  BY <1>2, <1>3, <1>4, <1>5, <1>6, LeaseOf DEF CoverInv, LeaseCalls

(* A prompt has the lease since its call wrote it.                         *)
LEMMA LeasedBefore ==
    ASSUME UserWaits, CoverInv, Next, NEW m \in Requests, prompt'[m].agent \in Writers, Leased(m)'
    PROVE  prompt'[m].agent = prompt[m].agent /\ (Leased(m) \/ Fill(m))
<1>0. LeaseTypes /\ OwnTypes /\ RequestSlots /\ m \in Calls
  BY InvTypes, Slotted DEF CoverInv
<1> USE DEF Leased
<1>1. CASE prompt' = prompt
  BY <1>1, AcquireEnds
<1>2. ASSUME NEW n \in Requests, PromptStep(n), n # m
      PROVE  prompt'[m].agent = prompt[m].agent /\ Leased(m)
  <2>1. prompt'[m] = prompt[m]
    BY <1>0, <1>2, OthersStay
  <2>2. call'[m] = call[m]
    <3>1. \/ UNCHANGED leaseVars
          \/ \E kind, a : Begin(n, kind, a, App)
          \/ Return(n)
      BY <1>2 DEF PromptStep, Prompting, PromptStarts, PromptLeased, PromptEnsures, PromptMarks,
                  PromptSends, PromptReturns, PromptCatches, PromptReleased
    <3>2. n \in Calls
      BY Slotted
    <3> QED
      BY <1>0, <1>2, <3>1, <3>2, BeginEffect, ReturnEffect DEF leaseVars
  <2> QED
    BY <2>1, <2>2
<1>3. ASSUME PromptStep(m) PROVE prompt'[m].agent = prompt[m].agent /\ Leased(m)
  <2>1. ASSUME NEW a \in Agents, PromptStarts(m, a) PROVE FALSE
    <3>1. prompt'[m].agent = a /\ prompt'[m].pc = IF a \in Writers THEN "lease" ELSE "ensure"
      BY <1>0, <2>1 DEF PromptStarts, OwnTypes, PromptStates
    <3>2. Begin(m, "acquire", a, App) /\ prompt'[m].pc = "lease"
      BY <2>1, <3>1 DEF PromptStarts
    <3>3. call'[m].pc = "open"
      BY <1>0, <3>2, BeginEffect
    <3> QED
      BY <3>2, <3>3
  <2>2. prompt'[m].agent = prompt[m].agent
    BY <1>0, <2>1, AgentStays
  <2>3. ASSUME NEW pc, SetPrompt(m, pc), pc \in {"done", "failed", "release", "sent"} PROVE FALSE
    BY <1>0, <2>3, SetPromptEffect
  <2>4. CASE PromptLeased(m)
    <3>1. CASE call[m].pc = "ok"
      BY <2>2, <2>4, <3>1 DEF PromptLeased
    <3>2. CASE call[m].pc # "ok"
      BY <2>3, <2>4, <3>2 DEF PromptLeased
    <3> QED
      BY <3>1, <3>2
  <2>5. CASE PromptEnsures(m) \/ PromptMarks(m) \/ PromptSends(m)
    BY <2>2, <2>5 DEF PromptEnsures, PromptMarks, PromptSends
  <2>6. CASE PromptCatches(m)
    BY <2>3, <2>6 DEF PromptCatches
  <2>7. CASE PromptReturns(m) \/ PromptReleased(m)
    BY <2>3, <2>7 DEF PromptReturns, PromptReleased
  <2> QED
    BY <1>3, <2>1, <2>4, <2>5, <2>6, <2>7 DEF PromptStep, Prompting
<1>4. ASSUME NEW a \in Agents, Flights(a) PROVE prompt'[m].agent = prompt[m].agent /\ Leased(m)
  <2>1. call' = call
    BY <1>4 DEF Flights, FlightSpawns, HandshakeDone, HistoryDone, FlightFails, FlightStopped, leaseVars
  <2>2. \/ prompt' = prompt
        \/ \E pc, p : FlightEnds(a, pc, p)
    BY <1>4 DEF Flights, FlightSpawns, HandshakeDone, HistoryDone, FlightFails, FlightStopped
  <2>3. \/ prompt'[m] = prompt[m]
        \/ prompt'[m].agent = prompt[m].agent /\ prompt[m].pc = "await"
    BY <1>0, <2>2, FlightEndsEffect
  <2> QED
    BY <2>1, <2>3
<1> QED
  BY <1>1, <1>2, <1>3, <1>4, PromptSteps

LEMMA EngagedLives ==
    ASSUME Pipes, NEW p \in Procs, Engaged(p)
    PROVE  Live(p)
BY DEF Pipes, PipesOf, Engaged, Live

(* A run of a process was a prompt in its stdin before, and that was sent. *)
LEMMA EngagedBefore ==
    ASSUME UserWaits, CoverInv, Next, NEW p \in Procs, Engaged(p)'
    PROVE  \/ Engaged(p) /\ owner'[p] = owner[p]
           \/ \E m \in Requests : prompt[m].pc = "send" /\ prompt[m].agent = owner'[p]
<1>0. /\ ManagerInv /\ RpcInv /\ Pipes /\ Lives
      /\ stdin \in [Procs -> Seq(Commands)]
  BY InvTypes DEF CoverInv, RpcInv, RpcTypeOK
<1>1. ASSUME Engaged(p) PROVE owner'[p] = owner[p]
  BY <1>0, <1>1, EngagedLives, SentStays DEF Lives, LifeOf
<1>2. ASSUME NEW m \in Requests, SendStep(m)
      PROVE  Engaged(p) \/ (prompt[m].pc = "send" /\ prompt[m].agent = owner'[p])
  <2>1. /\ prompt[m].proc \in Procs /\ ~Live(prompt[m].proc) /\ Send(prompt[m].proc, m)
        /\ owner[prompt[m].proc] = prompt[m].agent /\ prompt[m].pc = "send" /\ owner' = owner
    BY <1>2, NotLive DEF SendStep, PromptSends, PromptUnchanged
  <2>2. /\ UNCHANGED running
        /\ \A q \in Procs : q # prompt[m].proc => stdin'[q] = stdin[q]
    BY <1>0, <2>1, SendPipes
  <2>3. CASE p = prompt[m].proc
    BY <2>1, <2>3
  <2>4. CASE p # prompt[m].proc
    BY <1>2, <2>2, <2>4 DEF Engaged
  <2> QED
    BY <2>3, <2>4
<1>3. CASE WriteStep
  <2>1. running' = running
    BY <1>3 DEF WriteStep, Write, WriteAndStop
  <2>2. \A i \in 1..Len(stdin'[p]) : stdin'[p][i].kind = "prompt" =>
            \E j \in 1..Len(stdin[p]) : stdin[p][j].kind = "prompt"
    BY <1>0, <1>3, WritePipes DEF WriteStep
  <2> QED
    BY <1>1, <2>1, <2>2 DEF Engaged
<1>4. ASSUME NEW q \in Procs, PiLives(q) PROVE Engaged(p)
  <2>1. CASE q # p
    <3>1. stdin'[p] = stdin[p] /\ (p \in running' <=> p \in running)
      BY <1>0, <1>4, <2>1
         DEF PiLives, PiAccepts, PiHandles, PiRefuses, PiTurns, PiAsks, PiGetsAnswer, PiSettles,
             PiAborts, Consume
    <3> QED
      BY <1>4, <3>1 DEF Engaged
  <2>2. ASSUME q = p, ~Engaged(p) PROVE FALSE
    <3>1. p \notin running /\ ~Command(p, "prompt")
      <4>1. stdin[p] # <<>> => 1 \in 1..Len(stdin[p])
        BY <1>0
      <4> QED
        BY <2>2, <4>1 DEF Engaged, Command
    <3>2. (PiGetsAnswer(p) \/ PiAborts(p)) /\ p \notin running'
      BY <1>0, <1>4, <2>2, <3>1
         DEF PiLives, PiAccepts, PiHandles, PiRefuses, PiTurns, PiAsks, PiGetsAnswer, PiSettles,
             PiAborts
    <3>3. stdin[p] # <<>> /\ stdin[p] \in Seq(Commands) /\ stdin'[p] = Tail(stdin[p])
      BY <1>0, <3>2 DEF PiGetsAnswer, PiAborts, Command, Consume
    <3>4. \A i \in 1..Len(stdin'[p]) : stdin'[p][i] = stdin[p][i + 1] /\ i + 1 \in 1..Len(stdin[p])
      BY <3>3
    <3> QED
      BY <1>4, <2>2, <3>2, <3>4 DEF Engaged
  <2> QED
    BY <2>1, <2>2
<1>5. ASSUME NEW q \in Procs, LineStep(q) PROVE Engaged(p)
  <2>1. stdin' = stdin /\ running' = running
    BY <1>5 DEF LineStep, OnTurnStart, OnUiRequest, OnSettled, OnLine, OnResponse, TakeEvent
  <2> QED
    BY <2>1 DEF Engaged
<1>6. ASSUME NEW q \in Procs, EndStep(q) PROVE Engaged(p)
  <2>1. stdin' = stdin /\ running' = running
    BY <1>0, <1>6, NotLive, EndPipes DEF EndStep
  <2> QED
    BY <2>1 DEF Engaged
<1>7. ASSUME PipesRest PROVE Engaged(p)
  BY <1>7 DEF PipesRest, Engaged
<1> QED
  BY <1>1, <1>2, <1>3, <1>4, <1>5, <1>6, <1>7, PipeSteps

LEMMA GrantsKept ==
    ASSUME UserWaits, CoverInv, Next
    PROVE  Grants'
<1>0. /\ ManagerInv /\ LeaseTypes /\ Grants /\ Pipes /\ RequestSlots /\ \A c \in Calls : LeaseCall(c)
      /\ \A a \in Writers : a \in Agents
  BY InvTypes, Slotted DEF CoverInv, LeaseInv, LeaseCall
<1>1. ASSUME NEW m \in Requests, NEW a \in Writers, prompt[m].agent = a, Leased(m)
      PROVE  Holds(a)'
  <2>1. Holds(a)
    BY <1>0, <1>1 DEF Grants
  <2>2. \A c \in Calls : At(c, "unlink") => call[c].agent # a
    BY <1>1, NotCovered
  <2> QED
    BY <1>0, <2>1, <2>2, HoldsKept
<1>2. ASSUME NEW m \in Requests, NEW a \in Writers, prompt'[m].agent = a, Leased(m)'
      PROVE  Holds(a)'
  <2>1. prompt[m].agent = a /\ (Leased(m) \/ Fill(m))
    BY <1>2, LeasedBefore
  <2>2. CASE Leased(m)
    BY <1>1, <2>1, <2>2
  <2>3. CASE Fill(m)
    <3>1. m \in Calls /\ call[m].pc = "fill"
      BY <2>3, Slotted DEF Fill, At
    <3>2. file' = Lease(a, App)
      BY <1>0, <2>1, <2>3, <3>1 DEF Fill, RequestSlots, LeaseCall
    <3>3. file'.state = "lease" /\ file'.holder = a
      BY <3>2, LeaseParts
    <3> QED
      BY <3>3 DEF Holds, Names
  <2> QED
    BY <2>1, <2>2, <2>3
<1>3. ASSUME NEW p \in Procs, NEW a \in Writers, owner'[p] = a, Engaged(p)' PROVE Holds(a)'
  <2>1. CASE Engaged(p) /\ owner'[p] = owner[p]
    <3>1. Holds(a)
      BY <1>0, <1>3, <2>1 DEF Grants
    <3>2. \A c \in Calls : At(c, "unlink") => call[c].agent # a
      BY <1>0, <1>3, <2>1, EngagedLives, NotCovered
    <3> QED
      BY <1>0, <3>1, <3>2, HoldsKept
  <2>2. ASSUME NEW m \in Requests, prompt[m].pc = "send", prompt[m].agent = owner'[p]
        PROVE  Holds(a)'
    BY <1>1, <1>3, <2>2 DEF Leased
  <2> QED
    BY <1>3, <2>1, <2>2, EngagedBefore
<1>4. \A m \in Requests : prompt'[m].agent \in Writers /\ Leased(m)' =>
          \A a \in Writers : a = prompt'[m].agent => Holds(a)'
  BY <1>2
<1>5. \A p \in Procs : owner'[p] \in Writers /\ Engaged(p)' =>
          \A a \in Writers : a = owner'[p] => Holds(a)'
  BY <1>3
<1> QED
  BY <1>4, <1>5 DEF Grants

-----------------------------------------------------------------------------
(* The invariant of the cover, and what it is for.                         *)

LEMMA InitCover == Init => CoverInv
<1> SUFFICES ASSUME Init PROVE CoverInv
  OBVIOUS
<1>0. /\ ManagerInv /\ None \notin Agents
      /\ \A p \in Procs : handle[p] = "unborn" /\ stdin[p] = <<>> /\ stdout[p] = <<>> /\ pending[p] = {}
      /\ running = {} /\ file = Absent /\ up = {App} /\ call = [c \in Calls |-> IdleCall]
      /\ flight = [a \in Agents |-> NoFlight] /\ op = [a \in Agents |-> NoOp]
      /\ recovery = [i \in Recoveries |-> NoRecovery]
      /\ prompt = [m \in Requests |-> [agent |-> None, proc |-> None, pc |-> "new"]]
  BY InitManager, NoneAssumption DEF Init, RpcInit
<1>1. \A c \in Calls : call[c] = IdleCall /\ call[c].pc = "idle"
  BY <1>0 DEF IdleCall
<1>2. \A m \in Requests : prompt[m].pc = "new" /\ prompt[m].agent = None
  BY <1>0
<1>3. Actors
  BY <1>0, <1>2 DEF Actors, Active
<1>4. Hold
  BY <1>0, <1>2 DEF Hold, NoFlight
<1>5. \A p \in Procs : PipesOf(p) /\ ~Live(p) /\ ~Engaged(p)
  <2> SUFFICES ASSUME NEW p \in Procs PROVE PipesOf(p) /\ ~Live(p) /\ ~Engaged(p)
    OBVIOUS
  <2>1. stdin[p] = <<>> /\ stdout[p] = <<>> /\ pending[p] = {} /\ p \notin running
    BY <1>0
  <2>2. 1..Len(stdin[p]) = {} /\ 1..Len(stdout[p]) = {}
    BY <2>1
  <2> QED
    BY <2>1, <2>2 DEF PipesOf, Live, Engaged
<1>6. Pipes /\ Awaited /\ Lives
  BY <1>0, <1>5 DEF Pipes, Awaited, Lives
<1>7. RequestSlots /\ AgentSlots /\ EventCalls
  BY <1>1, Slotted DEF RequestSlots, AgentSlots, EventCalls, SlotIdle
<1>8. LeaseInv
  BY <1>0, <1>1, LeaseParts DEF LeaseInv, At
<1>9. Grants
  BY <1>2, <1>5 DEF Grants, Leased
<1> QED
  BY <1>0, <1>3, <1>4, <1>6, <1>7, <1>8, <1>9 DEF CoverInv

LEMMA NextCover == UserWaits /\ CoverInv /\ [Next]_vars => CoverInv'
<1>1. UserWaits /\ CoverInv /\ Next => CoverInv'
  <2> SUFFICES ASSUME UserWaits, CoverInv, Next PROVE CoverInv'
    OBVIOUS
  <2>1. ManagerInv' /\ RequestSlots' /\ AgentSlots'
    BY NextManager, RequestSlotsKept, AgentSlotsKept DEF CoverInv
  <2> QED
    BY <2>1, ActorsKept, HoldKept, PipesKept, AwaitedKept, LivesKept, EventCallsKept, LeaseInvKept, GrantsKept
       DEF CoverInv
<1>2. CoverInv /\ UNCHANGED vars => CoverInv'
  <2> SUFFICES ASSUME CoverInv, UNCHANGED vars PROVE CoverInv'
    OBVIOUS
  <2>1. ManagerInv'
    BY NextManager DEF CoverInv
  <2>2. /\ UNCHANGED <<file, up, call, handle, alive, stdin, stdout, pending, result, running>>
        /\ UNCHANGED <<processes, flight, owner, prompt, op, recovery>>
    BY DEF vars, leaseVars, rpcVars, managerVars
  <2>3. Actors' /\ Hold' /\ Pipes' /\ Awaited' /\ Lives'
    BY <2>2 DEF CoverInv, Actors, Active, Hold, Pipes, PipesOf, Waits, Awaited, Lives, Live, LifeOf, Through
  <2>4. RequestSlots' /\ AgentSlots' /\ EventCalls' /\ LeaseInv' /\ Grants'
    BY <2>2 DEF CoverInv, RequestSlots, AgentSlots, EventCalls, SlotIdle, Through, Live, LeaseInv, At,
                Grants, Leased, Engaged, Holds, Names
  <2> QED
    BY <2>1, <2>3, <2>4 DEF CoverInv
<1> QED
  BY <1>1, <1>2

(* When the user waits for an agent before the next prompt or operation,   *)
(* no child dies on its own and no prompt times out, a run of a writer is  *)
(* covered by the lease on disk and no other writer runs: for any agents,  *)
(* prompts, processes and older runtimes, and any order of the file        *)
(* operations of the lease calls, the events and the starts.               *)
THEOREM RunsCovered ==
    ASSUME UserWaits
    PROVE  Spec => []RunsAreCovered
<1>1. CoverInv => RunsAreCovered
  <2> SUFFICES ASSUME CoverInv PROVE RunsAreCovered
    OBVIOUS
  <2>0. Grants /\ LeaseInv /\ running \subseteq Procs
    BY InvTypes DEF CoverInv, RpcInv, RpcTypeOK
  <2>1. \A p \in running : owner[p] \in Writers => Holds(owner[p])
    BY <2>0 DEF Grants, Engaged
  <2>2. \A a, b : Holds(a) /\ Holds(b) => a = b
    BY <2>0, LeaseParts DEF Holds, Names, LeaseInv
  <2>3. ExclusiveRuns
    BY <2>1, <2>2 DEF ExclusiveRuns
  <2>4. RunLeased
    BY <2>1 DEF RunLeased, Holds
  <2> QED
    BY <2>3, <2>4 DEF RunsAreCovered
<1>2. Init => CoverInv
  BY InitCover
<1>3. CoverInv /\ [Next]_vars => CoverInv'
  BY NextCover
<1> QED
  BY <1>1, <1>2, <1>3, PTL DEF Spec

-----------------------------------------------------------------------------
(* A lease is worked for.  Heartbeats and releases of an agent do not      *)
(* overlap, no child dies or fails to start and no prompt is handled as a  *)
(* command; the user need not wait.                                        *)

NoLoss == ~BeatsRace /\ Faults \subseteq {"refuse", "timeout"}

Settles(p) == \E i \in 1..Len(stdout[p]) : stdout[p][i].kind = "agent_settled"

(* What leads to a release of the lease: a prompt that has it, a run or    *)
(* its end under way, an operation that will release, a release.           *)
Prompted(m) ==
    \/ prompt[m].pc = "lease" /\ call[m].pc \in {"fill", "lost", "ok"}
    \/ prompt[m].pc \in {"ensure", "await", "up", "down", "send"}
    \/ prompt[m].pc = "sent" /\ result[m] # "answered"
Ran(p) == handle[p] = "open" /\ (p \in running \/ Settles(p))
Releases(c) == call[c].op = "release" /\ call[c].pc \in {"read", "unlink"}

WorkedOn(a) ==
    \/ \E m \in Requests : prompt[m].agent = a /\ Prompted(m)
    \/ \E p \in Procs : owner[p] = a /\ Ran(p)
    \/ op[a].pc = "stop"
    \/ \E c \in Calls : call[c].agent = a /\ Releases(c)

(* The lease names the agent, or a heartbeat of it is about to write that. *)
Marked(a) == Names(a) \/ call[Beat(a)].pc \in {"truncate", "fill"}

Worked == \A a \in Writers : Marked(a) => WorkedOn(a)

BeatsAlone ==
    \A a \in Writers : ~SlotIdle(Beat(a)) =>
        \A c \in Calls : call[c].op = "release" => call[c].agent # a

(* After the response to a prompt that was taken the run goes on, or its   *)
(* end is printed further on.                                              *)
AnswersOf(p) ==
    handle[p] \in {"unborn", "open"} =>
        \A i \in 1..Len(stdout[p]) : stdout[p][i].kind = "response" /\ stdout[p][i].ok = TRUE =>
            p \in running \/ \E j \in i..Len(stdout[p]) : stdout[p][j].kind = "agent_settled"

Answers == \A p \in Procs : AnswersOf(p)

(* Only an operation stops a child, and waits for it.                      *)
Stops ==
    \A p \in Procs :
        /\ handle[p] = "open" => p \in alive
        /\ handle[p] = "stopping" =>
              owner[p] \in Agents /\ op[owner[p]].pc = "stop" /\ op[owner[p]].proc = p

(* A prompt is sent to a process of its agent.                             *)
Sends ==
    /\ \A m \in Requests : prompt[m].pc \in {"up", "send"} =>
          owner[prompt[m].proc] = prompt[m].agent /\ handle[prompt[m].proc] # "unborn"
    /\ \A p \in Procs : \A r \in pending[p] : prompt[r].pc = "sent" /\ prompt[r].agent = owner[p]

(* A call writes a lease of its own agent; a release writes none.          *)
WriteOf(c) ==
    /\ call[c].pc \in {"truncate", "fill"} =>
          call[c].seen.state = "lease" /\ call[c].seen.holder = call[c].agent
    /\ call[c].op = "release" => call[c].pc \in {"read", "unlink"} \cup Final
    /\ call[c].op \in {"heartbeat", "acquire"} => call[c].pc # "unlink"
    /\ call[c].op = "heartbeat" => call[c].pc # "open"
    /\ call[c].op = "clear" => call[c].pc = "idle"

Writes == \A c \in Calls : WriteOf(c)

WorkInv ==
    /\ ManagerInv /\ RequestSlots /\ AgentSlots
    /\ Writes /\ BeatsAlone /\ Answers /\ Stops /\ Sends /\ Worked

LEMMA WritesKept ==
    ASSUME WorkInv, Next
    PROVE  Writes'
<1>0. LeaseTypes /\ ManagerInv /\ \A d \in Calls : WriteOf(d)
  BY InvTypes DEF WorkInv, Writes
<1>1. ASSUME NEW c \in Calls, WriteOf(c)', \A d \in Calls : d # c => call'[d] = call[d] PROVE Writes'
  <2>1. \A d \in Calls : d # c => WriteOf(d)'
    BY <1>0, <1>1 DEF WriteOf
  <2> QED
    BY <1>1, <2>1 DEF Writes
<1>2. ASSUME NEW c \in Calls, NEW kind \in {"acquire", "heartbeat", "release"}, NEW a, Begin(c, kind, a, App)
      PROVE  Writes'
  <2>1. /\ call'[c].pc \in {"open", "read"} /\ call'[c].op = kind
        /\ (kind \in {"heartbeat", "release"} => call'[c].pc = "read")
        /\ \A d \in Calls : d # c => call'[d] = call[d]
    BY <1>0, <1>2, BeginEffect
  <2>2. WriteOf(c)'
    BY <2>1 DEF WriteOf
  <2> QED
    BY <1>1, <2>1, <2>2
<1>3. ASSUME NEW c \in Calls, Return(c) PROVE Writes'
  <2>1. WriteOf(c)'
    BY <1>0, <1>3, ReturnEffect DEF WriteOf, IdleCall
  <2> QED
    BY <1>0, <1>1, <1>3, <2>1, ReturnEffect
<1>4. ASSUME NEW c \in Calls, LeaseStep(c) PROVE Writes'
  <2>0. call[c].pc # "idle" /\ call[c].op # "clear"
    BY <1>0, <1>4 DEF LeaseStep, OpenNew, OpenExisting, ReadTorn, ReadAbsent, ReadForeign, ReadOwn,
                      ReadForClear, Reads, Truncate, Fill, FillLost, Unlink, At, WriteOf
  <2>1. ASSUME NEW pc, Goto(c, pc), pc \in {"open", "read", "fill"} \cup Final,
               pc \in {"open", "fill"} => call[c].op # "release",
               pc = "open" => call[c].op = "acquire",
               pc = "fill" => call[c].pc = "truncate"
        PROVE  Writes'
    <3>1. /\ call'[c].pc = pc /\ call'[c].agent = call[c].agent /\ call'[c].op = call[c].op
          /\ call'[c].seen = call[c].seen
          /\ \A d \in Calls : d # c => call'[d] = call[d]
      BY <1>0, <2>1, GotoEffect
    <3>2. WriteOf(c)'
      BY <1>0, <2>0, <2>1, <3>1 DEF WriteOf, Final
    <3> QED
      BY <1>1, <3>1, <3>2
  <2>2. ASSUME NEW pc, NEW lease, GotoWith(c, pc, lease), pc \in {"truncate", "fill", "unlink"},
               lease.state = "lease" /\ lease.holder = call[c].agent,
               pc = "unlink" <=> call[c].op = "release"
        PROVE  Writes'
    <3>1. /\ call'[c].pc = pc /\ call'[c].agent = call[c].agent /\ call'[c].op = call[c].op
          /\ call'[c].seen = lease
          /\ \A d \in Calls : d # c => call'[d] = call[d]
      BY <1>0, <2>2, GotoEffect
    <3>2. WriteOf(c)'
      BY <2>0, <2>2, <3>1 DEF WriteOf
    <3> QED
      BY <1>1, <3>1, <3>2
  <2>3. CASE OpenNew(c)
    <3>1. GotoWith(c, "fill", Lease(call[c].agent, call[c].app)) /\ call[c].op # "release"
      BY <1>0, <2>3 DEF OpenNew, At, WriteOf, Final
    <3> QED
      BY <2>2, <3>1, LeaseParts
  <2>4. CASE OpenExisting(c) \/ ReadTorn(c) \/ Fill(c) \/ FillLost(c)
    BY <2>1, <2>4 DEF OpenExisting, ReadTorn, Fill, FillLost, Final
  <2>5. CASE ReadAbsent(c)
    <3>1. CASE call[c].op = "acquire"
      BY <2>1, <2>5, <3>1 DEF ReadAbsent
    <3>2. CASE call[c].op # "acquire"
      BY <2>1, <2>5, <3>2 DEF ReadAbsent, Final
    <3> QED
      BY <3>1, <3>2
  <2>6. CASE ReadForeign(c)
    <3>1. CASE call[c].op = "acquire"
      BY <2>1, <2>6, <3>1 DEF ReadForeign, Final
    <3>2. CASE call[c].op # "acquire"
      BY <2>1, <2>6, <3>2 DEF ReadForeign, Final
    <3> QED
      BY <3>1, <3>2
  <2>7. CASE ReadOwn(c)
    <3>1. file.state = "lease" /\ file.holder = call[c].agent
      BY <2>7 DEF ReadOwn, Reads
    <3>2. CASE call[c].op = "release"
      <4>1. GotoWith(c, "unlink", file)
        BY <2>7, <3>2 DEF ReadOwn
      <4> QED
        BY <2>2, <3>1, <3>2, <4>1
    <3>3. CASE call[c].op # "release"
      <4>1. GotoWith(c, "truncate", file)
        BY <2>7, <3>3 DEF ReadOwn
      <4> QED
        BY <2>2, <3>1, <3>3, <4>1
    <3> QED
      BY <3>2, <3>3
  <2>8. CASE Truncate(c)
    <3>1. call[c].pc = "truncate" /\ call[c].op # "release" /\ Goto(c, "fill")
      BY <1>0, <2>8 DEF Truncate, At, WriteOf, Final
    <3> QED
      BY <2>1, <3>1
  <2>9. CASE Unlink(c)
    <3>1. ASSUME NEW d \in Calls PROVE WriteOf(d)'
      <4>1. call[d] \in CallStates /\ WriteOf(d) /\ WriteOf(c) /\ call[c].pc = "unlink"
        BY <1>0, <2>9 DEF LeaseTypes, LeaseTypeOK, Unlink, At
      <4>2. call'[d] = IF d = c THEN [call[d] EXCEPT !.pc = "ok"]
                       ELSE IF call[d].pc = "fill" THEN [call[d] EXCEPT !.pc = "lost"]
                       ELSE call[d]
        BY <2>9 DEF Unlink
      <4>3. CASE d = c
        <5>1. call'[d].pc = "ok" /\ call'[d].op = call[d].op
          BY <4>1, <4>2, <4>3 DEF CallStates
        <5> QED
          BY <2>0, <4>3, <5>1 DEF WriteOf, Final
      <4>4. CASE d # c /\ call[d].pc = "fill"
        <5>1. call'[d].pc = "lost" /\ call'[d].op = call[d].op
          BY <4>1, <4>2, <4>4 DEF CallStates
        <5> QED
          BY <4>1, <4>4, <5>1 DEF WriteOf, Final
      <4>5. CASE d # c /\ call[d].pc # "fill"
        BY <4>1, <4>2, <4>5 DEF WriteOf
      <4> QED
        BY <4>3, <4>4, <4>5
    <3> QED
      BY <3>1 DEF Writes
  <2>10. ~ReadForClear(c)
    BY <2>0 DEF ReadForClear
  <2> QED
    BY <1>4, <2>3, <2>4, <2>5, <2>6, <2>7, <2>8, <2>9, <2>10 DEF LeaseStep
<1>5. UNCHANGED leaseVars => Writes'
  BY <1>0 DEF leaseVars, Writes, WriteOf
<1> QED
  BY <1>0, <1>2, <1>3, <1>4, <1>5, LeaseOf DEF LeaseCalls

(* No release of an agent goes on beside a heartbeat of it.                *)
LEMMA BeatsAloneKept ==
    ASSUME NoLoss, WorkInv, Next
    PROVE  BeatsAlone'
<1>0. LeaseTypes /\ BeatsAlone /\ ManagerInv
  BY InvTypes DEF WorkInv
<1> SUFFICES ASSUME NEW a \in Writers, ~SlotIdle(Beat(a))', NEW c \in Calls, call'[c].op = "release"
             PROVE  call'[c].agent # a
  BY DEF BeatsAlone
<1>1. /\ Beat(a) \in Calls /\ \A m \in Requests : m \in Calls /\ m # Beat(a)
      /\ \A b \in Writers : /\ Beat(b) \in Calls /\ Free(b) \in Calls /\ OpSlot(b) \in Calls
                            /\ Free(b) # Beat(a) /\ OpSlot(b) # Beat(a)
                            /\ b # a => Beat(b) # Beat(a)
  BY Slotted
<1>2. ASSUME ~SlotIdle(Beat(a)), call'[c].op = call[c].op, call'[c].agent = call[c].agent
      PROVE  call'[c].agent # a
  BY <1>0, <1>2 DEF BeatsAlone
<1>3. ASSUME NEW d \in Calls, LeaseWorks(d) PROVE call'[c].agent # a
  BY <1>0, <1>1, <1>2, <1>3, LeaseStepEffect DEF LeaseWorks
<1>4. ASSUME NEW d \in Calls, Return(d) PROVE call'[c].agent # a
  <2>1. ~SlotIdle(Beat(a)) /\ c # d
    BY <1>0, <1>1, <1>4, ReturnEffect DEF IdleCall
  <2> QED
    BY <1>0, <1>2, <1>4, <2>1, ReturnEffect
<1>5. ASSUME NEW m \in Requests, NEW b \in Writers, Begin(m, "acquire", b, App)
      PROVE  call'[c].agent # a
  <2>1. ~SlotIdle(Beat(a)) /\ c # m
    BY <1>0, <1>1, <1>5, BeginEffect
  <2> QED
    BY <1>0, <1>1, <1>2, <1>5, <2>1, BeginEffect
<1>6. ASSUME NEW d \in Calls, d # Beat(a), NEW b \in Writers, BeatsOver(b), Begin(d, "release", b, App)
      PROVE  call'[c].agent # a
  <2>1. ~SlotIdle(Beat(a)) /\ SlotIdle(Beat(b))
    BY <1>0, <1>1, <1>6, BeginEffect DEF BeatsOver, NoLoss
  <2>2. CASE c = d
    BY <1>0, <1>6, <2>1, <2>2, BeginEffect
  <2>3. CASE c # d
    BY <1>0, <1>2, <1>6, <2>1, <2>3, BeginEffect
  <2> QED
    BY <2>2, <2>3
<1>7. ASSUME NEW b \in Writers, ReleasesOver(b), Begin(Beat(b), "heartbeat", b, App)
      PROVE  call'[c].agent # a
  <2>1. c # Beat(b) /\ call'[c] = call[c]
    BY <1>0, <1>1, <1>7, BeginEffect
  <2>2. CASE b = a
    BY <1>7, <2>1, <2>2 DEF ReleasesOver, NoLoss
  <2>3. CASE b # a
    BY <1>0, <1>1, <1>2, <1>7, <2>1, <2>3, BeginEffect
  <2> QED
    BY <2>2, <2>3
<1>8. UNCHANGED leaseVars => call'[c].agent # a
  BY <1>2 DEF leaseVars, SlotIdle
<1> QED
  BY <1>1, <1>3, <1>4, <1>5, <1>6, <1>7, <1>8, CallSteps
     DEF VoidReturns, PromptCatches, OnTurnStart, OnSettled, OnExit, OpStopped

(* A line that is handled, and one that is printed.                        *)
LEMMA AnswersTail ==
    ASSUME NEW p, stdout[p] \in Seq(Lines), stdout[p] # <<>>, AnswersOf(p),
           stdout'[p] = Tail(stdout[p]), running' = running, handle' = handle
    PROVE  AnswersOf(p)'
<1>1. /\ Len(stdout[p]) \in Nat /\ Len(stdout'[p]) = Len(stdout[p]) - 1
      /\ \A i \in 1..Len(stdout'[p]) : stdout'[p][i] = stdout[p][i + 1] /\ i + 1 \in 1..Len(stdout[p])
  OBVIOUS
<1> SUFFICES ASSUME handle[p] \in {"unborn", "open"}, NEW i \in 1..Len(stdout'[p]),
                    stdout'[p][i].kind = "response", stdout'[p][i].ok = TRUE, p \notin running
             PROVE  \E j \in i..Len(stdout'[p]) : stdout'[p][j].kind = "agent_settled"
  BY DEF AnswersOf
<1>2. PICK k \in (i + 1)..Len(stdout[p]) : stdout[p][k].kind = "agent_settled"
  BY <1>1 DEF AnswersOf
<1>3. k - 1 \in i..Len(stdout'[p]) /\ k - 1 \in 1..Len(stdout'[p]) /\ (k - 1) + 1 = k
  BY <1>1, <1>2
<1>4. stdout'[p][k - 1] = stdout[p][k]
  BY <1>1, <1>3
<1> QED
  BY <1>2, <1>3, <1>4

LEMMA AnswersPrint ==
    ASSUME NEW p, stdout[p] \in Seq(Lines), AnswersOf(p), NEW lines \in Seq(Lines),
           stdout'[p] = stdout[p] \o lines, handle' = handle,
           \/ p \in running'
           \/ lines # <<>> /\ lines[Len(lines)].kind = "agent_settled"
           \/ /\ p \notin running
              /\ \A i \in 1..Len(lines) : ~(lines[i].kind = "response" /\ lines[i].ok = TRUE)
    PROVE  AnswersOf(p)'
<1>1. /\ Len(stdout[p]) \in Nat /\ Len(lines) \in Nat
      /\ Len(stdout'[p]) = Len(stdout[p]) + Len(lines)
      /\ \A i \in 1..Len(stdout[p]) : stdout'[p][i] = stdout[p][i]
      /\ \A i \in (Len(stdout[p]) + 1)..Len(stdout'[p]) :
            stdout'[p][i] = lines[i - Len(stdout[p])]
  BY ConcatProperties
<1> SUFFICES ASSUME handle[p] \in {"unborn", "open"}, NEW i \in 1..Len(stdout'[p]),
                    stdout'[p][i].kind = "response", stdout'[p][i].ok = TRUE, p \notin running'
             PROVE  \E j \in i..Len(stdout'[p]) : stdout'[p][j].kind = "agent_settled"
  BY DEF AnswersOf
<1>2. CASE lines # <<>> /\ lines[Len(lines)].kind = "agent_settled"
  <2>1. Len(lines) > 0
    BY <1>2
  <2>2. Len(stdout'[p]) \in (Len(stdout[p]) + 1)..Len(stdout'[p]) /\ Len(stdout'[p]) \in i..Len(stdout'[p])
        /\ Len(stdout'[p]) - Len(stdout[p]) = Len(lines)
    BY <1>1, <2>1
  <2>3. stdout'[p][Len(stdout'[p])].kind = "agent_settled"
    BY <1>1, <1>2, <2>2
  <2> QED
    BY <2>2, <2>3
<1>3. CASE /\ p \notin running
           /\ \A k \in 1..Len(lines) : ~(lines[k].kind = "response" /\ lines[k].ok = TRUE)
  <2>1. i \in 1..Len(stdout[p])
    <3>1. CASE i \in (Len(stdout[p]) + 1)..Len(stdout'[p])
      <4>1. i - Len(stdout[p]) \in 1..Len(lines) /\ stdout'[p][i] = lines[i - Len(stdout[p])]
        BY <1>1, <3>1
      <4> QED
        BY <1>3, <4>1
    <3>2. i \in 1..Len(stdout[p]) \/ i \in (Len(stdout[p]) + 1)..Len(stdout'[p])
      BY <1>1
    <3> QED
      BY <3>1, <3>2
  <2>2. PICK j \in i..Len(stdout[p]) : stdout[p][j].kind = "agent_settled"
    BY <1>1, <1>3, <2>1 DEF AnswersOf
  <2>3. j \in i..Len(stdout'[p]) /\ j \in 1..Len(stdout[p])
    BY <1>1, <2>1, <2>2
  <2> QED
    BY <1>1, <2>2, <2>3
<1> QED
  BY <1>2, <1>3

(* What the child prints when it has read a prompt.                        *)
LEMMA RespondTypes ==
    ASSUME RpcTypeOK, NEW p \in Procs, Command(p, "prompt"), NEW ok \in BOOLEAN
    PROVE  Respond(p, ok) \in Lines /\ Respond(p, ok).ok = ok
<1>1. stdin[p] \in Seq(Commands) /\ stdin[p] # <<>> /\ Head(stdin[p]).kind = "prompt"
  BY DEF RpcTypeOK, Command
<1>2. Head(stdin[p]) \in Commands
  BY <1>1
<1>3. Head(stdin[p]).id \in Requests
  BY <1>1, <1>2 DEF Commands
<1> QED
  BY <1>3, LineTypes DEF Respond

(* Nothing dies or is lost, so each taken prompt is followed by its end.   *)
LEMMA AnswersKept ==
    ASSUME NoLoss, WorkInv, Next
    PROVE  Answers'
<1>0. /\ ManagerInv /\ Answers /\ RpcTypeOK
      /\ handle \in [Procs -> Handles] /\ stdin \in [Procs -> Seq(Commands)]
      /\ stdout \in [Procs -> Seq(Lines)]
  BY DEF WorkInv, ManagerInv, RpcInv, RpcTypeOK
<1>1. ASSUME NEW p \in Procs, stdout'[p] = stdout[p], p \in running => p \in running',
             handle'[p] \in {"unborn", "open"} => handle[p] \in {"unborn", "open"}
      PROVE  AnswersOf(p)'
  <2>1. AnswersOf(p)
    BY <1>0 DEF Answers
  <2> SUFFICES ASSUME handle'[p] \in {"unborn", "open"}, NEW i \in 1..Len(stdout[p]),
                      stdout[p][i].kind = "response", stdout[p][i].ok = TRUE, p \notin running'
               PROVE  \E j \in i..Len(stdout[p]) : stdout[p][j].kind = "agent_settled"
    BY <1>1 DEF AnswersOf
  <2>2. handle[p] \in {"unborn", "open"} /\ p \notin running
    BY <1>1
  <2> QED
    BY <2>1, <2>2 DEF AnswersOf
<1>2. ASSUME UNCHANGED <<stdout, running>>,
             \A p \in Procs : handle'[p] \in {"unborn", "open"} => handle[p] \in {"unborn", "open"}
      PROVE  Answers'
  BY <1>1, <1>2 DEF Answers
<1>3. ASSUME NEW p \in Procs, \A q \in Procs : q # p => stdout'[q] = stdout[q] /\ (q \in running => q \in running'),
             handle' = handle, AnswersOf(p)'
      PROVE  Answers'
  BY <1>1, <1>3 DEF Answers
<1>4. ASSUME NEW p \in Procs, ObjectStep(p) PROVE Answers'
  <2>1. CASE OnResponse(p) \/ \E kind \in Kinds : TakeEvent(p, kind)
    <3>1. /\ stdout[p] # <<>> /\ stdout' = [stdout EXCEPT ![p] = Tail(@)]
          /\ running' = running /\ handle' = handle
      BY <2>1 DEF OnResponse, TakeEvent, HasLine
    <3>2. stdout'[p] = Tail(stdout[p]) /\ \A q \in Procs : q # p => stdout'[q] = stdout[q]
      BY <1>0, <3>1
    <3>3. AnswersOf(p)'
      BY <1>0, <3>1, <3>2, AnswersTail DEF Answers
    <3> QED
      BY <1>3, <3>1, <3>2, <3>3
  <2>2. CASE Kill(p)
    <3>1. /\ stdout' = stdout /\ handle'[p] = "closed"
          /\ \A q \in Procs : q # p => handle'[q] = handle[q] /\ (q \in running => q \in running')
      BY <1>0, <2>2 DEF Kill
    <3>2. ASSUME NEW q \in Procs PROVE AnswersOf(q)'
      <4>1. CASE q = p
        BY <3>1, <4>1 DEF AnswersOf
      <4>2. CASE q # p
        BY <1>1, <3>1, <4>2
      <4> QED
        BY <4>1, <4>2
    <3> QED
      BY <3>2 DEF Answers
  <2>3. CASE Spawn(p) \/ ExitSeen(p) \/ Stop(p)
    BY <1>0, <1>2, <2>3 DEF Spawn, ExitSeen, Stop, Writable
  <2> QED
    BY <1>2, <1>4, <2>1, <2>2, <2>3 DEF ObjectStep, Write, Send, SendFails, TimeOut
<1>5. ASSUME NEW p \in Procs, NEW kinds, Write(p, kinds) \/ WriteAndStop(p, kinds) PROVE Answers'
  BY <1>0, <1>2, <1>5 DEF Write, WriteAndStop, Writable
<1>6. UNCHANGED rpcVars => Answers'
  BY <1>2 DEF rpcVars
<1>7. ASSUME NEW p \in Procs, NEW lines \in Seq(Lines), Prints(p, lines), handle' = handle,
             \A q \in Procs : q # p /\ q \in running => q \in running',
             \/ p \in running'
             \/ lines # <<>> /\ lines[Len(lines)].kind = "agent_settled"
             \/ /\ p \notin running
                /\ \A i \in 1..Len(lines) : ~(lines[i].kind = "response" /\ lines[i].ok = TRUE)
      PROVE  Answers'
  <2>1. stdout'[p] = stdout[p] \o lines /\ \A q \in Procs : q # p => stdout'[q] = stdout[q]
    BY <1>0, <1>7 DEF Prints
  <2>2. AnswersOf(p)'
    BY <1>0, <1>7, <2>1, AnswersPrint DEF Answers
  <2> QED
    BY <1>3, <1>7, <2>1, <2>2
<1>8. ASSUME NEW p \in Procs, ChildStep(p) PROVE Answers'
  <2>0. ~Fault("die") /\ ~Fault("handle")
    BY DEF NoLoss, Fault
  <2>1. CASE PiAccepts(p) \/ PiTurns(p) \/ PiAsks(p)
    <3> DEFINE turn == [kind |-> "turn_start"]
               ask == [kind |-> "ui_request"]
    <3>0. turn \in Lines /\ ask \in Lines
      BY LineTypes DEF Kinds
    <3>1. PICK lines \in Seq(Lines) : Prints(p, lines)
      <4>1. CASE PiAccepts(p)
        <5>1. Respond(p, TRUE) \in Lines
          BY <1>0, <4>1, RespondTypes DEF PiAccepts
        <5>2. Prints(p, <<Respond(p, TRUE)>>) \/ Prints(p, <<Respond(p, TRUE), turn>>)
          BY <4>1 DEF PiAccepts
        <5> HIDE DEF turn
        <5> QED
          BY <3>0, <5>1, <5>2, LineSequences
      <4>2. CASE PiTurns(p) \/ PiAsks(p)
        <5>1. Prints(p, <<turn>>) \/ Prints(p, <<ask>>)
          BY <4>2 DEF PiTurns, PiAsks
        <5> HIDE DEF turn, ask
        <5> QED
          BY <3>0, <5>1, LineSequences
      <4> QED
        BY <2>1, <4>1, <4>2
    <3>2. p \in running' /\ handle' = handle /\ running \subseteq running'
      BY <2>1 DEF PiAccepts, PiTurns, PiAsks
    <3> QED
      BY <1>7, <3>1, <3>2
  <2>2. CASE PiSettles(p) \/ (PiAborts(p) /\ p \in running)
    <3> DEFINE line == [kind |-> "agent_settled"]
    <3>1. Prints(p, <<line>>) /\ handle' = handle /\ \A q \in Procs : q # p /\ q \in running => q \in running'
      BY <2>2 DEF PiSettles, PiAborts
    <3>2. line \in Lines /\ line.kind = "agent_settled"
      BY LineTypes DEF Kinds
    <3> HIDE DEF line
    <3>3. <<line>> \in Seq(Lines) /\ <<line>> # <<>> /\ <<line>>[Len(<<line>>)].kind = "agent_settled"
      BY <3>2
    <3> QED
      BY <1>7, <3>1, <3>3
  <2>3. CASE PiAborts(p) /\ p \notin running
    <3>1. Prints(p, <<>>) /\ handle' = handle /\ \A q \in Procs : q # p /\ q \in running => q \in running'
      BY <2>3 DEF PiAborts
    <3>2. <<>> \in Seq(Lines) /\ \A i \in 1..Len(<<>>) : FALSE
      OBVIOUS
    <3> QED
      BY <1>7, <2>3, <3>1, <3>2
  <2>4. CASE PiRefuses(p)
    <3> DEFINE line == Respond(p, FALSE)
    <3>1. Prints(p, <<line>>) /\ handle' = handle /\ running' = running
      BY <2>4 DEF PiRefuses
    <3>2. line \in Lines /\ line.ok = FALSE
      <4>1. Command(p, "prompt")
        BY <2>4 DEF PiRefuses
      <4> QED
        BY <1>0, <4>1, RespondTypes DEF Respond
    <3> HIDE DEF line
    <3>3. <<line>> \in Seq(Lines) /\ \A i \in 1..Len(<<line>>) : <<line>>[i] = line
      BY <3>2
    <3> QED
      BY <1>7, <3>1, <3>2, <3>3
  <2>5. CASE PiGetsAnswer(p) \/ \E m \in Requests : TimeOut(p, m)
    BY <1>2, <2>5 DEF PiGetsAnswer, TimeOut
  <2>6. CASE handle[p] = "stopping" /\ PiDies(p)
    <3>1. UNCHANGED <<stdout, handle>> /\ \A q \in Procs : q # p /\ q \in running => q \in running'
      BY <2>6 DEF PiDies
    <3>2. AnswersOf(p)'
      BY <2>6, <3>1 DEF AnswersOf
    <3> QED
      BY <1>3, <3>1, <3>2
  <2>7. Kill(p) => Answers'
    BY <1>4 DEF ObjectStep
  <2> QED
    BY <1>8, <2>0, <2>1, <2>2, <2>3, <2>4, <2>5, <2>6, <2>7 DEF ChildStep, PiWorks, PiFaults
<1> QED
  BY <1>0, <1>4, <1>5, <1>6, <1>8, ObjectsOrChild DEF ObjectsStep

(* An operation waits for the child it stops.                              *)
LEMMA OpStopStays ==
    ASSUME ManagerInv, Next, NEW a \in Agents, op[a].pc = "stop"
    PROVE  op'[a] = op[a] \/ OpStopped(a)
<1>0. OwnTypes
  BY InvTypes
<1>1. ASSUME NEW b \in Agents, Flights(b) PROVE op'[a] = op[a]
  BY <1>0, <1>1, FlightEndsEffect
     DEF Flights, FlightSpawns, HandshakeDone, HistoryDone, FlightFails, FlightStopped
<1>2. ASSUME NEW b \in Agents, OpStep(b) PROVE op'[a] = op[a] \/ OpStopped(a)
  <2>1. CASE b # a
    BY <1>0, <1>2, <2>1
       DEF OpStep, Activate, OpStarts, OpBegins, Operations, OpStopped, OpReleased, OpEnsures,
           OpEnds, ActivateLooks, ActivateEnds, OpSets, OwnTypes
  <2>2. CASE b = a
    BY <1>2, <2>2
       DEF OpStep, Activate, OpStarts, OpBegins, Operations, OpReleased, OpEnsures,
           OpEnds, ActivateLooks, ActivateEnds, NoOp
  <2> QED
    BY <2>1, <2>2
<1> QED
  BY <1>1, <1>2, OpSteps

(* What becomes of a handle: a child is spawned, it is stopped by an       *)
(* operation on its agent or since its start failed, it is gone, or        *)
(* nothing happens to it.                                                  *)
Killed(p) ==
    \/ \E a \in Agents, kind \in {"reconnect", "reload", "reset", "close"} :
          OpStarts(a, kind) /\ processes[a] = p
    \/ \E a \in Agents : FlightFails(a) /\ flight[a].proc = p

LEMMA HandleSteps ==
    ASSUME "die" \notin Faults, ManagerInv, \A q \in Procs : handle[q] = "open" => q \in alive,
           Next, NEW p \in Procs
    PROVE  \/ handle'[p] = handle[p] /\ (handle[p] # "stopping" => (p \in alive' <=> p \in alive))
           \/ /\ handle[p] = "unborn" /\ handle'[p] = "open" /\ p \in alive'
              /\ \E a \in Agents : flight[a].pc = "config" /\ owner'[p] = a
           \/ Killed(p) /\ handle[p] = "open" /\ handle'[p] = "stopping"
           \/ handle[p] = "stopping" /\ handle'[p] = "closed" /\ p \notin alive'
<1>0. /\ ManagerInv /\ Children /\ OwnTypes /\ None \notin Procs
      /\ handle \in [Procs -> Handles] /\ alive \subseteq Procs
  BY InvTypes, ManagerAssumption DEF RpcInv, RpcTypeOK
<1> DEFINE Goal ==
      \/ handle'[p] = handle[p] /\ (handle[p] # "stopping" => (p \in alive' <=> p \in alive))
      \/ /\ handle[p] = "unborn" /\ handle'[p] = "open" /\ p \in alive'
         /\ \E a \in Agents : flight[a].pc = "config" /\ owner'[p] = a
      \/ Killed(p) /\ handle[p] = "open" /\ handle'[p] = "stopping"
      \/ handle[p] = "stopping" /\ handle'[p] = "closed" /\ p \notin alive'
<1>1. UNCHANGED <<handle, alive>> => Goal
  OBVIOUS
<1>2. UNCHANGED rpcVars => Goal
  BY DEF rpcVars
<1>3. ASSUME NEW c \in Calls, LeaseWorks(c) \/ VoidReturns(c) PROVE Goal
  BY <1>2, <1>3 DEF LeaseWorks, VoidReturns
<1>4. ASSUME NEW m \in Requests, PromptStep(m) PROVE Goal
  BY <1>1, <1>2, <1>4
     DEF PromptStep, Prompting, PromptStarts, PromptLeased, PromptEnsures, PromptMarks, PromptSends,
         Send, SendFails, PromptReturns, PromptCatches, PromptReleased
<1>5. ASSUME NEW q \in Procs, ChildStep(q) PROVE Goal
  <2>0. ~Fault("die")
    BY DEF Fault
  <2>1. CASE Kill(q) \/ (handle[q] = "stopping" /\ PiDies(q))
    BY <1>0, <2>1 DEF Kill, PiDies
  <2> QED
    BY <1>1, <1>5, <2>0, <2>1
       DEF ChildStep, PiWorks, PiFaults, PiAccepts, PiTurns, PiAsks, PiGetsAnswer, PiSettles,
           PiAborts, PiRefuses, PiHandles, TimeOut
<1>6. ASSUME NEW q \in Procs, Events(q) PROVE Goal
  <2>1. CASE ExitSeen(q)
    <3>1. handle[q] = "stopping" /\ q \notin alive /\ alive' = alive
      BY <2>1 DEF ExitSeen, Writable
    <3> QED
      BY <1>0, <2>1, <3>1 DEF ExitSeen
  <2> QED
    BY <1>1, <1>6, <2>1
       DEF Events, OnTurnStart, OnUiRequest, OnSettled, OnExit, OnLine, OnResponse, TakeEvent
<1>7. ASSUME NEW i \in Recoveries, RecoveryWakes(i) \/ RecoveryEnds(i) PROVE Goal
  BY <1>2, <1>7 DEF RecoveryWakes, RecoveryEnds, RecoveryUnchanged
<1>8. ASSUME NEW a \in Agents, Flights(a) PROVE Goal
  <2>1. CASE FlightSpawns(a)
    BY <1>0, <2>1 DEF FlightSpawns, Spawn, OwnTypes
  <2>2. CASE FlightFails(a)
    <3>1. flight[a].proc \in Procs
      BY <1>0, <2>2 DEF FlightFails, Children, Started
    <3>2. CASE flight[a].proc = p /\ handle[p] = "open"
      BY <1>0, <2>2, <3>2 DEF FlightFails, Stop, Killed, Writable
    <3>3. CASE ~(flight[a].proc = p /\ handle[p] = "open")
      BY <1>0, <2>2, <3>1, <3>3 DEF FlightFails, Stop, Writable
    <3> QED
      BY <3>2, <3>3
  <2> QED
    BY <1>2, <1>8, <2>1, <2>2 DEF Flights, HandshakeDone, HistoryDone, FlightStopped
<1>9. ASSUME NEW a \in Agents, OpStep(a) PROVE Goal
  <2>1. ASSUME NEW kind \in {"reconnect", "reload", "reset", "close"}, OpStarts(a, kind) PROVE Goal
    <3>1. CASE processes[a] = None
      BY <1>2, <2>1, <3>1 DEF OpStarts
    <3>2. CASE processes[a] # None
      <4>1. processes[a] \in Procs /\ handle[processes[a]] # "unborn"
        BY <1>0, <3>2 DEF Children, OwnTypes
      <4>2. alive' = alive /\ \/ handle' = handle /\ handle[processes[a]] # "open"
                              \/ handle' = [handle EXCEPT ![processes[a]] = "stopping"]
        BY <1>0, <2>1, <3>2, <4>1 DEF OpStarts, WriteAndStop, Stop, Writable
      <4>3. handle'[p] = handle[p] \/ (processes[a] = p /\ handle'[p] = "stopping")
        BY <1>0, <4>1, <4>2
      <4>4. processes[a] = p /\ handle'[p] = "stopping" => handle[p] \in {"open", "stopping"}
        BY <1>0, <2>1, <3>2, <4>1, <4>2 DEF OpStarts, WriteAndStop, Stop, Writable
      <4> QED
        BY <1>0, <2>1, <4>2, <4>3, <4>4 DEF Killed
    <3> QED
      BY <3>1, <3>2
  <2> QED
    BY <1>2, <1>9, <2>1
       DEF OpStep, Activate, Operations, OpStopped, OpReleased, OpEnsures, OpEnds,
           ActivateLooks, ActivateEnds
<1>10. ASSUME NEW a \in Agents, UserStep(a) PROVE Goal
  BY <1>1, <1>2, <1>10 DEF UserStep, RespondToExtensionUi, Abort, Write
<1> QED
  BY <1>3, <1>4, <1>5, <1>6, <1>7, <1>8, <1>9, <1>10, ManagerSteps

(* Without losses no start fails: only an operation stops a child.         *)
LEMMA OpsKill ==
    ASSUME NoLoss, WorkInv
    PROVE  /\ "die" \notin Faults /\ "handle" \notin Faults
           /\ \A p \in Procs : handle[p] = "open" => p \in alive
           /\ \A p \in Procs : Killed(p) /\ handle[p] = "open" =>
                 \E a \in Agents, kind \in {"reconnect", "reload", "reset", "close"} :
                     OpStarts(a, kind) /\ processes[a] = p
BY DEF NoLoss, WorkInv, Stops, Killed, FlightFails, Writable, Fault

LEMMA StopsKept ==
    ASSUME NoLoss, WorkInv, Next
    PROVE  Stops'
<1>0. /\ ManagerInv /\ Children /\ OwnTypes /\ Stops /\ None \notin Procs
      /\ handle \in [Procs -> Handles]
  BY InvTypes, ManagerAssumption DEF WorkInv, RpcInv, RpcTypeOK
<1> SUFFICES ASSUME NEW p \in Procs
             PROVE  /\ handle'[p] = "open" => p \in alive'
                    /\ handle'[p] = "stopping" =>
                          /\ owner'[p] \in Agents /\ op'[owner'[p]].pc = "stop"
                          /\ op'[owner'[p]].proc = p
  BY DEF Stops
<1>1. handle[p] # "unborn" => owner'[p] = owner[p]
  BY <1>0, SentStays
<1>2. CASE handle'[p] = "stopping" /\ handle[p] = "stopping"
  <2>1. owner[p] \in Agents /\ op[owner[p]].pc = "stop" /\ op[owner[p]].proc = p
    BY <1>0, <1>2 DEF Stops
  <2>2. ~OpStopped(owner[p])
    BY <1>0, <1>2, <2>1 DEF OpStopped, Stopped, Writable
  <2> QED
    BY <1>0, <1>1, <1>2, <2>1, <2>2, OpStopStays
<1>3. ASSUME NEW a \in Agents, NEW kind, OpStarts(a, kind), processes[a] = p, handle'[p] = "stopping"
      PROVE  owner'[p] \in Agents /\ op'[owner'[p]].pc = "stop" /\ op'[owner'[p]].proc = p
  <2>1. owner[p] = a /\ handle[p] # "unborn"
    BY <1>0, <1>3 DEF Children
  <2>2. op'[a].pc = "stop" /\ op'[a].proc = p
    BY <1>0, <1>3 DEF OpStarts, OpBegins, OwnTypes
  <2> QED
    BY <1>1, <1>3, <2>1, <2>2
<1> QED
  BY <1>0, <1>2, <1>3, OpsKill, HandleSteps DEF Stops

(* A prompt comes to the point of being sent with a process of its agent.  *)
LEMMA SendBefore ==
    ASSUME ManagerInv, Next, NEW m \in Requests, prompt'[m].pc \in {"up", "send"}
    PROVE  \/ /\ prompt[m].pc \in {"up", "send"}
              /\ prompt'[m].proc = prompt[m].proc /\ prompt'[m].agent = prompt[m].agent
           \/ /\ prompt'[m].proc \in Procs /\ owner[prompt'[m].proc] = prompt'[m].agent
              /\ handle[prompt'[m].proc] # "unborn"
<1>0. OwnTypes /\ OwnCallers /\ Children
  BY InvTypes
<1>1. ASSUME NEW n \in Requests, PromptStep(n), n # m PROVE prompt'[m] = prompt[m]
  BY <1>0, <1>1, OthersStay
<1>2. ASSUME NEW a \in Agents, PromptStarts(m, a) PROVE FALSE
  BY <1>0, <1>2 DEF PromptStarts, OwnTypes, PromptStates
<1>3. ASSUME NEW pc, SetPrompt(m, pc), pc \notin {"up", "send"} PROVE FALSE
  BY <1>0, <1>3, SetPromptEffect
<1>4. CASE PromptEnsures(m)
  <2>1. CASE SetPrompt(m, "await")
    BY <1>3, <2>1
  <2>2. CASE HasProcess(prompt[m].agent)
             /\ prompt' = [prompt EXCEPT ![m].pc = "up", ![m].proc = processes[prompt[m].agent]]
    <3>1. prompt[m].agent \in Agents
      BY <1>0, <1>4 DEF PromptEnsures, OwnCallers
    <3>2. prompt'[m].proc = processes[prompt[m].agent] /\ prompt'[m].agent = prompt[m].agent
      BY <1>0, <2>2 DEF OwnTypes, PromptStates
    <3>3. processes[prompt[m].agent] # None /\ processes[prompt[m].agent] \in Procs
      BY <1>0, <2>2, <3>1 DEF HasProcess, OwnTypes
    <3> QED
      BY <1>0, <3>1, <3>2, <3>3 DEF Children
  <2> QED
    BY <1>4, <2>1, <2>2 DEF PromptEnsures
<1>5. CASE PromptMarks(m)
  BY <1>0, <1>5, SetPromptEffect DEF PromptMarks
<1>6. CASE PromptLeased(m)
  BY <1>3, <1>6 DEF PromptLeased
<1>7. CASE PromptSends(m) \/ PromptReturns(m) \/ PromptReleased(m)
  BY <1>3, <1>7 DEF PromptSends, PromptReturns, PromptReleased
<1>8. CASE PromptCatches(m)
  BY <1>3, <1>8 DEF PromptCatches
<1>9. ASSUME NEW a \in Agents, Flights(a)
      PROVE  \/ prompt'[m] = prompt[m]
             \/ /\ prompt'[m].proc \in Procs /\ owner[prompt'[m].proc] = prompt'[m].agent
                /\ handle[prompt'[m].proc] # "unborn"
  <2>1. CASE HistoryDone(a)
    <3>1. /\ FlightEnds(a, "up", flight[a].proc) /\ flight[a].proc \in Procs
          /\ owner[flight[a].proc] = a /\ handle[flight[a].proc] # "unborn"
      BY <1>0, <2>1 DEF HistoryDone, Children, Started
    <3> QED
      BY <1>0, <3>1, FlightEndsEffect
  <2>2. CASE FlightStopped(a)
    <3>1. prompt' = prompt \/ FlightEnds(a, "down", None)
      BY <2>2 DEF FlightStopped
    <3> QED
      BY <1>0, <3>1, FlightEndsEffect
  <2> QED
    BY <1>9, <2>1, <2>2 DEF Flights, FlightSpawns, HandshakeDone, FlightFails
<1>10. CASE PromptStep(m)
  BY <1>2, <1>4, <1>5, <1>6, <1>7, <1>8, <1>10 DEF PromptStep, Prompting
<1> QED
  BY <1>1, <1>9, <1>10, PromptSteps

(* A request is pending since it was sent.                                 *)
LEMMA PendingBefore ==
    ASSUME ManagerInv, Next, NEW p \in Procs, NEW r \in pending'[p]
    PROVE  \/ r \in pending[p]
           \/ r \in Requests /\ PromptSends(r) /\ Send(prompt[r].proc, r) /\ prompt[r].proc = p
<1>0. /\ OwnTypes /\ OwnCallers /\ pending \in [Procs -> SUBSET Requests]
  BY InvTypes DEF RpcInv, RpcTypeOK
<1> DEFINE Less == \A q \in Procs : pending'[q] \subseteq pending[q]
<1>1. pending' = pending \/ UNCHANGED rpcVars => Less
  BY DEF rpcVars
<1>2. ASSUME NEW c \in Calls, LeaseWorks(c) \/ VoidReturns(c) PROVE Less
  BY <1>1, <1>2 DEF LeaseWorks, VoidReturns
<1>3. ASSUME NEW m \in Requests, PromptStep(m)
      PROVE  Less \/ (PromptSends(m) /\ Send(prompt[m].proc, m))
  BY <1>1, <1>3
     DEF PromptStep, Prompting, PromptStarts, PromptLeased, PromptEnsures, PromptMarks, PromptSends,
         SendFails, PromptReturns, PromptCatches, PromptReleased
<1>4. ASSUME NEW q \in Procs, ExitSeen(q) \/ Kill(q) \/ OnResponse(q)
                              \/ \E m \in Requests : TimeOut(q, m)
      PROVE  Less
  BY <1>0, <1>4 DEF ExitSeen, Kill, RejectPending, OnResponse, TimeOut
<1>5. ASSUME NEW q \in Procs, ChildStep(q) PROVE Less
  BY <1>1, <1>4, <1>5
     DEF ChildStep, PiWorks, PiFaults, PiAccepts, PiTurns, PiAsks, PiGetsAnswer, PiSettles,
         PiAborts, PiRefuses, PiHandles, PiDies
<1>6. ASSUME NEW q \in Procs, Events(q) PROVE Less
  BY <1>1, <1>4, <1>6
     DEF Events, OnTurnStart, OnUiRequest, OnSettled, OnExit, OnLine, TakeEvent
<1>7. ASSUME NEW i \in Recoveries, RecoveryWakes(i) \/ RecoveryEnds(i) PROVE Less
  BY <1>1, <1>7 DEF RecoveryWakes, RecoveryEnds, RecoveryUnchanged
<1>8. ASSUME NEW a \in Agents, Flights(a) PROVE Less
  BY <1>1, <1>8 DEF Flights, FlightSpawns, Spawn, HandshakeDone, HistoryDone, FlightFails, Stop,
                    FlightStopped
<1>9. ASSUME NEW a \in Agents, OpStep(a) PROVE Less
  BY <1>1, <1>9
     DEF OpStep, Activate, OpStarts, Stop, WriteAndStop, Operations, OpStopped, OpReleased,
         OpEnsures, OpEnds, ActivateLooks, ActivateEnds
<1>10. ASSUME NEW a \in Agents, UserStep(a) PROVE Less
  BY <1>1, <1>10 DEF UserStep, RespondToExtensionUi, Abort, Write
<1>11. ASSUME NEW m \in Requests, PromptSends(m), Send(prompt[m].proc, m)
       PROVE  r \in pending[p] \/ (r = m /\ prompt[m].proc = p)
  BY <1>0, <1>11 DEF Send
<1> QED
  BY <1>2, <1>3, <1>5, <1>6, <1>7, <1>8, <1>9, <1>10, <1>11, ManagerSteps

LEMMA SendsKept ==
    ASSUME NoLoss, WorkInv, Next
    PROVE  Sends'
<1>0. /\ ManagerInv /\ OwnTypes /\ OwnCallers /\ Sends /\ WaitingIsPending /\ NoWaitOnClosed
      /\ pending \in [Procs -> SUBSET Requests]
  BY InvTypes DEF WorkInv, RpcInv, RpcTypeOK
<1>1. \A p \in Procs : handle[p] # "unborn" => owner'[p] = owner[p] /\ handle'[p] # "unborn"
  BY <1>0, SentStays, HandleSteps, OpsKill
<1>2. ASSUME NEW m \in Requests, prompt'[m].pc \in {"up", "send"}
      PROVE  owner'[prompt'[m].proc] = prompt'[m].agent /\ handle'[prompt'[m].proc] # "unborn"
  <2>1. CASE /\ prompt[m].pc \in {"up", "send"}
             /\ prompt'[m].proc = prompt[m].proc /\ prompt'[m].agent = prompt[m].agent
    <3>1. /\ prompt[m].proc \in Procs /\ owner[prompt[m].proc] = prompt[m].agent
          /\ handle[prompt[m].proc] # "unborn"
      BY <1>0, <2>1 DEF OwnCallers, Sends
    <3>2. owner'[prompt[m].proc] = prompt[m].agent /\ handle'[prompt[m].proc] # "unborn"
      BY <1>1, <3>1
    <3> QED
      BY <2>1, <3>2
  <2>2. ASSUME NEW p, prompt'[m].proc = p, p \in Procs, owner[p] = prompt'[m].agent,
               handle[p] # "unborn"
        PROVE  owner'[p] = prompt'[m].agent /\ handle'[p] # "unborn"
    BY <1>1, <2>2
  <2> QED
    BY <1>0, <1>2, <2>1, <2>2, SendBefore
<1>3. ASSUME NEW p \in Procs, NEW r \in pending'[p]
      PROVE  prompt'[r].pc = "sent" /\ prompt'[r].agent = owner'[p]
  <2>1. CASE r \in pending[p]
    <3>1. /\ r \in Requests /\ result[r] = "waiting" /\ prompt[r].pc = "sent"
          /\ prompt[r].agent = owner[p]
      BY <1>0, <2>1 DEF WaitingIsPending, Sends
    <3>2. handle[p] # "unborn"
      BY <1>0, <2>1 DEF NoWaitOnClosed, Writable
    <3> QED
      BY <1>0, <1>1, <3>1, <3>2, SentStays
  <2>2. CASE r \in Requests /\ PromptSends(r) /\ prompt[r].proc = p
    <3>1. prompt'[r].pc = "sent" /\ prompt'[r].agent = prompt[r].agent
      BY <1>0, <2>2, SetPromptEffect DEF PromptSends
    <3>2. owner[p] = prompt[r].agent /\ owner' = owner
      BY <1>0, <2>2 DEF Sends, PromptSends, PromptUnchanged
    <3> QED
      BY <3>1, <3>2
  <2> QED
    BY <1>0, <1>3, <2>1, <2>2, PendingBefore
<1> QED
  BY <1>2, <1>3 DEF Sends

(* A request is answered by a response that is handled.                    *)
LEMMA AnsweredNow ==
    ASSUME ManagerInv, Next, NEW r \in Requests, result'[r] = "answered", result[r] # "answered"
    PROVE  \E p \in Procs :
              /\ OnLine(p) /\ OnResponse(p) /\ r \in pending[p]
              /\ Head(stdout[p]).kind = "response" /\ Head(stdout[p]).ok = TRUE
<1>0. /\ result \in [Requests -> Results] /\ pending \in [Procs -> SUBSET Requests]
      /\ stdout \in [Procs -> Seq(Lines)]
  BY InvTypes DEF RpcInv, RpcTypeOK
<1>1. result' = result \/ UNCHANGED rpcVars => FALSE
  BY DEF rpcVars
<1>2. ASSUME NEW c \in Calls, LeaseWorks(c) \/ VoidReturns(c) PROVE FALSE
  BY <1>1, <1>2 DEF LeaseWorks, VoidReturns
<1>3. ASSUME NEW m \in Requests, PromptStep(m) PROVE FALSE
  <2>1. CASE PromptSends(m)
    BY <1>0, <2>1 DEF PromptSends, Send, SendFails
  <2> QED
    BY <1>1, <1>3, <2>1
       DEF PromptStep, Prompting, PromptStarts, PromptLeased, PromptEnsures, PromptMarks,
           PromptReturns, PromptCatches, PromptReleased
<1>4. ASSUME NEW q \in Procs, ExitSeen(q) \/ Kill(q) \/ \E m \in Requests : TimeOut(q, m)
      PROVE  FALSE
  BY <1>0, <1>4 DEF ExitSeen, Kill, RejectPending, TimeOut
<1>5. ASSUME NEW q \in Procs, ChildStep(q) PROVE FALSE
  BY <1>1, <1>4, <1>5
     DEF ChildStep, PiWorks, PiFaults, PiAccepts, PiTurns, PiAsks, PiGetsAnswer, PiSettles,
         PiAborts, PiRefuses, PiHandles, PiDies
<1>6. ASSUME NEW q \in Procs, Events(q)
      PROVE  /\ OnLine(q) /\ OnResponse(q) /\ r \in pending[q]
             /\ Head(stdout[q]).kind = "response" /\ Head(stdout[q]).ok = TRUE
  <2>1. OnLine(q)
    BY <1>1, <1>4, <1>6 DEF Events, OnTurnStart, OnUiRequest, OnSettled, OnExit, TakeEvent
  <2>2. OnResponse(q) /\ stdout[q] # <<>> /\ Head(stdout[q]).kind = "response"
    BY <2>1 DEF OnLine, OnResponse, HasLine
  <2> DEFINE line == Head(stdout[q])
  <2>3. line.ok \in BOOLEAN
    <3>1. line \in Lines
      BY <1>0, <2>2
    <3> QED
      BY <2>2, <3>1 DEF Lines
  <2>4. /\ line.id \in pending[q]
        /\ result' = [result EXCEPT ![line.id] = IF line.ok THEN "answered" ELSE "refused"]
    BY <1>1, <2>2 DEF OnResponse
  <2>5. r = line.id /\ line.ok = TRUE
    <3> HIDE DEF line
    <3>1. r = line.id
      BY <1>0, <2>4
    <3> QED
      BY <1>0, <2>3, <2>4, <3>1
  <2> QED
    BY <2>1, <2>2, <2>4, <2>5
<1>7. ASSUME NEW i \in Recoveries, RecoveryWakes(i) \/ RecoveryEnds(i) PROVE FALSE
  BY <1>1, <1>7 DEF RecoveryWakes, RecoveryEnds, RecoveryUnchanged
<1>8. ASSUME NEW a \in Agents, Flights(a) PROVE FALSE
  BY <1>1, <1>8 DEF Flights, FlightSpawns, Spawn, HandshakeDone, HistoryDone, FlightFails, Stop,
                    FlightStopped
<1>9. ASSUME NEW a \in Agents, OpStep(a) PROVE FALSE
  BY <1>1, <1>9
     DEF OpStep, Activate, OpStarts, Stop, WriteAndStop, Operations, OpStopped, OpReleased,
         OpEnsures, OpEnds, ActivateLooks, ActivateEnds
<1>10. ASSUME NEW a \in Agents, UserStep(a) PROVE FALSE
  BY <1>1, <1>10 DEF UserStep, RespondToExtensionUi, Abort, Write
<1> QED
  BY <1>2, <1>3, <1>5, <1>6, <1>7, <1>8, <1>9, <1>10, ManagerSteps

(* A call that has the file, or is done, does not go back.                 *)
LEMMA LeaseStepAhead ==
    ASSUME LeaseTypes, NEW c \in Calls, LeaseStep(c), NEW d \in Calls
    PROVE  /\ call[d].pc \in {"fill", "lost", "ok"} => call'[d].pc \in {"fill", "lost", "ok"}
           /\ d # c => \/ call'[d] = call[d]
                       \/ call[d].pc = "fill" /\ call'[d].pc = "lost"
<1>0. call \in [Calls -> CallStates]
  BY DEF LeaseTypes, LeaseTypeOK
<1>1. ASSUME NEW pc, Goto(c, pc) \/ (\E lease : GotoWith(c, pc, lease)),
             call[c].pc \in {"fill", "lost", "ok"} => pc = "ok"
      PROVE  /\ call[d].pc \in {"fill", "lost", "ok"} => call'[d].pc \in {"fill", "lost", "ok"}
             /\ d # c => call'[d] = call[d]
  <2>1. call'[c].pc = pc /\ \A e \in Calls : e # c => call'[e] = call[e]
    BY <1>1, GotoEffect
  <2> QED
    BY <1>1, <2>1
<1>2. CASE Unlink(c)
  <2>1. call'[d] = IF d = c THEN [call[d] EXCEPT !.pc = "ok"]
                   ELSE IF call[d].pc = "fill" THEN [call[d] EXCEPT !.pc = "lost"]
                   ELSE call[d]
    BY <1>2 DEF Unlink
  <2>2. [call[d] EXCEPT !.pc = "ok"].pc = "ok" /\ [call[d] EXCEPT !.pc = "lost"].pc = "lost"
    BY <1>0 DEF CallStates
  <2> QED
    BY <2>1, <2>2
<1>3. CASE OpenNew(c) \/ OpenExisting(c) \/ ReadTorn(c) \/ Truncate(c) \/ Fill(c) \/ FillLost(c)
  BY <1>1, <1>3 DEF OpenNew, OpenExisting, ReadTorn, Truncate, Fill, FillLost, At
<1>4. CASE ReadAbsent(c) \/ ReadForeign(c) \/ ReadOwn(c) \/ ReadForClear(c)
  <2>1. call[c].pc = "read"
    BY <1>4 DEF ReadAbsent, ReadForeign, ReadOwn, ReadForClear, Reads, At
  <2>2. \E pc : Goto(c, pc) \/ (\E lease : GotoWith(c, pc, lease))
    BY <1>4 DEF ReadAbsent, ReadForeign, ReadOwn, ReadForClear
  <2> QED
    BY <1>1, <2>1, <2>2
<1> QED
  BY <1>2, <1>3, <1>4, <1>1 DEF LeaseStep

(* The call of a prompt that has the file stays with it.                   *)
LEMMA CallAhead ==
    ASSUME ManagerInv, Next, NEW m \in Requests, call[m].pc \in {"fill", "lost", "ok"}
    PROVE  call'[m].pc \in {"fill", "lost", "ok"} \/ PromptLeased(m) \/ PromptReleased(m)
<1>0. LeaseTypes /\ m \in Calls /\ ~SlotIdle(m)
  BY InvTypes, Slotted DEF SlotIdle
<1>1. ASSUME NEW c \in Calls, LeaseWorks(c) PROVE call'[m].pc \in {"fill", "lost", "ok"}
  BY <1>0, <1>1, LeaseStepAhead DEF LeaseWorks
<1>2. ASSUME NEW c \in Calls, VoidReturns(c) PROVE call'[m] = call[m]
  BY <1>0, <1>2, ReturnEffect, ManagerAssumption DEF VoidReturns
<1>3. ASSUME NEW c \in Calls, NEW kind, NEW a, Begin(c, kind, a, App) PROVE call'[m] = call[m]
  BY <1>0, <1>3, BeginEffect
<1>4. ASSUME NEW n \in Requests, n # m, Return(n) PROVE call'[m] = call[m]
  BY <1>0, <1>4, ReturnEffect, Slotted
<1>5. ASSUME NEW a \in Writers, Return(OpSlot(a)) PROVE call'[m] = call[m]
  BY <1>0, <1>5, ReturnEffect, Slotted
<1> QED
  BY <1>1, <1>2, <1>3, <1>4, <1>5, CallSteps, Slotted DEF leaseVars

(* A prompt that has the lease goes on until it is answered or fails.      *)
LEMMA PromptedStays ==
    ASSUME WorkInv, Next, NEW m \in Requests, Prompted(m)
    PROVE  /\ prompt'[m].agent = prompt[m].agent
           /\ \/ Prompted(m)' \/ PromptCatches(m)
              \/ prompt[m].pc = "sent" /\ result[m] # "answered" /\ result'[m] = "answered"
<1>0. /\ ManagerInv /\ OwnTypes /\ OwnCallers /\ result \in [Requests -> Results]
  BY InvTypes DEF WorkInv, RpcInv, RpcTypeOK
<1>1. prompt[m].pc # "new"
  BY DEF Prompted
<1>2. prompt'[m].agent = prompt[m].agent
  BY <1>0, <1>1, AgentStays DEF PromptStarts
<1>3. CASE prompt'[m] = prompt[m]
  <2>1. CASE prompt[m].pc = "lease"
    <3>1. ~PromptLeased(m) /\ ~PromptReleased(m)
      <4>1. ASSUME NEW pc, SetPrompt(m, pc), pc # "lease" PROVE FALSE
        BY <1>0, <1>3, <2>1, <4>1, SetPromptEffect
      <4> QED
        BY <2>1, <4>1 DEF PromptLeased, PromptReleased
    <3> QED
      BY <1>0, <1>3, <2>1, <3>1, CallAhead DEF Prompted
  <2> QED
    BY <1>3, <2>1 DEF Prompted
<1>4. CASE PromptStep(m)
  <2>1. ~PromptReturns(m) /\ ~PromptReleased(m) /\ ~(\E a \in Agents : PromptStarts(m, a))
    BY DEF Prompted, PromptReturns, PromptReleased, PromptStarts
  <2>2. ASSUME NEW pc, SetPrompt(m, pc), pc \in {"ensure", "await", "send"} PROVE Prompted(m)'
    BY <1>0, <2>2, SetPromptEffect DEF Prompted
  <2>3. CASE PromptLeased(m)
    <3>1. call[m].pc = "ok"
      BY <2>3 DEF PromptLeased, Return, Final, Prompted
    <3> QED
      BY <1>2, <2>2, <2>3, <3>1 DEF PromptLeased
  <2>4. CASE PromptEnsures(m)
    <3>1. CASE SetPrompt(m, "await")
      BY <1>2, <2>2, <3>1
    <3>2. CASE prompt' = [prompt EXCEPT ![m].pc = "up", ![m].proc = processes[prompt[m].agent]]
      BY <1>0, <3>2 DEF OwnTypes, PromptStates, Prompted
    <3> QED
      BY <2>4, <3>1, <3>2 DEF PromptEnsures
  <2>5. CASE PromptMarks(m)
    BY <1>2, <2>2, <2>5 DEF PromptMarks
  <2>6. CASE PromptSends(m)
    <3>1. prompt'[m].pc = "sent"
      BY <1>0, <2>6, SetPromptEffect DEF PromptSends
    <3>2. result'[m] # "answered"
      BY <1>0, <2>6 DEF PromptSends, Send, SendFails
    <3> QED
      BY <1>2, <3>1, <3>2 DEF Prompted
  <2> QED
    BY <1>2, <1>4, <2>1, <2>3, <2>4, <2>5, <2>6 DEF PromptStep, Prompting
<1>5. ASSUME NEW a \in Agents, Flights(a), prompt'[m] # prompt[m] PROVE Prompted(m)'
  <2>1. \E p : FlightEnds(a, "up", p) \/ FlightEnds(a, "down", p)
    BY <1>5 DEF Flights, FlightSpawns, HandshakeDone, HistoryDone, FlightFails, FlightStopped
  <2>2. prompt'[m].pc \in {"up", "down"}
    BY <1>0, <1>5, <2>1, FlightEndsEffect
  <2> QED
    BY <2>2 DEF Prompted
<1> QED
  BY <1>0, <1>2, <1>3, <1>4, <1>5, OthersStay, PromptSteps

(* A run goes on, or its end is printed, until it is handled.              *)
LEMMA RunSteps ==
    ASSUME "die" \notin Faults, "handle" \notin Faults, ManagerInv, Next, NEW p \in Procs, Ran(p)
    PROVE  p \in running' \/ Settles(p)' \/ OnSettled(p)
<1>0. /\ ManagerInv /\ RpcTypeOK /\ handle[p] = "open" /\ (p \in running \/ Settles(p))
      /\ stdin \in [Procs -> Seq(Commands)] /\ stdout \in [Procs -> Seq(Lines)]
      /\ stdout[p] \in Seq(Lines)
  BY DEF ManagerInv, RpcInv, RpcTypeOK, Ran
<1> DEFINE Goal == p \in running' \/ Settles(p)' \/ OnSettled(p)
<1>1. ASSUME stdout'[p] = stdout[p], p \in running => p \in running' PROVE Goal
  BY <1>0, <1>1 DEF Settles
<1>2. ASSUME NEW lines \in Seq(Lines), stdout'[p] = stdout[p] \o lines,
             \/ p \in running => p \in running'
             \/ lines # <<>> /\ lines[Len(lines)].kind = "agent_settled"
      PROVE  Goal
  <2>1. /\ Len(stdout[p]) \in Nat /\ Len(lines) \in Nat
        /\ Len(stdout'[p]) = Len(stdout[p]) + Len(lines)
        /\ \A i \in 1..Len(stdout[p]) : stdout'[p][i] = stdout[p][i] /\ i \in 1..Len(stdout'[p])
        /\ \A i \in (Len(stdout[p]) + 1)..Len(stdout'[p]) :
              stdout'[p][i] = lines[i - Len(stdout[p])]
    BY <1>0, <1>2, ConcatProperties
  <2>2. CASE Settles(p)
    BY <2>1, <2>2 DEF Settles
  <2>3. CASE p \in running /\ lines # <<>> /\ lines[Len(lines)].kind = "agent_settled"
    <3>1. Len(lines) > 0
      BY <2>3
    <3>2. /\ Len(stdout'[p]) \in (Len(stdout[p]) + 1)..Len(stdout'[p])
          /\ Len(stdout'[p]) \in 1..Len(stdout'[p])
          /\ Len(stdout'[p]) - Len(stdout[p]) = Len(lines)
      BY <2>1, <3>1
    <3> QED
      BY <2>1, <2>3, <3>2 DEF Settles
  <2> QED
    BY <1>0, <1>2, <2>2, <2>3
<1>3. ASSUME UNCHANGED <<stdout, running>> \/ UNCHANGED rpcVars PROVE Goal
  BY <1>1, <1>3 DEF rpcVars
<1>4. ASSUME NEW c \in Calls, LeaseWorks(c) \/ VoidReturns(c) PROVE Goal
  BY <1>3, <1>4 DEF LeaseWorks, VoidReturns
<1>5. ASSUME NEW m \in Requests, PromptStep(m) PROVE Goal
  BY <1>3, <1>5
     DEF PromptStep, Prompting, PromptStarts, PromptLeased, PromptEnsures, PromptMarks, PromptSends,
         Send, SendFails, PromptReturns, PromptCatches, PromptReleased
<1>6. ASSUME NEW q \in Procs, ChildStep(q) PROVE Goal
  <2>0. ~Fault("die") /\ ~Fault("handle")
    BY DEF Fault
  <2>1. CASE q # p
    <3>1. stdout'[p] = stdout[p] /\ (p \in running => p \in running')
      BY <1>0, <1>6, <2>0, <2>1
         DEF ChildStep, PiWorks, PiFaults, PiAccepts, PiTurns, PiAsks, PiGetsAnswer, PiSettles,
             PiAborts, PiRefuses, TimeOut, Kill, PiDies, Prints
    <3> QED
      BY <1>1, <3>1
  <2>2. ASSUME q = p PROVE Goal
    <3>1. CASE PiAccepts(p) \/ PiTurns(p) \/ PiAsks(p) \/ PiRefuses(p)
      <4> DEFINE turn == [kind |-> "turn_start"]
                 ask == [kind |-> "ui_request"]
      <4>1. turn \in Lines /\ ask \in Lines
        BY LineTypes DEF Kinds
      <4>2. PICK lines \in Seq(Lines) : Prints(p, lines)
        <5>1. CASE PiAccepts(p) \/ PiRefuses(p)
          <6>1. Respond(p, TRUE) \in Lines /\ Respond(p, FALSE) \in Lines
            BY <1>0, <5>1, RespondTypes DEF PiAccepts, PiRefuses
          <6>2. \/ Prints(p, <<Respond(p, TRUE)>>) \/ Prints(p, <<Respond(p, FALSE)>>)
                \/ Prints(p, <<Respond(p, TRUE), turn>>)
            BY <5>1 DEF PiAccepts, PiRefuses
          <6> HIDE DEF turn
          <6> QED
            BY <4>1, <6>1, <6>2, LineSequences
        <5>2. CASE PiTurns(p) \/ PiAsks(p)
          <6>1. Prints(p, <<turn>>) \/ Prints(p, <<ask>>)
            BY <5>2 DEF PiTurns, PiAsks
          <6> HIDE DEF turn, ask
          <6> QED
            BY <4>1, <6>1, LineSequences
        <5> QED
          BY <3>1, <5>1, <5>2
      <4>3. p \in running => p \in running'
        BY <3>1 DEF PiAccepts, PiTurns, PiAsks, PiRefuses
      <4>4. stdout'[p] = stdout[p] \o lines
        BY <1>0, <4>2 DEF Prints
      <4> QED
        BY <1>2, <4>2, <4>3, <4>4
    <3>2. CASE PiSettles(p) \/ (PiAborts(p) /\ p \in running)
      <4> DEFINE line == [kind |-> "agent_settled"]
      <4>1. Prints(p, <<line>>)
        BY <3>2 DEF PiSettles, PiAborts
      <4>2. line \in Lines /\ line.kind = "agent_settled"
        BY LineTypes DEF Kinds
      <4> HIDE DEF line
      <4>3. <<line>> \in Seq(Lines) /\ <<line>> # <<>> /\ <<line>>[Len(<<line>>)].kind = "agent_settled"
        BY <4>2
      <4>4. stdout'[p] = stdout[p] \o <<line>>
        BY <1>0, <4>1 DEF Prints
      <4> QED
        BY <1>2, <4>3, <4>4
    <3>3. CASE PiAborts(p) /\ p \notin running
      <4>1. stdout'[p] = stdout[p] \o <<>> /\ <<>> \in Seq(Lines)
        BY <1>0, <3>3 DEF PiAborts, Prints
      <4> QED
        BY <1>2, <3>3, <4>1
    <3>4. CASE PiGetsAnswer(p) \/ \E m \in Requests : TimeOut(p, m)
      BY <1>3, <3>4 DEF PiGetsAnswer, TimeOut
    <3> QED
      BY <1>0, <1>6, <2>0, <2>2, <3>1, <3>2, <3>3, <3>4 DEF ChildStep, PiWorks, PiFaults, Kill
  <2> QED
    BY <2>1, <2>2
<1>7. ASSUME NEW q \in Procs, Events(q) PROVE Goal
  <2>1. CASE OnExit(q)
    BY <1>3, <2>1 DEF OnExit, ExitSeen
  <2>2. CASE ~OnExit(q) /\ ~OnSettled(q)
    <3>1. /\ stdout[q] # <<>> /\ Head(stdout[q]).kind # "agent_settled"
          /\ stdout' = [stdout EXCEPT ![q] = Tail(@)] /\ running' = running
      BY <1>7, <2>2 DEF Events, OnTurnStart, OnUiRequest, OnLine, OnResponse, TakeEvent, HasLine
    <3>2. CASE q # p
      <4>1. stdout'[p] = stdout[p]
        BY <1>0, <3>1, <3>2
      <4> QED
        BY <1>1, <3>1, <4>1
    <3>3. CASE q = p /\ Settles(p)
      <4>1. stdout[p] # <<>> /\ stdout'[p] = Tail(stdout[p]) /\ stdout[p][1].kind # "agent_settled"
        BY <1>0, <3>1, <3>3
      <4>2. /\ Len(stdout[p]) \in Nat /\ Len(stdout'[p]) = Len(stdout[p]) - 1
            /\ \A i \in 1..Len(stdout'[p]) : stdout'[p][i] = stdout[p][i + 1]
        BY <1>0, <4>1
      <4>3. PICK i \in 1..Len(stdout[p]) : stdout[p][i].kind = "agent_settled"
        BY <3>3 DEF Settles
      <4>4. i - 1 \in 1..Len(stdout'[p]) /\ (i - 1) + 1 = i
        BY <4>1, <4>2, <4>3
      <4>5. stdout'[p][i - 1] = stdout[p][i]
        BY <4>2, <4>4
      <4> QED
        BY <4>3, <4>4, <4>5 DEF Settles
    <3> QED
      BY <1>0, <3>1, <3>2, <3>3
  <2>3. CASE OnSettled(q) /\ q # p
    <3>1. stdout'[p] = stdout[p] /\ running' = running
      BY <1>0, <2>3 DEF OnSettled, TakeEvent
    <3> QED
      BY <1>1, <3>1
  <2> QED
    BY <2>1, <2>2, <2>3
<1>8. ASSUME NEW i \in Recoveries, RecoveryWakes(i) \/ RecoveryEnds(i) PROVE Goal
  BY <1>3, <1>8 DEF RecoveryWakes, RecoveryEnds, RecoveryUnchanged
<1>9. ASSUME NEW a \in Agents, Flights(a) PROVE Goal
  BY <1>3, <1>9 DEF Flights, FlightSpawns, Spawn, HandshakeDone, HistoryDone, FlightFails, Stop,
                    FlightStopped
<1>10. ASSUME NEW a \in Agents, OpStep(a) PROVE Goal
  BY <1>3, <1>10
     DEF OpStep, Activate, OpStarts, Stop, WriteAndStop, Operations, OpStopped, OpReleased,
         OpEnsures, OpEnds, ActivateLooks, ActivateEnds
<1>11. ASSUME NEW a \in Agents, UserStep(a) PROVE Goal
  BY <1>3, <1>11 DEF UserStep, RespondToExtensionUi, Abort, Write
<1> QED
  BY <1>4, <1>5, <1>6, <1>7, <1>8, <1>9, <1>10, <1>11, ManagerSteps

(* A run is stopped by an operation on its agent, or it settles.           *)
LEMMA RanStays ==
    ASSUME NoLoss, WorkInv, Next, NEW p \in Procs, Ran(p)
    PROVE  /\ owner'[p] = owner[p]
           /\ Ran(p)' \/ op'[owner[p]].pc = "stop" \/ OnSettled(p)
<1>0. /\ ManagerInv /\ OwnTypes /\ Children /\ None \notin Procs
      /\ handle[p] = "open" /\ p \in alive
  BY InvTypes, ManagerAssumption DEF WorkInv, Ran, Stops
<1>1. owner'[p] = owner[p]
  BY <1>0, SentStays
<1>2. CASE handle'[p] = "open"
  BY <1>0, <1>1, <1>2, RunSteps, OpsKill DEF Ran
<1>3. ASSUME NEW a \in Agents, NEW kind, OpStarts(a, kind), processes[a] = p
      PROVE  op'[owner[p]].pc = "stop"
  <2>1. owner[p] = a
    BY <1>0, <1>3 DEF Children
  <2> QED
    BY <1>0, <1>3, <2>1 DEF OpStarts, OpBegins, OwnTypes
<1> QED
  BY <1>0, <1>1, <1>2, <1>3, OpsKill, HandleSteps

(* A release goes on until it has removed the lease of its agent, or has   *)
(* seen that there is none.                                                *)
LEMMA ReleaseStays ==
    ASSUME WorkInv, Next, NEW a \in Writers, NEW c \in Calls, call[c].agent = a, Releases(c)
    PROVE  call'[c].agent = a /\ (Releases(c)' \/ ~Marked(a)')
<1>0. LeaseTypes /\ Writes /\ Beat(a) \in Calls /\ SlotIdle(Beat(a)) /\ ~SlotIdle(c)
  BY InvTypes, Slotted DEF WorkInv, BeatsAlone, Releases, SlotIdle
<1>1. ASSUME LeaseStep(c) PROVE call'[c].agent = a /\ (Releases(c)' \/ ~Marked(a)')
  <2>1. call'[c].agent = a /\ call'[c].op = "release" /\ call'[Beat(a)].pc = "idle"
    BY <1>0, <1>1, LeaseStepEffect DEF Releases, SlotIdle
  <2>2. ~Names(a)' => ~Marked(a)'
    BY <2>1 DEF Marked
  <2>3. CASE Unlink(c)
    <3>1. file'.state = "absent"
      BY <2>3, LeaseParts DEF Unlink
    <3> QED
      BY <2>1, <2>2, <3>1 DEF Names
  <2>4. CASE ReadTorn(c) \/ ReadAbsent(c)
    <3>1. file'.state # "lease"
      BY <2>4, LeaseParts DEF ReadTorn, ReadAbsent
    <3> QED
      BY <2>1, <2>2, <3>1 DEF Names
  <2>5. CASE ReadForeign(c)
    <3>1. file'.holder # a
      BY <2>5 DEF ReadForeign, Reads
    <3> QED
      BY <2>1, <2>2, <3>1 DEF Names
  <2>6. CASE ReadOwn(c)
    <3>1. GotoWith(c, "unlink", file)
      BY <2>6 DEF ReadOwn, Releases
    <3>2. call'[c].pc = "unlink"
      BY <1>0, <3>1, GotoEffect
    <3> QED
      BY <2>1, <3>2 DEF Releases
  <2> QED
    BY <1>1, <2>3, <2>4, <2>5, <2>6
       DEF LeaseStep, OpenNew, OpenExisting, ReadForClear, Truncate, Fill, FillLost, At, Releases
<1>2. ASSUME call'[c] = call[c] PROVE call'[c].agent = a /\ Releases(c)'
  BY <1>2 DEF Releases
<1>3. ASSUME NEW d \in Calls, d # c, LeaseStep(d) PROVE call'[c] = call[c]
  BY <1>0, <1>3, LeaseStepAhead DEF Releases
<1>4. ASSUME NEW d \in Calls, NEW kind, NEW b, Begin(d, kind, b, App) PROVE call'[c] = call[c]
  BY <1>0, <1>4, BeginEffect
<1>5. ASSUME NEW d \in Calls, Return(d) PROVE call'[c] = call[c]
  <2>1. d # c
    BY <1>5 DEF Return, Final, Releases
  <2> QED
    BY <1>0, <1>5, <2>1, ReturnEffect
<1> QED
  BY <1>0, <1>1, <1>2, <1>3, <1>4, <1>5, CallSteps, Slotted DEF LeaseWorks, VoidReturns, leaseVars

(* The lease comes to name an agent when a prompt of it has acquired it.   *)
LEMMA MarkedBefore ==
    ASSUME WorkInv, Next, NEW a \in Writers, Marked(a)', ~Marked(a)
    PROVE  \E m \in Requests : prompt'[m].agent = a /\ Prompted(m)'
<1>0. /\ LeaseTypes /\ Writes /\ RequestSlots /\ AgentSlots /\ Beat(a) \in Calls
      /\ call[Beat(a)].pc \notin {"truncate", "fill"} /\ ~Names(a)
      /\ call[Beat(a)].pc # "idle" => call[Beat(a)].op = "heartbeat" /\ call[Beat(a)].agent = a
  BY InvTypes, Slotted DEF WorkInv, Marked, AgentSlots
<1>1. ASSUME file' = file, call'[Beat(a)].pc \notin {"truncate", "fill"} PROVE FALSE
  BY <1>0, <1>1 DEF Marked, Names
<1>2. ASSUME NEW c \in Calls, NEW kind, NEW b, Begin(c, kind, b, App) PROVE FALSE
  BY <1>0, <1>1, <1>2, BeginEffect
<1>3. ASSUME NEW c \in Calls, Return(c) PROVE FALSE
  BY <1>0, <1>1, <1>3, ReturnEffect DEF IdleCall
<1>4. ASSUME NEW c \in Calls, LeaseWorks(c)
      PROVE  \E m \in Requests : prompt'[m].agent = a /\ Prompted(m)'
  <2>0. LeaseStep(c) /\ prompt' = prompt
    BY <1>4 DEF LeaseWorks, managerVars
  <2>1. ASSUME NEW pc, Goto(c, pc) \/ (\E lease : GotoWith(c, pc, lease)),
               c = Beat(a) => pc \notin {"truncate", "fill"}
        PROVE  call'[Beat(a)].pc \notin {"truncate", "fill"}
    BY <1>0, <2>1, GotoEffect
  <2>2. CASE OpenNew(c)
    <3>1. c # Beat(a)
      BY <1>0, <2>2 DEF OpenNew, At, Writes, WriteOf
    <3>2. call'[Beat(a)].pc \notin {"truncate", "fill"} /\ file'.state = "torn"
      BY <2>1, <2>2, <3>1, LeaseParts DEF OpenNew
    <3> QED
      BY <3>2 DEF Marked, Names
  <2>3. CASE Truncate(c)
    <3>1. c # Beat(a)
      BY <1>0, <2>3 DEF Truncate, At
    <3>2. call'[Beat(a)].pc \notin {"truncate", "fill"} /\ file'.state = "torn"
      BY <2>1, <2>3, <3>1, LeaseParts DEF Truncate
    <3> QED
      BY <3>2 DEF Marked, Names
  <2>4. CASE OpenExisting(c) \/ ReadTorn(c) \/ FillLost(c)
    <3>1. Goto(c, "read") \/ Goto(c, "error") \/ Goto(c, "ok")
      BY <2>4 DEF OpenExisting, ReadTorn, FillLost
    <3>2. call'[Beat(a)].pc \notin {"truncate", "fill"}
      BY <2>1, <3>1
    <3> QED
      BY <1>1, <2>4, <3>2 DEF OpenExisting, ReadTorn, FillLost
  <2>5. CASE ReadAbsent(c) \/ ReadForeign(c) \/ ReadForClear(c)
    <3>1. PICK pc \in {"open", "ok", "conflict", "unlink", "error"} :
              Goto(c, pc) \/ \E lease : GotoWith(c, pc, lease)
      <4>1. CASE ReadAbsent(c)
        BY <4>1 DEF ReadAbsent
      <4>2. CASE ReadForeign(c)
        BY <4>2 DEF ReadForeign
      <4>3. CASE ReadForClear(c)
        BY <4>3 DEF ReadForClear
      <4> QED
        BY <2>5, <4>1, <4>2, <4>3
    <3>2. call'[Beat(a)].pc \notin {"truncate", "fill"}
      BY <2>1, <3>1
    <3> QED
      BY <1>1, <2>5, <3>2 DEF ReadAbsent, ReadForeign, ReadForClear, Reads
  <2>6. CASE ReadOwn(c)
    <3>1. c # Beat(a)
      BY <1>0, <2>6 DEF ReadOwn, Reads, At, Names
    <3>2. \E pc : GotoWith(c, pc, file)
      BY <2>6 DEF ReadOwn
    <3>3. call'[Beat(a)].pc \notin {"truncate", "fill"}
      BY <2>1, <3>1, <3>2
    <3> QED
      BY <1>1, <2>6, <3>3 DEF ReadOwn, Reads
  <2>7. CASE Unlink(c)
    <3>1. file'.state = "absent"
      BY <2>7, LeaseParts DEF Unlink
    <3>2. call'[Beat(a)].pc \notin {"truncate", "fill"}
      <4>1. CASE c = Beat(a)
        <5>1. call[c].pc = "unlink" /\ WriteOf(c) /\ call[c].op = "heartbeat"
          BY <1>0, <2>7, <4>1 DEF Unlink, At, Writes
        <5> QED
          BY <5>1 DEF WriteOf
      <4>2. CASE c # Beat(a)
        BY <1>0, <2>0, <4>2, LeaseStepAhead
      <4> QED
        BY <4>1, <4>2
    <3> QED
      BY <3>1, <3>2 DEF Marked, Names
  <2>8. CASE Fill(c)
    <3>1. /\ call[c].pc = "fill" /\ file' = call[c].seen /\ Goto(c, "ok")
          /\ call[c].seen.holder = call[c].agent /\ call[c].op # "release" /\ c # Beat(a)
      BY <1>0, <2>8 DEF Fill, At, Writes, WriteOf, Final
    <3>2. call'[c].pc = "ok" /\ call'[Beat(a)].pc \notin {"truncate", "fill"}
      BY <1>0, <2>1, <3>1, GotoEffect
    <3>3. call[c].agent = a
      BY <3>1, <3>2 DEF Marked, Names
    <3>4. c \in Requests
      BY <1>0, <3>1, <3>3, Slotted DEF AgentSlots
    <3>5. prompt[c].pc = "lease" /\ prompt[c].agent = a
      BY <1>0, <3>1, <3>3, <3>4 DEF RequestSlots
    <3> QED
      BY <2>0, <3>2, <3>4, <3>5 DEF Prompted
  <2> QED
    BY <2>0, <2>2, <2>3, <2>4, <2>5, <2>6, <2>7, <2>8 DEF LeaseStep
<1>5. UNCHANGED leaseVars => FALSE
  BY <1>0, <1>1 DEF leaseVars
<1> QED
  BY <1>2, <1>3, <1>4, <1>5, CallSteps, Slotted DEF VoidReturns

(* As long as the lease names an agent something leads to its release.     *)
LEMMA WorkedKept ==
    ASSUME NoLoss, WorkInv, Next
    PROVE  Worked'
<1>0. ManagerInv /\ OwnTypes /\ LeaseTypes /\ Worked /\ Answers /\ Stops /\ Sends
      /\ NoWaitOnClosed /\ RpcTypeOK
  BY InvTypes DEF WorkInv, RpcInv
<1> SUFFICES ASSUME NEW a \in Writers, Marked(a)' PROVE WorkedOn(a)'
  BY DEF Worked
<1>1. a \in Agents /\ Free(a) \in Calls /\ OpSlot(a) \in Calls /\ \A m \in Requests : m \in Calls
  BY Slotted
<1>2. ASSUME ~Marked(a) PROVE WorkedOn(a)'
  BY <1>2, MarkedBefore DEF WorkInv, WorkedOn
<1>3. ASSUME NEW c \in Calls, Begin(c, "release", a, App) PROVE WorkedOn(a)'
  <2>1. call'[c].op = "release" /\ call'[c].pc = "read" /\ call'[c].agent = a
    BY <1>0, <1>3, BeginEffect
  <2> QED
    BY <2>1 DEF WorkedOn, Releases
<1>4. ASSUME op[a].pc = "stop" PROVE WorkedOn(a)'
  BY <1>0, <1>1, <1>3, <1>4, OpStopStays DEF OpStopped, WorkedOn
<1>5. ASSUME NEW p \in Procs, owner[p] = a, Ran(p) PROVE WorkedOn(a)'
  <2>1. OnSettled(p) => WorkedOn(a)'
    BY <1>1, <1>3, <1>5 DEF OnSettled, VoidRelease
  <2> QED
    BY <1>1, <1>5, <2>1, RanStays DEF WorkedOn
<1>6. ASSUME NEW m \in Requests, prompt[m].agent = a, Prompted(m) PROVE WorkedOn(a)'
  <2>1. PromptCatches(m) => WorkedOn(a)'
    BY <1>1, <1>3, <1>6 DEF PromptCatches
  <2>2. ASSUME prompt[m].pc = "sent", result[m] # "answered", result'[m] = "answered"
        PROVE  WorkedOn(a)'
    <3>1. PICK p \in Procs : /\ OnLine(p) /\ OnResponse(p) /\ m \in pending[p]
                             /\ Head(stdout[p]).kind = "response" /\ Head(stdout[p]).ok = TRUE
      BY <1>0, <2>2, AnsweredNow
    <3>2. /\ stdout[p] \in Seq(Lines) /\ stdout[p] # <<>> /\ stdout \in [Procs -> Seq(Lines)]
          /\ stdout' = [stdout EXCEPT ![p] = Tail(@)] /\ handle' = handle /\ running' = running
      BY <1>0, <3>1 DEF RpcTypeOK, OnResponse, HasLine
    <3>3. stdout'[p] = Tail(stdout[p]) /\ 1 \in 1..Len(stdout[p]) /\ stdout[p][1] = Head(stdout[p])
      BY <3>2
    <3>4. owner[p] = a /\ owner'[p] = a /\ handle[p] \in {"open", "stopping"}
      <4>1. handle[p] \in {"open", "stopping"}
        BY <1>0, <3>1 DEF NoWaitOnClosed, Writable
      <4>2. owner[p] = a
        BY <1>0, <1>6, <3>1 DEF Sends
      <4> QED
        BY <1>0, <4>1, <4>2, SentStays
    <3>5. CASE handle[p] = "stopping"
      BY <1>0, <1>4, <3>4, <3>5 DEF Stops
    <3>6. CASE handle[p] = "open"
      <4>1. p \in running \/ \E j \in 1..Len(stdout[p]) : stdout[p][j].kind = "agent_settled"
        BY <1>0, <3>1, <3>3, <3>6 DEF Answers, AnswersOf
      <4>2. CASE p \in running
        BY <3>2, <3>4, <3>6, <4>2 DEF WorkedOn, Ran
      <4>3. CASE \E j \in 1..Len(stdout[p]) : stdout[p][j].kind = "agent_settled"
        <5>1. PICK j \in 1..Len(stdout[p]) : stdout[p][j].kind = "agent_settled"
          BY <4>3
        <5>2. j # 1
          BY <3>1, <3>3, <5>1
        <5>3. /\ Len(stdout[p]) \in Nat /\ Len(stdout'[p]) = Len(stdout[p]) - 1
              /\ \A i \in 1..Len(stdout'[p]) : stdout'[p][i] = stdout[p][i + 1]
          BY <3>2, <3>3
        <5>4. j - 1 \in 1..Len(stdout'[p]) /\ (j - 1) + 1 = j
          BY <5>1, <5>2, <5>3
        <5>5. stdout'[p][j - 1] = stdout[p][j]
          BY <5>3, <5>4
        <5>6. Settles(p)'
          BY <5>1, <5>4, <5>5 DEF Settles
        <5> QED
          BY <3>2, <3>4, <3>6, <5>6 DEF WorkedOn, Ran
      <4> QED
        BY <4>1, <4>2, <4>3
    <3> QED
      BY <3>4, <3>5, <3>6
  <2>3. /\ prompt'[m].agent = a
        /\ \/ Prompted(m)' \/ PromptCatches(m)
           \/ prompt[m].pc = "sent" /\ result[m] # "answered" /\ result'[m] = "answered"
    BY <1>6, PromptedStays
  <2> QED
    BY <2>1, <2>2, <2>3 DEF WorkedOn
<1>7. ASSUME NEW c \in Calls, call[c].agent = a, Releases(c) PROVE WorkedOn(a)'
  BY <1>7, ReleaseStays DEF WorkedOn
<1> QED
  BY <1>0, <1>2, <1>4, <1>5, <1>6, <1>7 DEF Worked, WorkedOn
-----------------------------------------------------------------------------
(* The invariant of the work, and what it is for.                          *)

LEMMA InitWork == Init => WorkInv
<1> SUFFICES ASSUME Init PROVE WorkInv
  OBVIOUS
<1>0. /\ ManagerInv
      /\ \A p \in Procs : handle[p] = "unborn" /\ stdout[p] = <<>> /\ pending[p] = {}
      /\ file = Absent /\ call = [c \in Calls |-> IdleCall]
      /\ prompt = [m \in Requests |-> [agent |-> None, proc |-> None, pc |-> "new"]]
  BY InitManager DEF Init, RpcInit
<1>1. \A c \in Calls : call[c] = IdleCall /\ call[c].pc = "idle" /\ call[c].op = IdleCall.op
  BY <1>0 DEF IdleCall
<1>2. \A m \in Requests : prompt[m].pc = "new"
  BY <1>0
<1>3. RequestSlots /\ AgentSlots /\ BeatsAlone
  BY <1>1, Slotted DEF RequestSlots, AgentSlots, BeatsAlone, SlotIdle
<1>4. Writes
  BY <1>1 DEF Writes, WriteOf, IdleCall
<1>5. Answers
  <2> SUFFICES ASSUME NEW p \in Procs PROVE AnswersOf(p)
    BY DEF Answers
  <2>1. 1..Len(stdout[p]) = {}
    BY <1>0
  <2> QED
    BY <2>1 DEF AnswersOf
<1>6. Stops /\ Sends
  BY <1>0, <1>2 DEF Stops, Sends
<1>7. Worked
  BY <1>0, <1>1, LeaseParts, Slotted DEF Worked, Marked, Names
<1> QED
  BY <1>0, <1>3, <1>4, <1>5, <1>6, <1>7 DEF WorkInv

LEMMA NextWork == NoLoss /\ WorkInv /\ [Next]_vars => WorkInv'
<1>1. NoLoss /\ WorkInv /\ Next => WorkInv'
  <2> SUFFICES ASSUME NoLoss, WorkInv, Next PROVE WorkInv'
    OBVIOUS
  <2>1. ManagerInv' /\ RequestSlots' /\ AgentSlots'
    BY NextManager, RequestSlotsKept, AgentSlotsKept DEF WorkInv
  <2> QED
    BY <2>1, WritesKept, BeatsAloneKept, AnswersKept, StopsKept, SendsKept, WorkedKept DEF WorkInv
<1>2. WorkInv /\ UNCHANGED vars => WorkInv'
  <2> SUFFICES ASSUME WorkInv, UNCHANGED vars PROVE WorkInv'
    OBVIOUS
  <2>1. ManagerInv'
    BY NextManager DEF WorkInv
  <2>2. /\ UNCHANGED <<file, call, handle, alive, stdout, pending, result, running>>
        /\ UNCHANGED <<owner, prompt, op>>
    BY DEF vars, leaseVars, rpcVars, managerVars
  <2>3. RequestSlots' /\ AgentSlots' /\ Writes' /\ BeatsAlone' /\ Stops' /\ Sends'
    BY <2>2 DEF WorkInv, RequestSlots, AgentSlots, SlotIdle, Writes, WriteOf, BeatsAlone, Stops, Sends
  <2>4. Answers'
    BY <2>2 DEF WorkInv, Answers, AnswersOf
  <2>5. Worked'
    BY <2>2 DEF WorkInv, Worked, Marked, Names, WorkedOn, Prompted, Ran, Settles, Releases
  <2> QED
    BY <2>1, <2>3, <2>4, <2>5 DEF WorkInv
<1> QED
  BY <1>1, <1>2

(* When no child dies or fails to start, no prompt is handled as a command *)
(* and the lease calls of one agent do not overlap, a lease on disk is     *)
(* worked for: as long as it names an agent, a prompt, a run or its end, an *)
(* operation or a release of that agent is under way.  It does not matter  *)
(* whether the user waits, which prompts are refused or which time out.    *)
THEOREM LeasesAreWorkedFor ==
    ASSUME NoLoss
    PROVE  Spec => []LeaseIsWorkedFor
<1>1. WorkInv => LeaseIsWorkedFor
  <2> SUFFICES ASSUME WorkInv, NEW a \in Writers, Names(a), Quiet(a) PROVE FALSE
    BY DEF LeaseIsWorkedFor
  <2>0. WorkedOn(a) /\ RequestSlots /\ AgentSlots
    BY DEF WorkInv, Worked, Marked
  <2>1. /\ \A m \in Requests : prompt[m].agent = a => prompt[m].pc \in {"done", "failed"}
        /\ op[a] = NoOp /\ SlotIdle(Free(a))
        /\ \A p \in Procs : owner[p] = a => p \notin running /\ stdout[p] = <<>>
    BY DEF Quiet, PromptsReturned
  <2>2. CASE \E m \in Requests : prompt[m].agent = a /\ Prompted(m)
    BY <2>1, <2>2 DEF Prompted
  <2>3. CASE \E p \in Procs : owner[p] = a /\ Ran(p)
    <3>1. PICK p \in Procs : owner[p] = a /\ Ran(p)
      BY <2>3
    <3>2. 1..Len(stdout[p]) = {} /\ p \notin running
      BY <2>1, <3>1
    <3> QED
      BY <3>1, <3>2 DEF Ran, Settles
  <2>4. CASE op[a].pc = "stop"
    BY <2>1, <2>4 DEF NoOp
  <2>5. CASE \E c \in Calls : call[c].agent = a /\ Releases(c)
    <3>1. PICK c \in Calls : call[c].agent = a /\ Releases(c)
      BY <2>5
    <3>2. call[c].op = "release" /\ call[c].pc # "idle"
      BY <3>1 DEF Releases
    <3>3. CASE c \in Requests
      BY <2>0, <2>1, <3>1, <3>2, <3>3 DEF RequestSlots
    <3>4. CASE \E b \in Writers : c = Beat(b) \/ c = Free(b) \/ c = OpSlot(b)
      <4>1. PICK b \in Writers : c = Beat(b) \/ c = Free(b) \/ c = OpSlot(b)
        BY <3>4
      <4>2. c # Beat(b)
        BY <2>0, <3>2, <4>1 DEF AgentSlots
      <4>3. c = Free(b) \/ c = OpSlot(b)
        BY <4>1, <4>2
      <4>4. b = a
        BY <2>0, <3>1, <3>2, <4>1, <4>3 DEF AgentSlots
      <4> QED
        BY <2>0, <2>1, <3>2, <4>3, <4>4 DEF AgentSlots, SlotIdle, NoOp
    <3> QED
      BY <3>3, <3>4, Slotted
  <2> QED
    BY <2>0, <2>2, <2>3, <2>4, <2>5 DEF WorkedOn
<1>2. Init => WorkInv
  BY InitWork
<1>3. WorkInv /\ [Next]_vars => WorkInv'
  BY NextWork
<1> QED
  BY <1>1, <1>2, <1>3, PTL DEF Spec

-----------------------------------------------------------------------------
(* Quiet agents leave nothing.  The user waits, and nothing goes wrong but *)
(* starts of children.                                                     *)

StartsOnly == UserWaits /\ Faults \subseteq {"start"}

(* A run goes on, or its end is printed and not handled yet.               *)
Lasts(p) == p \in running \/ Settles(p)

Printed == \A p \in Procs : stdout[p] # <<>> => Lasts(p)

(* An agent shown at work has a prompt about to be sent or something under *)
(* way in a process of its own; a request shown is one of such a run.      *)
AtWork(a) ==
    \/ \E m \in Requests : prompt[m].agent = a /\ prompt[m].pc = "send"
    \/ \E p \in Procs : owner[p] = a /\ Live(p)

Shown ==
    \A a \in Agents :
        /\ status[a] \in {"running", "waiting"} => AtWork(a)
        /\ asked[a] # None => owner[asked[a]] = a /\ Lasts(asked[a])

(* activate() looks at a process of its agent, which does not run then.    *)
Looks ==
    \A a \in Agents :
        /\ op[a].pc \in {"up", "quiet"} => /\ op[a].proc # None /\ owner[op[a].proc] = a
                                           /\ handle[op[a].proc] # "unborn"
        /\ op[a].pc # "streaming"

(* A child that is being stopped is waited for, by an operation or a start *)
(* that failed.                                                            *)
Awaits(a, p) ==
    \/ op[a].pc = "stop" /\ op[a].proc = p
    \/ flight[a].pc \in {"fallback", "failing"} /\ flight[a].proc = p

Stopping ==
    \A p \in Procs :
        /\ handle[p] \in {"unborn", "closed"} => p \notin alive
        /\ handle[p] = "stopping" => \E a \in Agents : owner[p] = a /\ Awaits(a, p)

(* Once an operation has stopped the child of an agent there is none until *)
(* it goes on; after a reset it never does.                                *)
Left ==
    \A a \in Agents :
        /\ op[a].pc \in {"stop", "release"} => processes[a] = None
        /\ op[a].pc = "release" \/ a \in retired =>
              \A p \in Procs : owner[p] = a => handle[p] \in {"unborn", "closed"}
        /\ a \in retired => /\ op[a] = NoOp
                            /\ \A m \in Requests : prompt[m].agent = a => ~Active(m)

LeaveInv == CoverInv /\ Printed /\ Shown /\ Looks /\ Stopping /\ Left

(* Where a run lasts its child is open.                                    *)
LEMMA LastsLives ==
    ASSUME LeaveInv, NEW p \in Procs, Lasts(p)
    PROVE  Live(p) /\ handle[p] = "open" /\ Ran(p) /\ owner[p] \in Agents
<1>1. stdout[p] = <<>> => 1..Len(stdout[p]) = {}
  OBVIOUS
<1>2. Live(p)
  BY <1>1 DEF Lasts, Settles, Live
<1> QED
  BY <1>2 DEF LeaveInv, CoverInv, Lives, LifeOf, Ran, Lasts

(* A run lasts until its end is handled.                                   *)
LEMMA LastsStays ==
    ASSUME StartsOnly, LeaveInv, Next, NEW p \in Procs, Lasts(p)
    PROVE  owner'[p] = owner[p] /\ (Lasts(p)' \/ OnSettled(p))
<1>1. ManagerInv /\ "die" \notin Faults /\ "handle" \notin Faults
  BY DEF LeaveInv, CoverInv, StartsOnly
<1>2. p \in running' \/ Settles(p)' \/ OnSettled(p)
  BY <1>1, LastsLives, RunSteps
<1>3. owner'[p] = owner[p]
  BY <1>1, LastsLives, SentStays
<1> QED
  BY <1>2, <1>3 DEF Lasts

(* Who prints while it does not run and nothing waits in stdout begins a   *)
(* run.                                                                    *)
LEMMA PrintsRun ==
    ASSUME StartsOnly, LeaveInv, Next, NEW p \in Procs, stdout[p] = <<>>, p \notin running,
           stdout'[p] # <<>>
    PROVE  p \in running'
<1>0. /\ ManagerInv /\ stdout \in [Procs -> Seq(Lines)] /\ asking \subseteq running
  BY DEF LeaveInv, CoverInv, ManagerInv, RpcInv, RpcTypeOK
<1>1. ASSUME ObjectsStep PROVE FALSE
  <2>1. ASSUME NEW q \in Procs, ObjectStep(q) PROVE FALSE
    <3>1. ~OnResponse(p) /\ \A kind : ~TakeEvent(p, kind)
      BY DEF OnResponse, TakeEvent, HasLine
    <3>2. \/ stdout' = stdout
          \/ OnResponse(q) \/ \E kind \in Kinds : TakeEvent(q, kind)
      BY <2>1 DEF ObjectStep, Spawn, ExitSeen, Kill, Stop, Write, Send, SendFails,
                     TimeOut
    <3>3. ASSUME q # p, OnResponse(q) \/ \E kind \in Kinds : TakeEvent(q, kind)
          PROVE  stdout'[p] = stdout[p]
      BY <1>0, <3>3 DEF OnResponse, TakeEvent
    <3> QED
      BY <3>1, <3>2, <3>3
  <2>2. ASSUME NEW q \in Procs, NEW kinds \in Told, Write(q, kinds) \/ WriteAndStop(q, kinds)
        PROVE  FALSE
    BY <2>2 DEF Write, WriteAndStop
  <2> QED
    BY <1>1, <2>1, <2>2 DEF ObjectsStep, rpcVars
<1>2. ASSUME NEW q \in Procs, ChildStep(q) PROVE p \in running'
  <2>0. ~Fault("die") /\ ~Fault("handle") /\ ~Fault("refuse")
    BY DEF Fault, StartsOnly
  <2>1. CASE q # p
    <3>1. stdout'[p] = stdout[p]
      BY <1>0, <1>2, <2>0, <2>1
         DEF ChildStep, PiWorks, PiFaults, PiAccepts, PiTurns, PiAsks, PiGetsAnswer, PiSettles,
             PiAborts, TimeOut, Kill, PiDies, Prints
    <3> QED
      BY <3>1
  <2>2. CASE PiAccepts(p)
    BY <2>2 DEF PiAccepts
  <2>3. CASE q = p /\ ~PiAccepts(p)
    <3>1. CASE PiAborts(p)
      BY <1>0, <3>1 DEF PiAborts, Prints
    <3>2. CASE ~PiAborts(p)
      BY <1>0, <1>2, <2>0, <2>3, <3>2
         DEF ChildStep, PiWorks, PiFaults, PiTurns, PiAsks, PiGetsAnswer, PiSettles, TimeOut, Kill,
             PiDies
    <3> QED
      BY <3>1, <3>2
  <2> QED
    BY <2>1, <2>2, <2>3
<1> QED
  BY <1>0, <1>1, <1>2, ObjectsOrChild

LEMMA PrintedKept ==
    ASSUME StartsOnly, LeaveInv, Next
    PROVE  Printed'
<1> SUFFICES ASSUME NEW p \in Procs, stdout'[p] # <<>> PROVE Lasts(p)'
  BY DEF Printed
<1>0. stdout \in [Procs -> Seq(Lines)] /\ PipesOf(p)
  BY DEF LeaveInv, CoverInv, ManagerInv, RpcInv, RpcTypeOK, Pipes
<1>1. CASE ~Lasts(p)
  BY <1>1, PrintsRun DEF LeaveInv, Printed, Lasts
<1>2. ASSUME Lasts(p), OnSettled(p) PROVE FALSE
  <2>1. /\ stdout[p] # <<>> /\ stdout[p][1].kind = "agent_settled" /\ stdout[p] \in Seq(Lines)
        /\ stdout'[p] = Tail(stdout[p])
    BY <1>0, <1>2 DEF OnSettled, TakeEvent, HasLine
  <2>2. 1 \in 1..Len(stdout[p]) /\ Len(stdout[p]) \in Nat
    BY <2>1
  <2>3. Len(stdout[p]) = 1
    BY <1>0, <2>1, <2>2 DEF PipesOf
  <2>4. Len(stdout'[p]) = 0 /\ stdout'[p] \in Seq(Lines)
    BY <2>1, <2>3
  <2> QED
    BY <2>4, EmptySeq
<1> QED
  BY <1>1, <1>2, LastsStays

(* What is under way stays so until the end of the run is handled.         *)
LEMMA LiveStays ==
    ASSUME StartsOnly, LeaveInv, Next, NEW p \in Procs, Live(p)
    PROVE  owner'[p] = owner[p] /\ (Live(p)' \/ OnSettled(p))
<1>0. /\ CoverInv /\ ManagerInv /\ RpcInv /\ Pipes /\ pending \in [Procs -> SUBSET Requests]
      /\ handle[p] = "open" /\ UserWaits
  BY DEF LeaveInv, CoverInv, ManagerInv, RpcInv, RpcTypeOK, Lives, LifeOf, StartsOnly
<1>1. owner'[p] = owner[p]
  BY <1>0, SentStays
<1>2. CASE Lasts(p)
  <2>1. Lasts(p)' => Live(p)'
    <3>1. stdout'[p] = <<>> => 1..Len(stdout'[p]) = {}
      OBVIOUS
    <3> QED
      BY <3>1 DEF Lasts, Settles, Live
  <2> QED
    BY <1>1, <1>2, <2>1, LastsStays
<1>3. ASSUME ~Lasts(p) PROVE pending'[p] # {}
  <2>0. stdout[p] = <<>> /\ pending[p] # {}
    BY <1>3 DEF LeaveInv, Printed, Lasts, Live
  <2>1. ASSUME NEW m \in Requests, SendStep(m) PROVE pending'[p] # {}
    BY <1>0, <2>0, <2>1 DEF SendStep, Send
  <2>2. CASE WriteStep
    BY <2>0, <2>2 DEF WriteStep, Write, WriteAndStop
  <2>3. ASSUME NEW q \in Procs, PiLives(q) PROVE pending'[p] # {}
    BY <2>0, <2>3 DEF PiLives, PiAccepts, PiHandles, PiRefuses, PiTurns, PiAsks, PiGetsAnswer,
                      PiSettles, PiAborts
  <2>4. ASSUME NEW q \in Procs, LineStep(q) PROVE pending'[p] # {}
    <3>1. OnResponse(q) \/ \E kind \in Kinds : TakeEvent(q, kind)
      BY <2>4 DEF LineStep, OnTurnStart, OnUiRequest, OnSettled, OnLine, Kinds
    <3>2. q # p
      BY <2>0, <3>1 DEF OnResponse, TakeEvent, HasLine
    <3> QED
      BY <1>0, <2>0, <3>1, <3>2, LinePipes
  <2>5. ASSUME NEW q \in Procs, EndStep(q) PROVE pending'[p] # {}
    <3>1. UNCHANGED pending
      BY <1>0, <2>5, NotLive, EndPipes DEF EndStep
    <3> QED
      BY <2>0, <3>1
  <2>6. CASE PipesRest
    BY <2>0, <2>6 DEF PipesRest
  <2> QED
    BY <1>0, <2>1, <2>2, <2>3, <2>4, <2>5, <2>6, PipeSteps
<1> QED
  BY <1>1, <1>2, <1>3 DEF Live

(* A prompt about to be sent is sent to a process of its agent, where it   *)
(* is under way then.                                                      *)
LEMMA SendGoes ==
    ASSUME StartsOnly, LeaveInv, Next, NEW m \in Requests, prompt[m].pc = "send"
    PROVE  \/ prompt'[m] = prompt[m]
           \/ \E p \in Procs : owner'[p] = prompt[m].agent /\ Live(p)'
<1>0. /\ CoverInv /\ ManagerInv /\ OwnTypes /\ RpcInv /\ UserWaits
      /\ pending \in [Procs -> SUBSET Requests]
  BY InvTypes DEF LeaveInv, CoverInv, RpcInv, RpcTypeOK, StartsOnly
<1>1. ASSUME PromptSends(m) PROVE \E p \in Procs : owner'[p] = prompt[m].agent /\ Live(p)'
  <2>1. PICK p \in Procs : /\ p = prompt[m].proc /\ handle[p] = "open"
                           /\ owner[p] = prompt[m].agent /\ owner' = owner
    BY <1>0, <1>1, NotLive DEF PromptSends, PromptUnchanged
  <2>2. Send(p, m)
    BY <1>1, <2>1 DEF PromptSends, SendFails, Writable
  <2>3. m \in pending'[p]
    BY <1>0, <2>1, <2>2 DEF Send
  <2>4. Live(p)'
    BY <2>3 DEF Live
  <2> QED
    BY <2>1, <2>4
<1>2. ASSUME NEW n \in Requests, PromptStep(n), n # m PROVE prompt'[m] = prompt[m]
  BY <1>0, <1>2, OthersStay
<1>3. ASSUME PromptStep(m), ~PromptSends(m) PROVE FALSE
  BY <1>3 DEF PromptStep, Prompting, PromptStarts, PromptLeased, PromptEnsures, PromptMarks,
              PromptReturns, PromptCatches, PromptReleased
<1>4. ASSUME NEW a \in Agents, Flights(a) PROVE prompt'[m] = prompt[m]
  <2>1. ASSUME NEW pc, NEW p, FlightEnds(a, pc, p) PROVE prompt'[m] = prompt[m]
    BY <1>0, <2>1, FlightEndsEffect
  <2> QED
    BY <1>4, <2>1 DEF Flights, FlightSpawns, HandshakeDone, HistoryDone, FlightFails, FlightStopped
<1> QED
  BY <1>1, <1>2, <1>3, <1>4, PromptSteps

(* Who is shown at work: a prompt was just marked, or a request arrived.   *)
LEMMA StatusBefore ==
    ASSUME StartsOnly, LeaveInv, Next, NEW a \in Agents,
           status'[a] \in {"running", "waiting"}, status[a] \notin {"running", "waiting"}
    PROVE  \/ \E m \in Requests : PromptMarks(m) /\ prompt[m].agent = a
           \/ \E p \in Procs : OnUiRequest(p) /\ owner[p] = a
<1>0. /\ OwnTypes /\ status \in [Agents -> Statuses] /\ status'[a] # status[a]
  BY InvTypes DEF LeaveInv, CoverInv, OwnTypes
<1>1. ASSUME NEW m \in Requests, PromptStep(m) PROVE PromptMarks(m) /\ prompt[m].agent = a
  BY <1>0, <1>1 DEF PromptStep, Prompting, PromptStarts, PromptLeased, PromptEnsures, PromptMarks,
                    PromptSends, PromptReturns, PromptCatches, PromptReleased
<1>2. ASSUME NEW p \in Procs, Events(p) PROVE OnUiRequest(p) /\ owner[p] = a
  <2>1. CASE OnUiRequest(p)
    BY <1>0, <2>1 DEF OnUiRequest
  <2>2. CASE OnSettled(p)
    BY <1>0, <2>2 DEF OnSettled
  <2> QED
    BY <1>0, <1>2, <2>1, <2>2 DEF Events, OnTurnStart, OnExit, OnLine, managerVars
<1>3. ASSUME NEW i \in Recoveries, RecoveryWakes(i) \/ RecoveryEnds(i) PROVE FALSE
  BY <1>3 DEF LeaveInv, CoverInv, Actors, NoRecovery, RecoveryWakes, RecoveryEnds
<1>4. ASSUME NEW b \in Agents, OpStep(b) PROVE FALSE
  <2>1. ASSUME NEW s, OpSets(b, s), s \in {status[b], "idle", "failed"} PROVE FALSE
    BY <1>0, <2>1 DEF OpSets
  <2>2. CASE OpEnds(b)
    BY <2>1, <2>2 DEF OpEnds
  <2>3. CASE ActivateLooks(b)
    <3>1. ~(op[b].pc = "up" /\ asked[b] # None)
      <4> SUFFICES ASSUME op[b].pc = "up", asked[b] # None PROVE FALSE
        OBVIOUS
      <4>1. asked[b] \in Procs /\ owner[asked[b]] = b /\ Lasts(asked[b])
        BY <1>0 DEF LeaveInv, Shown, OwnTypes
      <4>2. op[b] # NoOp
        BY DEF NoOp
      <4> QED
        BY <4>1, <4>2, LastsLives, OpAlone DEF LeaveInv, CoverInv
    <3> QED
      BY <1>0, <2>3, <3>1 DEF ActivateLooks
  <2>4. CASE ActivateEnds(b)
    <3>1. op[b].pc = "quiet"
      BY <2>4 DEF ActivateEnds, LeaveInv, Looks
    <3> QED
      BY <2>1, <2>4, <3>1 DEF ActivateEnds
  <2> QED
    BY <1>0, <1>4, <2>2, <2>3, <2>4
       DEF OpStep, Activate, OpStarts, OpBegins, Operations, OpStopped, OpReleased, OpEnsures
<1> QED
  BY <1>0, <1>1, <1>2, <1>3, <1>4, ManagerSteps
     DEF LeaseWorks, VoidReturns, managerVars, ChildStep, PiWorks, PiFaults, Flights, FlightSpawns,
         HandshakeDone, HistoryDone, FlightFails, FlightStopped, UserStep, RespondToExtensionUi,
         Abort, UserUnchanged

(* What becomes of the request shown.                                      *)
LEMMA AskedSteps ==
    ASSUME ManagerInv, Next, NEW a \in Agents
    PROVE  \/ asked'[a] \in {asked[a], None}
           \/ \E p \in Procs : OnUiRequest(p) /\ owner[p] = a /\ asked'[a] = p
<1>0. asked \in [Agents -> Procs \cup {None}]
  BY InvTypes DEF OwnTypes
<1>1. ASSUME NEW p \in Procs, Events(p)
      PROVE  asked'[a] \in {asked[a], None} \/ (OnUiRequest(p) /\ owner[p] = a /\ asked'[a] = p)
  BY <1>0, <1>1 DEF Events, OnTurnStart, OnUiRequest, OnSettled, OnExit, OnLine, managerVars
<1>2. ASSUME NEW b \in Agents, OpStep(b) \/ UserStep(b) PROVE asked'[a] \in {asked[a], None}
  BY <1>0, <1>2
     DEF OpStep, Activate, OpStarts, Operations, OpStopped, OpReleased, OpEnsures, OpEnds,
         ActivateLooks, ActivateEnds, UserStep, RespondToExtensionUi, Abort
<1> QED
  BY <1>1, <1>2, ManagerSteps
     DEF LeaseWorks, VoidReturns, managerVars, PromptStep, Prompting, PromptStarts, PromptLeased,
         PromptEnsures, PromptMarks, PromptSends, PromptReturns, PromptCatches, PromptReleased,
         PromptUnchanged, ChildStep, PiWorks, PiFaults, RecoveryWakes, RecoveryEnds,
         RecoveryUnchanged, Flights, FlightSpawns, HandshakeDone, HistoryDone, FlightFails,
         FlightStopped

LEMMA ShownKept ==
    ASSUME StartsOnly, LeaveInv, Next
    PROVE  Shown'
<1>0. /\ ManagerInv /\ OwnTypes /\ Lives /\ status \in [Agents -> Statuses]
      /\ asked \in [Agents -> Procs \cup {None}] /\ asking \subseteq running
  BY InvTypes DEF LeaveInv, CoverInv, OwnTypes, RpcInv, RpcTypeOK
<1>1. ASSUME NEW p \in Procs, OnUiRequest(p), Live(p)
      PROVE  owner'[p] = owner[p] /\ Live(p)' /\ Lasts(p)'
  <2>1. stdout[p] # <<>> /\ Head(stdout[p]).kind = "ui_request" /\ ~OnSettled(p)
    BY <1>1 DEF OnUiRequest, OnSettled, TakeEvent, HasLine
  <2>2. Lasts(p)
    BY <2>1 DEF LeaveInv, Printed
  <2> QED
    BY <1>1, <2>1, <2>2, LastsStays, LiveStays
<1>2. ASSUME NEW p \in Procs, OnUiRequest(p) PROVE Live(p)
  BY <1>2 DEF OnUiRequest, TakeEvent, HasLine, Live
<1>3. ASSUME NEW p \in Procs, OnSettled(p), owner[p] \in Agents
      PROVE  status'[owner[p]] = "idle" /\ asked'[owner[p]] = None
  BY <1>0, <1>3 DEF OnSettled
<1>4. ASSUME NEW a \in Agents, status'[a] \in {"running", "waiting"} PROVE AtWork(a)'
  <2>1. ASSUME NEW m \in Requests, prompt[m].agent = a, prompt[m].pc = "send" PROVE AtWork(a)'
    BY <2>1, SendGoes DEF AtWork
  <2>2. ASSUME NEW p \in Procs, owner[p] = a, Live(p) PROVE AtWork(a)'
    BY <1>3, <1>4, <2>2, LiveStays DEF AtWork
  <2>3. ASSUME NEW m \in Requests, PromptMarks(m), prompt[m].agent = a PROVE AtWork(a)'
    <3>1. prompt'[m].agent = a /\ prompt'[m].pc = "send"
      BY <1>0, <2>3, SetPromptEffect DEF PromptMarks
    <3> QED
      BY <3>1 DEF AtWork
  <2>4. ASSUME NEW p \in Procs, OnUiRequest(p), owner[p] = a PROVE AtWork(a)'
    BY <1>1, <1>2, <2>4 DEF AtWork
  <2>5. status[a] \in {"running", "waiting"} => AtWork(a)
    BY DEF LeaveInv, Shown
  <2>6. CASE status[a] \in {"running", "waiting"}
    BY <2>1, <2>2, <2>5, <2>6 DEF AtWork
  <2>7. CASE status[a] \notin {"running", "waiting"}
    BY <1>4, <2>3, <2>4, <2>7, StatusBefore
  <2> QED
    BY <2>6, <2>7
<1>5. ASSUME NEW a \in Agents, asked'[a] # None
      PROVE  owner'[asked'[a]] = a /\ Lasts(asked[a])'
  <2>1. CASE asked'[a] = asked[a]
    <3>1. asked[a] \in Procs /\ owner[asked[a]] = a /\ Lasts(asked[a])
      BY <1>0, <1>5, <2>1 DEF LeaveInv, Shown
    <3>2. ASSUME NEW p \in Procs, asked[a] = p, asked'[a] = p, owner[p] = a, Lasts(p)
          PROVE  owner'[p] = a /\ Lasts(p)'
      BY <1>3, <1>5, <3>2, LastsStays
    <3> QED
      BY <2>1, <3>1, <3>2 DEF Lasts, Settles
  <2>2. ASSUME NEW p \in Procs, OnUiRequest(p), owner[p] = a, asked'[a] = p
        PROVE  owner'[asked'[a]] = a /\ Lasts(asked[a])'
    <3>1. owner'[p] = a /\ Lasts(p)'
      BY <1>1, <1>2, <2>2
    <3> QED
      BY <2>2, <3>1 DEF Lasts, Settles
  <2> QED
    BY <1>0, <1>5, <2>1, <2>2, AskedSteps
<1> QED
  BY <1>4, <1>5 DEF Shown

(* The process of a start, and who awaits it.                              *)
LEMMA LooksKept ==
    ASSUME StartsOnly, LeaveInv, Next
    PROVE  Looks'
<1>0. /\ ManagerInv /\ OwnTypes /\ Children /\ Looks /\ None \notin Procs
      /\ "die" \notin Faults /\ \A q \in Procs : handle[q] = "open" => q \in alive
      /\ op \in [Agents -> OpStates]
  BY InvTypes, ManagerAssumption DEF LeaveInv, CoverInv, Hold, StartsOnly, OwnTypes
<1>1. \A p \in Procs : handle[p] # "unborn" => owner'[p] = owner[p] /\ handle'[p] # "unborn"
  BY <1>0, SentStays, HandleSteps
<1> SUFFICES ASSUME NEW a \in Agents
             PROVE  /\ op'[a].pc \in {"up", "quiet"} =>
                          /\ op'[a].proc # None /\ owner'[op'[a].proc] = a
                          /\ handle'[op'[a].proc] # "unborn"
                    /\ op'[a].pc # "streaming"
  BY DEF Looks
<1> DEFINE Goal == /\ op'[a].pc \in {"up", "quiet"} =>
                         /\ op'[a].proc # None /\ owner'[op'[a].proc] = a
                         /\ handle'[op'[a].proc] # "unborn"
                   /\ op'[a].pc # "streaming"
<1>2. ASSUME NEW p \in Procs, op'[a].proc = p, owner[p] = a, handle[p] # "unborn",
             op'[a].pc # "streaming"
      PROVE  Goal
  BY <1>0, <1>1, <1>2
<1>3. ASSUME op'[a].proc = op[a].proc, op[a].pc \in {"up", "quiet"}, op'[a].pc # "streaming" PROVE Goal
  <2>1. op[a].proc \in Procs /\ owner[op[a].proc] = a /\ handle[op[a].proc] # "unborn"
    BY <1>0, <1>3 DEF Looks, OpStates
  <2> QED
    BY <1>2, <1>3, <2>1
<1>4. CASE op'[a] = op[a]
  <2>1. CASE op[a].pc \in {"up", "quiet"}
    BY <1>0, <1>3, <1>4, <2>1
  <2>2. CASE op[a].pc \notin {"up", "quiet"}
    BY <1>0, <1>4, <2>2 DEF Looks
  <2> QED
    BY <2>1, <2>2
<1>5. ASSUME NEW b \in Agents, Flights(b) PROVE Goal
  <2>1. ASSUME NEW pc, NEW p, FlightEnds(b, pc, p), pc = "down" \/ (pc = "up" /\ p = flight[b].proc),
               flight[b].pc = "history" \/ pc = "down"
        PROVE  Goal
    <3>1. CASE op'[a] = op[a]
      BY <1>4, <3>1
    <3>2. CASE op'[a] # op[a]
      <4>1. b = a /\ op'[a].pc = pc /\ op'[a].proc = p
        BY <1>0, <2>1, <3>2, FlightEndsEffect
      <4>2. CASE pc = "down"
        BY <4>1, <4>2
      <4>3. CASE pc = "up" /\ p = flight[b].proc
        <5>1. p \in Procs /\ owner[p] = a /\ handle[p] # "unborn"
          BY <1>0, <2>1, <4>1, <4>3 DEF Children, Started
        <5> QED
          BY <1>2, <4>1, <4>3, <5>1
      <4> QED
        BY <2>1, <4>2, <4>3
    <3> QED
      BY <3>1, <3>2
  <2>2. CASE HistoryDone(b)
    BY <2>1, <2>2 DEF HistoryDone
  <2>3. CASE FlightStopped(b)
    BY <1>4, <2>1, <2>3 DEF FlightStopped
  <2> QED
    BY <1>4, <1>5, <2>2, <2>3 DEF Flights, FlightSpawns, HandshakeDone, FlightFails
<1>6. ASSUME NEW b \in Agents, OpStep(b) PROVE Goal
  <2>1. CASE b # a
    <3>1. op'[a] = op[a]
      BY <1>0, <1>6, <2>1
         DEF OpStep, Activate, OpStarts, OpBegins, Operations, OpStopped, OpReleased, OpEnsures,
             OpEnds, ActivateLooks, ActivateEnds, OpSets
    <3> QED
      BY <1>4, <3>1
  <2>2. ASSUME NEW pc, op' = [op EXCEPT ![a].pc = pc], pc \notin {"up", "streaming"},
               pc = "quiet" => op[a].pc = "up"
        PROVE  Goal
    <3>1. op'[a].pc = pc /\ op'[a].proc = op[a].proc
      BY <1>0, <2>2 DEF OpStates
    <3> QED
      BY <1>3, <2>2, <3>1
  <2>3. CASE op'[a] = NoOp
    BY <2>3 DEF NoOp
  <2>4. ASSUME NEW kind, NEW pc \in {"stop", "ensure"}, OpBegins(a, kind, pc) PROVE Goal
    BY <1>0, <2>4 DEF OpBegins
  <2>5. CASE OpEnsures(a)
    <3>1. CASE op' = [op EXCEPT ![a].pc = "await"]
      <4>1. op'[a].pc = "await"
        BY <1>0, <3>1 DEF OpStates
      <4> QED
        BY <4>1
    <3>2. CASE HasProcess(a) /\ op' = [op EXCEPT ![a].pc = "up", ![a].proc = processes[a]]
      <4>1. op'[a].pc = "up" /\ op'[a].proc = processes[a]
        BY <1>0, <3>2 DEF OpStates
      <4>2. processes[a] \in Procs /\ owner[processes[a]] = a /\ handle[processes[a]] # "unborn"
        BY <1>0, <3>2 DEF HasProcess, OwnTypes, Children
      <4> QED
        BY <1>2, <4>1, <4>2
    <3> QED
      BY <2>5, <3>1, <3>2 DEF OpEnsures
  <2>6. CASE ActivateLooks(a)
    <3>1. CASE op[a].pc = "down" \/ op[a].proc \notin alive \/ (op[a].pc = "up" /\ asked[a] # None)
      BY <1>0, <2>3, <2>6, <3>1 DEF ActivateLooks, OpSets
    <3>2. CASE op[a].pc = "up" /\ op[a].proc \in alive /\ asked[a] = None
      <4>1. op[a] # NoOp /\ op[a].proc \in Procs /\ owner[op[a].proc] = a
        BY <1>0, <3>2 DEF NoOp, Looks, OpStates
      <4>2. op[a].proc \notin running
        BY <4>1, OpAlone DEF LeaveInv, CoverInv, Live
      <4>3. op' = [op EXCEPT ![a].pc = "quiet"]
        BY <1>0, <2>6, <3>2, <4>2 DEF ActivateLooks
      <4>4. op'[a].pc = "quiet" /\ op'[a].proc = op[a].proc
        BY <1>0, <4>3 DEF OpStates
      <4> QED
        BY <1>3, <3>2, <4>4
    <3> QED
      BY <2>6, <3>1, <3>2 DEF ActivateLooks
  <2>7. CASE OpReleased(a)
    BY <1>0, <2>2, <2>3, <2>7 DEF OpReleased
  <2>8. CASE OpStopped(a)
    BY <2>2, <2>8 DEF OpStopped
  <2>9. CASE OpEnds(a) \/ ActivateEnds(a)
    BY <1>0, <2>3, <2>9 DEF OpEnds, ActivateEnds, OpSets
  <2> QED
    BY <1>6, <2>1, <2>4, <2>5, <2>6, <2>7, <2>8, <2>9 DEF OpStep, Activate, OpStarts, Operations
<1> QED
  BY <1>4, <1>5, <1>6, OpSteps

(* A start that failed waits for the child it stops.                       *)
LEMMA FlightStopStays ==
    ASSUME ManagerInv, Next, NEW a \in Agents, flight[a].pc \in {"fallback", "failing"}
    PROVE  flight'[a] = flight[a] \/ FlightStopped(a)
<1>0. OwnTypes /\ flight \in [Agents -> FlightStates] /\ flight[a] # NoFlight
  BY InvTypes DEF OwnTypes, NoFlight
<1>1. ASSUME NEW b, JoinFlight(b) PROVE flight'[a] = flight[a]
  BY <1>0, <1>1 DEF JoinFlight
<1>2. ASSUME NEW b \in Agents, Flights(b), ~FlightStopped(a) PROVE flight'[a] = flight[a]
  <2>1. CASE b # a
    <3>1. ASSUME NEW pc, NEW p, FlightEnds(b, pc, p) PROVE flight'[a] = flight[a]
      BY <1>0, <2>1, <3>1, FlightEndsEffect
    <3> QED
      BY <1>0, <1>2, <2>1, <3>1
         DEF Flights, FlightSpawns, HandshakeDone, HistoryDone, FlightFails, FlightStopped
  <2>2. CASE b = a
    BY <1>2, <2>2 DEF Flights, FlightSpawns, HandshakeDone, HistoryDone, FlightFails
  <2> QED
    BY <2>1, <2>2
<1> QED
  BY <1>1, <1>2, ManagerSteps
     DEF LeaseWorks, VoidReturns, managerVars, PromptStep, Prompting, PromptStarts, PromptLeased,
         PromptEnsures, PromptMarks, PromptSends, PromptReturns, PromptCatches, PromptReleased,
         PromptUnchanged, ChildStep, PiWorks, PiFaults, Events, OnTurnStart, OnUiRequest, OnSettled,
         OnExit, OnLine, EventUnchanged, RecoveryWakes, RecoveryEnds, RecoveryUnchanged, OpStep,
         Activate, OpStarts, OpBegins, Operations, OpStopped, OpReleased, OpEnsures, OpEnds,
         ActivateLooks, ActivateEnds, OpUnchanged, UserStep, RespondToExtensionUi, Abort,
         UserUnchanged

LEMMA StoppingKept ==
    ASSUME StartsOnly, LeaveInv, Next
    PROVE  Stopping'
<1>0. /\ ManagerInv /\ OwnTypes /\ Children /\ Stopping /\ handle \in [Procs -> Handles]
      /\ "die" \notin Faults /\ \A q \in Procs : handle[q] = "open" => q \in alive
  BY InvTypes DEF LeaveInv, CoverInv, Hold, StartsOnly, RpcInv, RpcTypeOK
<1> SUFFICES ASSUME NEW p \in Procs
             PROVE  /\ handle'[p] \in {"unborn", "closed"} => p \notin alive'
                    /\ handle'[p] = "stopping" => \E a \in Agents : owner'[p] = a /\ Awaits(a, p)'
  BY DEF Stopping, Awaits
<1>1. handle'[p] \in {"unborn", "closed"} => p \notin alive'
  BY <1>0, HandleSteps DEF Stopping
<1>2. ASSUME handle[p] # "unborn", NEW a \in Agents, owner[p] = a, Awaits(a, p)'
      PROVE  \E b \in Agents : owner'[p] = b /\ Awaits(b, p)'
  <2>1. owner'[p] = a
    BY <1>0, <1>2, SentStays
  <2> QED
    BY <1>2, <2>1 DEF Awaits
<1>3. CASE handle[p] = "stopping" /\ handle'[p] = "stopping"
  <2>1. PICK a \in Agents : owner[p] = a /\ Awaits(a, p)
    BY <1>0, <1>3 DEF Stopping
  <2>2. ~Stopped(p)
    BY <1>3 DEF Stopped, Writable
  <2>3. CASE op[a].pc = "stop" /\ op[a].proc = p
    <3>1. ~OpStopped(a)
      BY <1>0, <2>2, <2>3, ManagerAssumption DEF OpStopped
    <3>2. op'[a] = op[a]
      BY <1>0, <2>3, <3>1, OpStopStays
    <3> QED
      BY <1>1, <1>2, <1>3, <2>1, <2>3, <3>2 DEF Awaits
  <2>4. CASE flight[a].pc \in {"fallback", "failing"} /\ flight[a].proc = p
    <3>1. ~FlightStopped(a)
      BY <2>2, <2>4 DEF FlightStopped
    <3>2. flight'[a] = flight[a]
      BY <1>0, <2>4, <3>1, FlightStopStays
    <3> QED
      BY <1>1, <1>2, <1>3, <2>1, <2>4, <3>2 DEF Awaits
  <2> QED
    BY <2>1, <2>3, <2>4 DEF Awaits
<1>4. ASSUME handle[p] = "open", Killed(p)
      PROVE  \E a \in Agents : owner'[p] = a /\ Awaits(a, p)'
  <2>1. ASSUME NEW a \in Agents, NEW kind, OpStarts(a, kind), processes[a] = p
        PROVE  owner[p] = a /\ Awaits(a, p)'
    <3>1. owner[p] = a
      BY <1>0, <2>1, ManagerAssumption DEF Children
    <3>2. op'[a].pc = "stop" /\ op'[a].proc = p
      BY <1>0, <2>1 DEF OpStarts, OpBegins, OwnTypes
    <3> QED
      BY <3>1, <3>2 DEF Awaits
  <2>2. ASSUME NEW a \in Agents, FlightFails(a), flight[a].proc = p
        PROVE  owner[p] = a /\ Awaits(a, p)'
    <3>1. owner[p] = a
      BY <1>0, <2>2 DEF FlightFails, Children, Started
    <3>2. flight'[a].pc \in {"fallback", "failing"} /\ flight'[a].proc = p
      BY <1>0, <2>2 DEF FlightFails, OwnTypes, FlightStates
    <3> QED
      BY <3>1, <3>2 DEF Awaits
  <2> QED
    BY <1>2, <1>4, <2>1, <2>2 DEF Killed
<1> QED
  BY <1>0, <1>1, <1>3, <1>4, HandleSteps

(* An agent registers a process only by a start.                           *)
LEMMA ProcessBefore ==
    ASSUME ManagerInv, Next, NEW a \in Agents, processes'[a] # processes[a], processes'[a] # None
    PROVE  flight[a].pc = "handshake"
<1>0. processes \in [Agents -> Procs \cup {None}]
  BY InvTypes DEF OwnTypes
<1>1. ASSUME NEW b, JoinFlight(b) PROVE FALSE
  BY <1>0, <1>1 DEF JoinFlight
<1>2. ASSUME NEW b \in Agents, Flights(b) PROVE flight[a].pc = "handshake"
  <2>1. CASE HandshakeDone(b)
    BY <1>0, <2>1 DEF HandshakeDone
  <2>2. CASE FlightFails(b)
    BY <1>0, <2>2 DEF FlightFails
  <2> QED
    BY <1>2, <2>1, <2>2 DEF Flights, FlightSpawns, HistoryDone, FlightStopped
<1>3. ASSUME NEW p \in Procs, OnExit(p) PROVE FALSE
  BY <1>0, <1>3 DEF OnExit
<1>4. ASSUME NEW b \in Agents, NEW kind, OpStarts(b, kind) PROVE FALSE
  BY <1>0, <1>4 DEF OpStarts
<1> QED
  BY <1>1, <1>2, <1>3, <1>4, ManagerSteps
     DEF LeaseWorks, VoidReturns, managerVars, PromptStep, Prompting, PromptStarts, PromptLeased,
         PromptEnsures, PromptMarks, PromptSends, PromptReturns, PromptCatches, PromptReleased,
         ChildStep, PiWorks, PiFaults, Events, OnTurnStart, OnUiRequest, OnSettled,
         OnLine, RecoveryWakes, RecoveryEnds, RecoveryUnchanged, OpStep,
         Activate, Operations, OpStopped, OpReleased, OpEnsures, OpEnds,
         ActivateLooks, ActivateEnds, UserStep, RespondToExtensionUi, Abort, UserUnchanged

(* Who owns a process: it stays so, or it was just spawned.                *)
LEMMA OwnerBefore ==
    ASSUME ManagerInv, Next, NEW p \in Procs, owner'[p] # owner[p]
    PROVE  \E a \in Agents : flight[a].pc = "config" /\ owner'[p] = a
<1>0. owner \in [Procs -> Agents \cup {None}]
  BY InvTypes DEF OwnTypes
<1>1. \E a \in Agents : FlightSpawns(a)
  BY ManagerSteps
     DEF LeaseWorks, VoidReturns, PromptStep, Prompting, PromptStarts, PromptLeased,
         PromptEnsures, PromptMarks, PromptSends, PromptReturns, PromptCatches, PromptReleased,
         PromptUnchanged, ChildStep, PiWorks, PiFaults, Events, OnTurnStart, OnUiRequest,
         OnSettled, OnExit, OnLine, EventUnchanged, RecoveryWakes, RecoveryEnds,
         RecoveryUnchanged, Flights, HandshakeDone, HistoryDone, FlightFails, FlightStopped,
         OpStep, Activate, OpStarts, OpBegins, Operations, OpStopped, OpReleased, OpEnsures,
         OpEnds, ActivateLooks, ActivateEnds, OpUnchanged, UserStep, RespondToExtensionUi, Abort,
         UserUnchanged, managerVars
<1> QED
  BY <1>0, <1>1 DEF FlightSpawns

(* An operation that stops a child or releases the lease.                  *)
LEMMA OpBefore ==
    ASSUME ManagerInv, Next, NEW a \in Agents, op'[a].pc \in {"stop", "release"}
    PROVE  \/ op'[a] = op[a]
           \/ \E kind \in {"reconnect", "reload", "reset", "close"} : OpStarts(a, kind) /\ op'[a].pc = "stop"
           \/ OpStopped(a)
<1>0. OwnTypes /\ op \in [Agents -> OpStates]
  BY InvTypes DEF OwnTypes
<1>1. ASSUME NEW b \in Agents, Flights(b) PROVE op'[a] = op[a]
  <2>1. ASSUME NEW pc \in {"up", "down"}, NEW p, FlightEnds(b, pc, p) PROVE op'[a] = op[a]
    BY <1>0, <2>1, FlightEndsEffect
  <2> QED
    BY <1>1, <2>1 DEF Flights, FlightSpawns, HandshakeDone, HistoryDone, FlightFails, FlightStopped
<1>2. ASSUME NEW b \in Agents, OpStep(b), b # a PROVE op'[a] = op[a]
  BY <1>0, <1>2
     DEF OpStep, Activate, OpStarts, OpBegins, Operations, OpStopped, OpReleased, OpEnsures,
         OpEnds, ActivateLooks, ActivateEnds, OpSets
<1>3. ASSUME OpStep(a), ~OpStopped(a)
      PROVE  \E kind \in {"reconnect", "reload", "reset", "close"} :
                 OpStarts(a, kind) /\ op'[a].pc = "stop"
  <2>0. op'[a] # NoOp
    BY DEF NoOp
  <2>1. ASSUME NEW kind \in {"reconnect", "reload", "reset", "close"}, OpStarts(a, kind)
        PROVE  op'[a].pc = "stop"
    BY <1>0, <2>1 DEF OpStarts, OpBegins
  <2>2. ~Activate(a)
    BY <1>0 DEF Activate, OpBegins
  <2>3. ~OpReleased(a)
    BY <1>0, <2>0 DEF OpReleased, OpStates
  <2>4. ~OpEnsures(a)
    BY <1>0 DEF OpEnsures, OpStates
  <2>5. ~OpEnds(a) /\ ~ActivateEnds(a)
    BY <1>0, <2>0 DEF OpEnds, ActivateEnds, OpSets
  <2>6. ~ActivateLooks(a)
    <3> SUFFICES ASSUME ActivateLooks(a) PROVE FALSE
      OBVIOUS
    <3>1. \/ op'[a] = NoOp
          \/ op'[a] = [op[a] EXCEPT !.pc = "streaming"]
          \/ op'[a] = [op[a] EXCEPT !.pc = "quiet"]
      BY <1>0 DEF ActivateLooks, OpSets
    <3> QED
      BY <1>0, <2>0, <3>1 DEF OpStates
  <2> QED
    BY <1>3, <2>1, <2>2, <2>3, <2>4, <2>5, <2>6 DEF OpStep, Operations
<1> QED
  BY <1>1, <1>2, <1>3, OpSteps

(* An agent is retired at the end of its reset.                            *)
LEMMA RetiredBefore ==
    ASSUME ManagerInv, Next, NEW a \in retired', a \notin retired
    PROVE  OpReleased(a) /\ op'[a] = NoOp
<1>0. OwnTypes
  BY InvTypes
<1>1. ASSUME NEW b \in Agents, OpReleased(b) PROVE b = a /\ op'[a] = NoOp
  BY <1>0, <1>1 DEF OpReleased, OwnTypes
<1>2. \E b \in Agents : OpReleased(b)
  BY ManagerSteps
     DEF LeaseWorks, VoidReturns, PromptStep, Prompting, PromptStarts, PromptLeased,
         PromptEnsures, PromptMarks, PromptSends, PromptReturns, PromptCatches, PromptReleased,
         PromptUnchanged, ChildStep, PiWorks, PiFaults, Events, OnTurnStart, OnUiRequest,
         OnSettled, OnExit, OnLine, EventUnchanged, RecoveryWakes, RecoveryEnds,
         RecoveryUnchanged, Flights, FlightSpawns, HandshakeDone, HistoryDone, FlightFails,
         FlightStopped, OpStep, Activate, OpStarts, OpBegins, Operations, OpStopped, OpEnsures,
         OpEnds, ActivateLooks, ActivateEnds, UserStep, RespondToExtensionUi, Abort,
         UserUnchanged, managerVars
<1> QED
  BY <1>1, <1>2

(* A prompt that has returned stays as it is.                              *)
LEMMA ReturnedStays ==
    ASSUME ManagerInv, Next, NEW m \in Requests, prompt[m].pc \in {"done", "failed"}
    PROVE  prompt'[m] = prompt[m]
<1>0. OwnTypes
  BY InvTypes
<1>1. ~PromptStep(m)
  BY DEF PromptStep, Prompting, PromptStarts, PromptLeased, PromptEnsures, PromptMarks, PromptSends,
         PromptReturns, PromptCatches, PromptReleased
<1>2. ASSUME NEW n \in Requests, PromptStep(n) PROVE prompt'[m] = prompt[m]
  BY <1>0, <1>1, <1>2, OthersStay
<1>3. ASSUME NEW a \in Agents, Flights(a) PROVE prompt'[m] = prompt[m]
  <2>1. ASSUME NEW pc, NEW p, FlightEnds(a, pc, p) PROVE prompt'[m] = prompt[m]
    BY <1>0, <2>1, FlightEndsEffect
  <2> QED
    BY <1>3, <2>1 DEF Flights, FlightSpawns, HandshakeDone, HistoryDone, FlightFails, FlightStopped
<1> QED
  BY <1>2, <1>3, PromptSteps

(* Nothing begins for an agent that was reset.                             *)
LEMMA RetiredStays ==
    ASSUME LeaveInv, Next, NEW a \in Agents, a \in retired
    PROVE  op'[a] = NoOp /\ \A m \in Requests : prompt'[m].agent = a => ~Active(m)'
<1>0. ManagerInv /\ OwnTypes /\ op[a] = NoOp /\ op[a].pc = "none" /\ None \notin Agents
  BY InvTypes, NoneAssumption DEF LeaveInv, CoverInv, Left, NoOp
<1>1. op'[a] = NoOp
  <2>1. ASSUME NEW b \in Agents, Flights(b) PROVE op'[a] = op[a]
    <3>1. ASSUME NEW pc, NEW p, FlightEnds(b, pc, p) PROVE op'[a] = op[a]
      BY <1>0, <3>1, FlightEndsEffect
    <3> QED
      BY <2>1, <3>1 DEF Flights, FlightSpawns, HandshakeDone, HistoryDone, FlightFails, FlightStopped
  <2>2. ASSUME NEW b \in Agents, OpStep(b), b # a PROVE op'[a] = op[a]
    BY <1>0, <2>2
       DEF OpStep, Activate, OpStarts, OpBegins, Operations, OpStopped, OpReleased, OpEnsures,
           OpEnds, ActivateLooks, ActivateEnds, OpSets, OwnTypes
  <2>3. ~OpStep(a)
    BY <1>0 DEF OpStep, Activate, OpStarts, OpBegins, Operations, OpStopped, OpReleased, OpEnsures,
                OpEnds, ActivateLooks, ActivateEnds
  <2> QED
    BY <1>0, <2>1, <2>2, <2>3, OpSteps
<1>2. ASSUME NEW m \in Requests, prompt'[m].agent = a PROVE ~Active(m)'
  <2>1. prompt[m].agent = a
    <3> SUFFICES ASSUME prompt[m].agent # a PROVE FALSE
      OBVIOUS
    <3>1. PICK b \in Agents : PromptStarts(m, b)
      BY <1>0, <1>2, AgentStays
    <3>2. b = a
      BY <1>0, <1>2, <3>1 DEF PromptStarts, OwnTypes, PromptStates
    <3> QED
      BY <3>1, <3>2 DEF PromptStarts
  <2>2. prompt[m].pc \in {"done", "failed"}
    BY <1>0, <2>1 DEF LeaveInv, Left, CoverInv, Actors, Active
  <2>3. prompt'[m].pc \in {"done", "failed"}
    BY <1>0, <2>2, ReturnedStays
  <2> QED
    BY <2>3 DEF Active
<1> QED
  BY <1>1, <1>2

(* An agent without a process or a start gets none.                        *)
Bare(a) == \A p \in Procs : owner[p] = a => handle[p] \in {"unborn", "closed"}

LEMMA BareStays ==
    ASSUME StartsOnly, LeaveInv, Next, NEW a \in Agents, flight[a] = NoFlight, Bare(a)
    PROVE  Bare(a)'
<1>0. /\ ManagerInv /\ "die" \notin Faults /\ \A q \in Procs : handle[q] = "open" => q \in alive
      /\ flight[a].pc = "none"
  BY DEF LeaveInv, CoverInv, Hold, StartsOnly, NoFlight
<1> SUFFICES ASSUME NEW p \in Procs, owner'[p] = a PROVE handle'[p] \in {"unborn", "closed"}
  BY DEF Bare
<1>1. owner[p] = a
  BY <1>0, OwnerBefore
<1>2. handle[p] \in {"unborn", "closed"}
  BY <1>1 DEF Bare
<1> QED
  BY <1>0, <1>2, HandleSteps

LEMMA LeftKept ==
    ASSUME StartsOnly, LeaveInv, Next
    PROVE  Left'
<1>0. /\ ManagerInv /\ OwnTypes /\ Children /\ Actors /\ Lives /\ Left /\ Stopping /\ None \notin Procs
      /\ handle \in [Procs -> Handles]
  BY InvTypes, ManagerAssumption DEF LeaveInv, CoverInv, RpcInv, RpcTypeOK
<1> SUFFICES ASSUME NEW a \in Agents
             PROVE  /\ op'[a].pc \in {"stop", "release"} => processes'[a] = None
                    /\ op'[a].pc = "release" \/ a \in retired' => Bare(a)'
                    /\ a \in retired' => /\ op'[a] = NoOp
                                         /\ \A m \in Requests : prompt'[m].agent = a => ~Active(m)'
  BY DEF Left, Bare
<1>1. op[a].pc \in {"stop", "release"} =>
          /\ flight[a] = NoFlight /\ flight[a].pc = "none" /\ processes[a] = None
          /\ \A m \in Requests : prompt[m].agent = a => prompt[m].pc \in {"done", "failed"}
  BY <1>0, OpAlone DEF NoOp, NoFlight, Left
<1>2. op[a].pc \in {"stop", "release"} => processes'[a] = None
  BY <1>0, <1>1, ProcessBefore
<1>3. op'[a].pc \in {"stop", "release"} => processes'[a] = None
  <2>1. ASSUME NEW kind, OpStarts(a, kind) PROVE processes'[a] = None
    BY <1>0, <2>1 DEF OpStarts, OwnTypes
  <2>2. OpStopped(a) => op[a].pc = "stop"
    BY DEF OpStopped
  <2> QED
    BY <1>0, <1>2, <2>1, <2>2, OpBefore
<1>4. OpStopped(a) => Bare(a)
  <2> SUFFICES ASSUME OpStopped(a), NEW p \in Procs, owner[p] = a PROVE handle[p] \in {"unborn", "closed"}
    BY DEF Bare
  <2>1. /\ op[a].pc = "stop" /\ (op[a].proc = p => Stopped(p))
        /\ flight[a].pc = "none" /\ processes[a] = None
    BY <1>0, <1>1 DEF OpStopped
  <2>2. handle[p] # "open"
    <3>1. flight[a] # [proc |-> p, pc |-> "handshake"]
      BY <2>1
    <3> QED
      BY <1>0, <2>1, <3>1 DEF Children
  <2>3. handle[p] # "stopping"
    BY <1>0, <2>1 DEF Stopping, Awaits, Stopped, Writable
  <2> QED
    BY <1>0, <2>2, <2>3 DEF Handles
<1>5. a \in retired => flight[a] = NoFlight
  BY <1>0 DEF Left, Actors, Active, NoOp
<1>6. op'[a].pc = "release" \/ a \in retired' => Bare(a)'
  <2>1. ASSUME op[a].pc = "release" PROVE Bare(a)'
    BY <1>0, <1>1, <2>1, BareStays DEF Left, Bare
  <2>2. ASSUME a \in retired PROVE Bare(a)'
    BY <1>0, <1>5, <2>2, BareStays DEF Left, Bare
  <2>3. ASSUME OpStopped(a) PROVE Bare(a)'
    <3>1. op[a].pc = "stop"
      BY <2>3 DEF OpStopped
    <3> QED
      BY <1>1, <1>4, <2>3, <3>1, BareStays
  <2>4. op'[a].pc = "release" => op[a].pc = "release" \/ OpStopped(a)
    BY <1>0, OpBefore
  <2>5. a \in retired' => a \in retired \/ op[a].pc = "release"
    BY <1>0, RetiredBefore DEF OpReleased
  <2> QED
    BY <2>1, <2>2, <2>3, <2>4, <2>5
<1>7. ASSUME a \in retired', a \notin retired
      PROVE  op'[a] = NoOp /\ \A m \in Requests : prompt'[m].agent = a => ~Active(m)'
  <2>1. OpReleased(a) /\ op'[a] = NoOp
    BY <1>0, <1>7, RetiredBefore
  <2>2. op[a].pc = "release" /\ prompt' = prompt
    BY <2>1 DEF OpReleased, OpUnchanged
  <2> QED
    BY <1>1, <2>1, <2>2 DEF Active
<1> QED
  BY <1>3, <1>6, <1>7, RetiredStays

-----------------------------------------------------------------------------
(* The invariant of the leave, and what it is for.                         *)

LEMMA InitLeave == Init => LeaveInv
<1> SUFFICES ASSUME Init PROVE LeaveInv
  OBVIOUS
<1>1. CoverInv
  BY InitCover
<1>2. /\ alive = {} /\ \A p \in Procs : handle[p] = "unborn" /\ stdout[p] = <<>>
      /\ \A a \in Agents : /\ status[a] = "idle" /\ asked[a] = None /\ op[a] = NoOp
                           /\ processes[a] = None
      /\ retired = {}
  BY DEF Init, RpcInit
<1>3. \A a \in Agents : op[a].pc = "none"
  BY <1>2 DEF NoOp
<1> QED
  BY <1>1, <1>2, <1>3 DEF LeaveInv, Printed, Shown, Looks, Stopping, Left

LEMMA NextLeave == StartsOnly /\ LeaveInv /\ [Next]_vars => LeaveInv'
<1>1. StartsOnly /\ LeaveInv /\ Next => LeaveInv'
  <2> SUFFICES ASSUME StartsOnly, LeaveInv, Next PROVE LeaveInv'
    OBVIOUS
  <2>1. CoverInv'
    BY NextCover DEF LeaveInv, StartsOnly
  <2> QED
    BY <2>1, PrintedKept, ShownKept, LooksKept, StoppingKept, LeftKept DEF LeaveInv
<1>2. StartsOnly /\ LeaveInv /\ UNCHANGED vars => LeaveInv'
  <2> SUFFICES ASSUME StartsOnly, LeaveInv, UNCHANGED vars PROVE LeaveInv'
    OBVIOUS
  <2>1. CoverInv'
    BY NextCover DEF LeaveInv, StartsOnly
  <2>2. /\ UNCHANGED <<handle, alive, stdout, pending, running>>
        /\ UNCHANGED <<processes, flight, owner, prompt, op, asked, status, retired>>
    BY DEF vars, rpcVars, managerVars
  <2>3. Printed' /\ Looks' /\ Stopping' /\ Left'
    BY <2>2 DEF LeaveInv, Printed, Lasts, Settles, Looks, Stopping, Awaits, Left, Active
  <2>4. Shown'
    BY <2>2 DEF LeaveInv, Shown, AtWork, Live, Lasts, Settles
  <2> QED
    BY <2>1, <2>3, <2>4 DEF LeaveInv
<1> QED
  BY <1>1, <1>2

(* When the user waits for an agent and nothing goes wrong but starts of   *)
(* children, a quiet agent leaves nothing behind: a reset agent has no     *)
(* child that lives, and no agent is shown at work or with a request when  *)
(* nothing of it is going on -- for any agents, prompts and processes,     *)
(* however many starts fail and whatever older runtimes there are.         *)
THEOREM NothingIsLeftOver ==
    ASSUME StartsOnly
    PROVE  Spec => []QuietLeavesNothing
<1>1. LeaveInv => QuietLeavesNothing
  <2> SUFFICES ASSUME LeaveInv PROVE QuietLeavesNothing
    OBVIOUS
  <2>0. /\ ManagerInv /\ OwnTypes /\ Awaited /\ handle \in [Procs -> Handles] /\ alive \subseteq Procs
    BY InvTypes DEF LeaveInv, CoverInv, RpcInv, RpcTypeOK
  <2>1. ResetLeavesNoChild
    <3> SUFFICES ASSUME NEW p \in alive, owner[p] \in retired PROVE FALSE
      BY DEF ResetLeavesNoChild
    <3>1. p \in Procs /\ owner[p] \in Agents
      BY <2>0 DEF OwnTypes
    <3>2. handle[p] \in {"unborn", "closed"}
      BY <3>1 DEF LeaveInv, Left
    <3> QED
      BY <3>1, <3>2 DEF LeaveInv, Stopping
  <2>2. StatusSettles
    <3> SUFFICES ASSUME NEW a \in Agents, Quiet(a)
                 PROVE  status[a] \notin {"running", "waiting"} /\ asked[a] = None
      BY DEF StatusSettles
    <3>1. /\ \A p \in Procs : owner[p] = a => ~Live(p)
          /\ \A m \in Requests : prompt[m].agent = a => prompt[m].pc \in {"done", "failed"}
      BY <2>0, QuietAlone
    <3>2. ~AtWork(a)
      BY <3>1 DEF AtWork
    <3>3. asked[a] # None => asked[a] \in Procs /\ owner[asked[a]] = a /\ Lasts(asked[a])
      BY <2>0 DEF LeaveInv, Shown, OwnTypes
    <3> QED
      BY <3>1, <3>2, <3>3, LastsLives DEF LeaveInv, Shown
  <2> QED
    BY <2>1, <2>2 DEF QuietLeavesNothing
<1>2. Init => LeaveInv
  BY InitLeave
<1>3. LeaveInv /\ [Next]_vars => LeaveInv'
  BY NextLeave
<1> QED
  BY <1>1, <1>2, <1>3, PTL DEF Spec
=============================================================================
