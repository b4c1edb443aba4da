---------------------------- MODULE PiRpcProcess ----------------------------
(***************************************************************************)
(* PiRpcProcess (codepiddy-core/src/pi-rpc-process.ts): the main process'  *)
(* end of the JSON-lines pipes to Pi children, with its table of pending   *)
(* requests, and the Pi children themselves as the desktop program sees    *)
(* them.  Each p in Procs is one PiRpcProcess object and its one child.    *)
(*                                                                         *)
(* Abstracted: line splitting, stderr, what a prompt says.  Queries that   *)
(* change nothing (get_state, get_messages, ...) are not messages here.    *)
(***************************************************************************)
EXTENDS Naturals, Sequences

CONSTANTS
    Procs,      \* PiRpcProcess objects
    Requests,   \* prompts, by their request ids
    MaxPipe     \* bound: lines in a pipe

VARIABLES
    handle,     \* handle[p] : this.child and this.stopping
    alive,      \* the children that run
    stdin,      \* stdin[p]  : lines written, not read by the child
    stdout,     \* stdout[p] : lines printed by the child, not handled
    pending,    \* pending[p] : requests that wait for a response
    result,     \* result[r] : what the caller of send() got
    running,    \* the children whose agent is streaming
    asking,     \* the children that wait for an answer of the user
    taken       \* history: prompts that Pi accepted

rpcVars == <<handle, alive, stdin, stdout, pending, result, running, asking, taken>>

Handles  == {"unborn", "open", "stopping", "closed"}
Settled  == {"answered", "refused", "timedout", "broken"}
Results  == {"unsent", "waiting"} \cup Settled
Commands == [kind : {"prompt"}, id : Requests] \cup [kind : {"abort", "answer"}]
Lines    == [kind : {"response"}, id : Requests, ok : BOOLEAN]
            \cup [kind : {"turn_start", "ui_request", "agent_settled"}]

RpcTypeOK ==
    /\ handle \in [Procs -> Handles]
    /\ alive \subseteq Procs
    /\ stdin \in [Procs -> Seq(Commands)]
    /\ stdout \in [Procs -> Seq(Lines)]
    /\ pending \in [Procs -> SUBSET Requests]
    /\ result \in [Requests -> Results]
    /\ running \subseteq alive
    /\ asking \subseteq running
    /\ taken \subseteq Requests

RpcInit ==
    /\ handle = [p \in Procs |-> "unborn"]
    /\ alive = {} /\ running = {} /\ asking = {} /\ taken = {}
    /\ stdin = [p \in Procs |-> <<>>]
    /\ stdout = [p \in Procs |-> <<>>]
    /\ pending = [p \in Procs |-> {}]
    /\ result = [r \in Requests |-> "unsent"]

(* this.child is set: write() and send() do not throw.                     *)
Writable(p) == handle[p] \in {"open", "stopping"}

(* isRunning: the child was neither seen to exit nor killed.               *)
IsRunning(p) == handle[p] = "open"

HasLine(p, kind) == stdout[p] # <<>> /\ Head(stdout[p]).kind = kind

-----------------------------------------------------------------------------
(* The object.                                                             *)

Spawn(p) ==
    /\ handle[p] = "unborn"
    /\ handle' = [handle EXCEPT ![p] = "open"]
    /\ alive' = alive \cup {p}
    /\ UNCHANGED <<stdin, stdout, pending, result, running, asking, taken>>

Send(p, r) ==
    /\ result[r] = "unsent"
    /\ Writable(p)
    /\ pending' = [pending EXCEPT ![p] = @ \cup {r}]
    /\ result' = [result EXCEPT ![r] = "waiting"]
    /\ stdin' = [stdin EXCEPT ![p] = Append(@, [kind |-> "prompt", id |-> r])]
    /\ UNCHANGED <<handle, alive, stdout, running, asking, taken>>

SendFails(p, r) ==
    /\ result[r] = "unsent"
    /\ ~Writable(p)
    /\ result' = [result EXCEPT ![r] = "broken"]
    /\ UNCHANGED <<handle, alive, stdin, stdout, pending, running, asking, taken>>

(* Commands whose response nobody acts on, written in one go.              *)
Write(p, kinds) ==
    /\ Writable(p)
    /\ stdin' = [stdin EXCEPT ![p] = @ \o [i \in DOMAIN kinds |-> [kind |-> kinds[i]]]]
    /\ UNCHANGED <<handle, alive, stdout, pending, result, running, asking, taken>>

(* Mutant: success = false resolves, too.                                  *)
OnResponseResolves(p) ==
    /\ HasLine(p, "response")
    /\ LET line == Head(stdout[p])
       IN  IF line.id \in pending[p]
           THEN /\ pending' = [pending EXCEPT ![p] = @ \ {line.id}]
                /\ result' = [result EXCEPT ![line.id] = "answered"]
           ELSE UNCHANGED <<pending, result>>
    /\ stdout' = [stdout EXCEPT ![p] = Tail(@)]
    /\ UNCHANGED <<handle, alive, stdin, running, asking, taken>>

(* Mutant: the table of pending requests is not asked.                     *)
OnResponseUnasked(p) ==
    /\ HasLine(p, "response")
    /\ LET line == Head(stdout[p])
       IN  /\ pending' = [pending EXCEPT ![p] = @ \ {line.id}]
           /\ result' = [result EXCEPT ![line.id] = IF line.ok THEN "answered" ELSE "refused"]
    /\ stdout' = [stdout EXCEPT ![p] = Tail(@)]
    /\ UNCHANGED <<handle, alive, stdin, running, asking, taken>>

(* handleLine of a response: settles the pending request of that id; a     *)
(* response to a request that is not pending any more is dropped.          *)
OnResponse(p) ==
    /\ HasLine(p, "response")
    /\ LET line == Head(stdout[p])
       IN  IF line.id \in pending[p]
           THEN /\ pending' = [pending EXCEPT ![p] = @ \ {line.id}]
                /\ result' = [result EXCEPT ![line.id] =
                                 IF line.ok THEN "answered" ELSE "refused"]
           ELSE UNCHANGED <<pending, result>>
    /\ stdout' = [stdout EXCEPT ![p] = Tail(@)]
    /\ UNCHANGED <<handle, alive, stdin, running, asking, taken>>

(* handleLine of an event, for the listener.                               *)
TakeEvent(p, kind) ==
    /\ HasLine(p, kind)
    /\ stdout' = [stdout EXCEPT ![p] = Tail(@)]
    /\ UNCHANGED <<handle, alive, stdin, pending, result, running, asking, taken>>

(* Mutant: the timer rejects and leaves the request in the table.          *)
TimeOutKeeps(p, r) ==
    /\ r \in pending[p]
    /\ result' = [result EXCEPT ![r] = "timedout"]
    /\ UNCHANGED <<handle, alive, stdin, stdout, pending, running, asking, taken>>

(* Mutant: the timer clears the table and does not reject.                 *)
TimeOutSilent(p, r) ==
    /\ r \in pending[p]
    /\ pending' = [pending EXCEPT ![p] = @ \ {r}]
    /\ UNCHANGED <<handle, alive, stdin, stdout, result, running, asking, taken>>

(* The 90 s timer of a prompt.                                             *)
TimeOut(p, r) ==
    /\ r \in pending[p]
    /\ pending' = [pending EXCEPT ![p] = @ \ {r}]
    /\ result' = [result EXCEPT ![r] = "timedout"]
    /\ UNCHANGED <<handle, alive, stdin, stdout, running, asking, taken>>

RejectPending(p) ==
    /\ pending' = [pending EXCEPT ![p] = {}]
    /\ result' = [r \in Requests |-> IF r \in pending[p] THEN "broken" ELSE result[r]]

(* The child's exit event, while this.child is still that child.           *)
ExitSeen(p) ==
    /\ p \notin alive
    /\ Writable(p)
    /\ RejectPending(p)
    /\ handle' = [handle EXCEPT ![p] = "closed"]
    /\ UNCHANGED <<alive, stdin, stdout, running, asking, taken>>

(* stop(): SIGTERM, ...                                                    *)
Stop(p) ==
    /\ handle' = [handle EXCEPT ![p] = IF Writable(p) THEN "stopping" ELSE @]
    /\ UNCHANGED <<alive, stdin, stdout, pending, result, running, asking, taken>>

(* stop() right after a line was written.                                  *)
WriteAndStop(p, kinds) ==
    /\ Writable(p)
    /\ stdin' = [stdin EXCEPT ![p] = @ \o [i \in DOMAIN kinds |-> [kind |-> kinds[i]]]]
    /\ handle' = [handle EXCEPT ![p] = "stopping"]
    /\ UNCHANGED <<alive, stdout, pending, result, running, asking, taken>>

(* Mutant: stop() waits for the exit of the child without a SIGKILL.       *)
KillNever(p) ==
    /\ handle[p] = "stopping" /\ p \notin alive
    /\ handle' = [handle EXCEPT ![p] = "closed"]
    /\ RejectPending(p)
    /\ UNCHANGED <<alive, stdin, stdout, running, asking, taken>>

(* ... and SIGKILL after 1500 ms: this.child becomes null, so the exit     *)
(* event that follows is ignored.                                          *)
Kill(p) ==
    /\ handle[p] = "stopping"
    /\ handle' = [handle EXCEPT ![p] = "closed"]
    /\ alive' = alive \ {p} /\ running' = running \ {p} /\ asking' = asking \ {p}
    /\ RejectPending(p)
    /\ UNCHANGED <<stdin, stdout, taken>>

(* Where stop() returns.                                                   *)
Stopped(p) == ~Writable(p)

-----------------------------------------------------------------------------
(* The Pi child (packages/coding-agent, RPC mode), as far as this program  *)
(* depends on it.                                                          *)

Command(p, kind) == p \in alive /\ stdin[p] # <<>> /\ Head(stdin[p]).kind = kind

Consume(p) == stdin' = [stdin EXCEPT ![p] = Tail(@)]

Prints(p, lines) ==
    /\ Len(stdout[p]) + Len(lines) <= MaxPipe
    /\ stdout' = [stdout EXCEPT ![p] = @ \o lines]

Respond(p, ok) == [kind |-> "response", id |-> Head(stdin[p]).id, ok |-> ok]

(* A prompt starts a run, or is queued in the run that goes on ("steer").  *)
PiAccepts(p) ==
    /\ Command(p, "prompt")
    /\ Consume(p)
    /\ Prints(p, IF p \in running THEN <<Respond(p, TRUE)>>
                 ELSE <<Respond(p, TRUE), [kind |-> "turn_start"]>>)
    /\ running' = running \cup {p}
    /\ taken' = taken \cup {Head(stdin[p]).id}
    /\ UNCHANGED <<handle, alive, pending, result, asking>>

(* An extension command is a prompt that starts no run.                    *)
PiHandles(p) ==
    /\ Command(p, "prompt")
    /\ Consume(p)
    /\ Prints(p, <<Respond(p, TRUE)>>)
    /\ taken' = taken \cup {Head(stdin[p]).id}
    /\ UNCHANGED <<handle, alive, pending, result, running, asking>>

(* The preflight of a prompt fails: no model, no credentials, ...          *)
PiRefuses(p) ==
    /\ Command(p, "prompt")
    /\ Consume(p)
    /\ Prints(p, <<Respond(p, FALSE)>>)
    /\ UNCHANGED <<handle, alive, pending, result, running, asking, taken>>

PiTurns(p) ==
    /\ p \in running \ asking
    /\ Prints(p, <<[kind |-> "turn_start"]>>)
    /\ UNCHANGED <<handle, alive, stdin, pending, result, running, asking, taken>>

PiAsks(p) ==
    /\ p \in running \ asking
    /\ Prints(p, <<[kind |-> "ui_request"]>>)
    /\ asking' = asking \cup {p}
    /\ UNCHANGED <<handle, alive, stdin, pending, result, running, taken>>

PiGetsAnswer(p) ==
    /\ Command(p, "answer")
    /\ Consume(p)
    /\ asking' = asking \ {p}
    /\ UNCHANGED <<handle, alive, stdout, pending, result, running, taken>>

PiSettles(p) ==
    /\ p \in running \ asking
    /\ Prints(p, <<[kind |-> "agent_settled"]>>)
    /\ running' = running \ {p}
    /\ UNCHANGED <<handle, alive, stdin, pending, result, asking, taken>>

PiAborts(p) ==
    /\ Command(p, "abort")
    /\ Consume(p)
    /\ Prints(p, IF p \in running THEN <<[kind |-> "agent_settled"]>> ELSE <<>>)
    /\ running' = running \ {p}
    /\ asking' = asking \ {p}
    /\ UNCHANGED <<handle, alive, pending, result, taken>>

PiDies(p) ==
    /\ p \in alive
    /\ alive' = alive \ {p} /\ running' = running \ {p} /\ asking' = asking \ {p}
    /\ UNCHANGED <<handle, stdin, stdout, pending, result, taken>>

-----------------------------------------------------------------------------
(* The transport on its own: callers send, stop and never look back.       *)
RpcNext ==
    \E p \in Procs :
        \/ Spawn(p) \/ ExitSeen(p) \/ Kill(p) \/ OnResponse(p)
        \/ handle[p] = "open" /\ Stop(p)
        \/ Write(p, <<"abort">>) /\ Len(stdin[p]) < MaxPipe
        \/ \E r \in Requests : Send(p, r) \/ SendFails(p, r) \/ TimeOut(p, r)
        \/ \E kind \in {"turn_start", "ui_request", "agent_settled"} : TakeEvent(p, kind)
        \/ p \in asking /\ Len(stdin[p]) < MaxPipe /\ Write(p, <<"answer">>)
        \/ PiAccepts(p) \/ PiHandles(p) \/ PiRefuses(p) \/ PiTurns(p) \/ PiAsks(p)
        \/ PiGetsAnswer(p) \/ PiSettles(p) \/ PiAborts(p) \/ PiDies(p)

(* Timers fire, exit events and lines that have arrived are delivered.     *)
RpcFairness ==
    \A p \in Procs :
        /\ WF_rpcVars(ExitSeen(p)) /\ WF_rpcVars(Kill(p))
        /\ \A r \in Requests : WF_rpcVars(TimeOut(p, r))

RpcSpec == RpcInit /\ [][RpcNext]_rpcVars /\ RpcFairness

(* A request waits exactly while it is pending in one object, and in no    *)
(* other: none is forgotten by the table and none is in it twice.          *)
WaitingIsPending ==
    \A r \in Requests :
        /\ result[r] = "waiting" <=> \E p \in Procs : r \in pending[p]
        /\ \A p, q \in Procs : r \in pending[p] /\ r \in pending[q] => p = q

(* No caller is left waiting on an object that gave up its child, whether  *)
(* the child exited or was killed.                                         *)
NoWaitOnClosed == \A p \in Procs : ~Writable(p) => pending[p] = {}

(* A caller is told "success" only for a prompt of its own that Pi took:   *)
(* late, reordered or foreign responses settle nothing.                    *)
AnsweredIsTaken == \A r \in Requests : result[r] = "answered" => r \in taken

(* What a caller was told is final: an answer after the timeout, or an     *)
(* exit after the answer, settles no promise a second time.                *)
SettledForGood ==
    [][\A r \in Requests : result[r] \in Settled => result'[r] = result[r]]_rpcVars

(* Every send() settles: by a response, its timer or the end of the child. *)
EverySendSettles == \A r \in Requests : result[r] = "waiting" ~> result[r] \in Settled

(* stop() always returns, also when the child ignores SIGTERM.             *)
StopReturns == \A p \in Procs : handle[p] = "stopping" ~> handle[p] = "closed"

(* Nobody waits for ever on a child, whatever it does or ignores.          *)
CallsReturn == EverySendSettles /\ StopReturns
=============================================================================
