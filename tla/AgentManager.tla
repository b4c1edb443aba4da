---------------------------- MODULE AgentManager ----------------------------
(***************************************************************************)
(* AgentManager (codepiddy-desktop/src/main/index.ts): the agents of one   *)
(* project, their Pi processes, the write lease of the project and the     *)
(* status in the agent registry.  Composes WriteLease (the lease file, one *)
(* step per file operation) and PiRpcProcess (the pipes to the children).  *)
(*                                                                         *)
(* Each await of a method is a step boundary.  The lease calls that the    *)
(* event handler starts with "void" run beside everything else.            *)
(* registry.setStatus is one step: the registry writes in call order and   *)
(* get() waits for the writes before it.                                   *)
(***************************************************************************)
EXTENDS WriteLease, PiRpcProcess

CONSTANTS
    Writers,    \* agents whose role is not requirement-analysis
    App,        \* the main process
    Faults,     \* what may go wrong: "die", "refuse", "handle", "timeout", "start"
    MaxFaults,  \* bound: how often
    MaxOps,     \* bound: activations, reconnects, reloads, resets, closings
    Fallbacks,  \* older runtimes to fall back to when a start fails
    Patient,    \* does the user prompt or operate on an agent only when it is quiet?
    BeatsRace   \* may a heartbeat and a release of one agent overlap?

VARIABLES
    processes,  \* this.processes and this.processAgents
    flight,     \* this.processStarts: the start in flight for an agent
    owner,      \* owner[p] : the agent process p was started for
    prompt,     \* prompt[m] : the prompt() call m
    op,         \* op[a] : the activate(), reconnect(), reset(), ... call for a
    recovery,   \* recovery[i] : a recoverProcess() call
    asked,      \* this.pendingPermissions: the process whose request is shown
    status,     \* agent.json
    retired,    \* agents that were reset: their id is not found any more
    fallbacks,  \* older runtimes left
    faults,     \* number of faults so far
    ops         \* number of operations so far

managerVars == <<processes, flight, owner, prompt, op, recovery, asked, status, retired,
                 fallbacks, faults, ops>>
vars == <<leaseVars, rpcVars, managerVars>>

Beat(a) == <<"beat", a>>    \* slot of heartbeats
Free(a) == <<"free", a>>    \* slot of releases started by events
OpSlot(a) == <<"op", a>>    \* slot of the release in an operation
EventSlots == {<<k, a>> : k \in {"beat", "free"}, a \in Writers}

ASSUME ManagerAssumption ==
    /\ Writers \subseteq Agents
    /\ Apps = {App}
    /\ Calls = Requests \cup EventSlots \cup {OpSlot(a) : a \in Writers}
    /\ \A m \in Requests : m \notin EventSlots /\ \A a \in Writers : m # OpSlot(a)
    /\ Procs \subseteq Nat /\ None \notin Procs
    /\ MaxFaults \in Nat /\ MaxOps \in Nat /\ Fallbacks \in Nat

Recoveries == 1..MaxFaults

Statuses   == {"idle", "running", "waiting", "failed"}
NoFlight   == [proc |-> None, pc |-> "none"]
NoOp       == [kind |-> "reset", proc |-> None, pc |-> "none", snap |-> "idle"]
NoRecovery == [agent |-> None, attempt |-> 0, pc |-> "none"]

(* "await" is the pc of a caller that waits for the start in flight,       *)
(* "up" and "down" are where it goes on when the start succeeds or fails.  *)
TypeOK ==
    /\ LeaseTypeOK /\ RpcTypeOK
    /\ processes \in [Agents -> Procs \cup {None}]
    /\ flight \in [Agents -> [proc : Procs \cup {None},
                              pc : {"none", "config", "handshake", "history", "fallback", "failing"}]]
    /\ owner \in [Procs -> Agents \cup {None}]
    /\ prompt \in [Requests -> [agent : Agents \cup {None}, proc : Procs \cup {None},
                                pc : {"new", "lease", "ensure", "await", "up", "down", "send",
                                      "sent", "release", "done", "failed"}]]
    /\ op \in [Agents -> [kind : {"activate", "reconnect", "reload", "reset", "close"},
                          proc : Procs \cup {None}, snap : Statuses,
                          pc : {"none", "stop", "release", "ensure", "await", "up", "down",
                                "streaming", "quiet"}]]
    /\ recovery \in [Recoveries -> [agent : Agents \cup {None}, attempt : 0..2,
                                    pc : {"none", "sleep", "await", "up", "down"}]]
    /\ asked \in [Agents -> Procs \cup {None}]
    /\ status \in [Agents -> Statuses]
    /\ retired \subseteq Agents
    /\ fallbacks \in 0..Fallbacks /\ faults \in 0..MaxFaults /\ ops \in 0..MaxOps

Init ==
    /\ RpcInit
    /\ file = Absent /\ up = {App} /\ call = [c \in Calls |-> IdleCall]
    /\ processes = [a \in Agents |-> None]
    /\ flight = [a \in Agents |-> NoFlight]
    /\ owner = [p \in Procs |-> None]
    /\ prompt = [m \in Requests |-> [agent |-> None, proc |-> None, pc |-> "new"]]
    /\ op = [a \in Agents |-> NoOp]
    /\ recovery = [i \in Recoveries |-> NoRecovery]
    /\ asked = [a \in Agents |-> None]
    /\ status = [a \in Agents |-> "idle"]
    /\ retired = {}
    /\ fallbacks = Fallbacks /\ faults = 0 /\ ops = 0

Fault(kind) ==
    /\ kind \in Faults
    /\ faults < MaxFaults
    /\ faults' = faults + 1

SlotIdle(c) == call[c].pc = "idle"

(* Unless BeatsRace, a heartbeat is over before a release of the agent     *)
(* begins, and the other way round.                                        *)
BeatsOver(a) == a \in Writers /\ ~BeatsRace => SlotIdle(Beat(a))
ReleasesOver(a) == BeatsRace \/ \A c \in Calls : call[c].op = "release" => call[c].agent # a

PromptsReturned(a) ==
    \A m \in Requests : prompt[m].agent = a => prompt[m].pc \in {"done", "failed"}

(* Nothing of agent a is going on: the user sees it settled and its lease  *)
(* calls are over.                                                         *)
Quiet(a) ==
    /\ PromptsReturned(a)
    /\ \A i \in Recoveries : recovery[i].agent # a
    /\ op[a] = NoOp /\ flight[a] = NoFlight
    /\ a \in Writers => SlotIdle(Beat(a)) /\ SlotIdle(Free(a))
    /\ \A p \in Procs : owner[p] = a =>
          /\ p \notin running /\ stdin[p] = <<>> /\ stdout[p] = <<>>
          /\ Writable(p) => p \in alive

-----------------------------------------------------------------------------
(* ensureProcess(): a running process is used at once, else the caller     *)
(* joins the start in flight or begins one (SingleFlightMap).              *)
HasProcess(a) == processes[a] # None /\ IsRunning(processes[a])

(* Mutant: a second start begins beside the one in flight.                 *)
JoinNoFlight(a) ==
    /\ ~HasProcess(a)
    /\ processes' = [processes EXCEPT ![a] = None]
    /\ flight' = [flight EXCEPT ![a].pc = "config"]

JoinFlight(a) ==
    /\ ~HasProcess(a)
    /\ processes' = [processes EXCEPT ![a] = None]
    /\ flight' = [flight EXCEPT ![a] = IF @ = NoFlight THEN [@ EXCEPT !.pc = "config"] ELSE @]

(* The promise of the start settles: everyone who awaits it goes on.       *)
FlightEnds(a, pc, p) ==
    /\ flight' = [flight EXCEPT ![a] = NoFlight]
    /\ prompt' = [m \in Requests |->
                    IF prompt[m].agent = a /\ prompt[m].pc = "await"
                    THEN [prompt[m] EXCEPT !.pc = pc, !.proc = p] ELSE prompt[m]]
    /\ op' = [op EXCEPT ![a] = IF @.pc = "await" THEN [@ EXCEPT !.pc = pc, !.proc = p] ELSE @]
    /\ recovery' = [i \in Recoveries |->
                      IF recovery[i].agent = a /\ recovery[i].pc = "await"
                      THEN [recovery[i] EXCEPT !.pc = pc] ELSE recovery[i]]

(* startProcess(): settings are read, the child is spawned, ...            *)
FlightSpawns(a) ==
    /\ flight[a].pc = "config"
    /\ \E p \in Procs :
          /\ handle[p] = "unborn" /\ \A q \in Procs : handle[q] = "unborn" => p <= q
          /\ Spawn(p)
          /\ owner' = [owner EXCEPT ![p] = a]
          /\ flight' = [flight EXCEPT ![a] = [proc |-> p, pc |-> "handshake"]]
    /\ UNCHANGED <<leaseVars, processes, prompt, op, recovery, asked, status, retired,
                   fallbacks, faults, ops>>

(* ... it answers get_state and is registered, ...                         *)
HandshakeDone(a) ==
    /\ flight[a].pc = "handshake"
    /\ flight[a].proc \in alive /\ IsRunning(flight[a].proc)
    /\ processes' = [processes EXCEPT ![a] = flight[a].proc]
    /\ flight' = [flight EXCEPT ![a].pc = "history"]
    /\ UNCHANGED <<leaseVars, rpcVars, owner, prompt, op, recovery, asked, status, retired,
                   fallbacks, faults, ops>>

(* ... and answers get_messages.                                           *)
HistoryDone(a) ==
    /\ flight[a].pc = "history"
    /\ flight[a].proc \in alive /\ Writable(flight[a].proc)
    /\ FlightEnds(a, "up", flight[a].proc)
    /\ UNCHANGED <<leaseVars, rpcVars, processes, owner, asked, status, retired,
                   fallbacks, faults, ops>>

(* The child does not answer in time, or it is gone: the process is        *)
(* stopped; before the handshake an updated runtime is rolled back.        *)
FlightFails(a) ==
    /\ flight[a].pc \in {"handshake", "history"}
    /\ LET p == flight[a].proc
       IN  /\ IF ~Writable(p) THEN UNCHANGED faults ELSE Fault("start")
           /\ Stop(p)
           /\ processes' = [processes EXCEPT ![a] = IF @ = p THEN None ELSE @]
    /\ IF flight[a].pc = "handshake" /\ fallbacks > 0
       THEN /\ flight' = [flight EXCEPT ![a].pc = "fallback"]
            /\ fallbacks' = fallbacks - 1
       ELSE /\ flight' = [flight EXCEPT ![a].pc = "failing"]
            /\ UNCHANGED fallbacks
    /\ UNCHANGED <<leaseVars, owner, prompt, op, recovery, asked, status, retired, ops>>

FlightStopped(a) ==
    /\ flight[a].pc \in {"fallback", "failing"}
    /\ Stopped(flight[a].proc)
    /\ IF flight[a].pc = "fallback"
       THEN /\ flight' = [flight EXCEPT ![a] = [proc |-> None, pc |-> "config"]]
            /\ UNCHANGED <<prompt, op, recovery>>
       ELSE FlightEnds(a, "down", None)
    /\ UNCHANGED <<leaseVars, rpcVars, processes, owner, asked, status, retired,
                   fallbacks, faults, ops>>

Flights(a) ==
    FlightSpawns(a) \/ HandshakeDone(a) \/ HistoryDone(a) \/ FlightFails(a) \/ FlightStopped(a)

-----------------------------------------------------------------------------
(* prompt().                                                               *)
SetPrompt(m, pc) == prompt' = [prompt EXCEPT ![m].pc = pc]

PromptUnchanged ==
    UNCHANGED <<owner, op, recovery, asked, retired, fallbacks, faults, ops>>

PromptStarts(m, a) ==
    /\ prompt[m].pc = "new"
    /\ a \notin retired
    /\ Patient => Quiet(a)
    /\ prompt' = [prompt EXCEPT ![m].agent = a,
                                ![m].pc = IF a \in Writers THEN "lease" ELSE "ensure"]
    /\ IF a \in Writers THEN Begin(m, "acquire", a, App) ELSE UNCHANGED leaseVars
    /\ UNCHANGED <<rpcVars, processes, flight, status>> /\ PromptUnchanged

(* Mutant: a conflict does not stop the prompt.                            *)
PromptLeasedAnyway(m) ==
    /\ prompt[m].pc = "lease"
    /\ Return(m)
    /\ SetPrompt(m, "ensure")
    /\ UNCHANGED <<rpcVars, processes, flight, status>> /\ PromptUnchanged

(* A conflict or an unreadable lease is thrown before the try block.       *)
PromptLeased(m) ==
    /\ prompt[m].pc = "lease"
    /\ Return(m)
    /\ SetPrompt(m, IF call[m].pc = "ok" THEN "ensure" ELSE "failed")
    /\ UNCHANGED <<rpcVars, processes, flight, status>> /\ PromptUnchanged

PromptEnsures(m) ==
    LET a == prompt[m].agent
    IN  /\ prompt[m].pc = "ensure"
        /\ \/ /\ HasProcess(a)
              /\ prompt' = [prompt EXCEPT ![m].pc = "up", ![m].proc = processes[a]]
              /\ UNCHANGED <<processes, flight>>
           \/ JoinFlight(a) /\ SetPrompt(m, "await")
        /\ UNCHANGED <<leaseVars, rpcVars, status>> /\ PromptUnchanged

PromptMarks(m) ==
    /\ prompt[m].pc = "up"
    /\ status' = [status EXCEPT ![prompt[m].agent] = "running"]
    /\ SetPrompt(m, "send")
    /\ UNCHANGED <<leaseVars, rpcVars, processes, flight>> /\ PromptUnchanged

PromptSends(m) ==
    /\ prompt[m].pc = "send"
    /\ Send(prompt[m].proc, m) \/ SendFails(prompt[m].proc, m)
    /\ SetPrompt(m, "sent")
    /\ UNCHANGED <<leaseVars, processes, flight, status>> /\ PromptUnchanged

PromptReturns(m) ==
    /\ prompt[m].pc = "sent"
    /\ result[m] = "answered"
    /\ SetPrompt(m, "done")
    /\ UNCHANGED <<leaseVars, rpcVars, processes, flight, status>> /\ PromptUnchanged

(* Mutant: no catch block.                                                 *)
PromptThrows(m) ==
    /\ \/ prompt[m].pc = "down"
       \/ prompt[m].pc = "sent" /\ result[m] \in Settled \ {"answered"}
    /\ SetPrompt(m, "failed")
    /\ UNCHANGED <<leaseVars, rpcVars, processes, flight, status>> /\ PromptUnchanged

(* The catch block: whatever failed after acquire(), the lease is released. *)
PromptCatches(m) ==
    /\ \/ prompt[m].pc = "down"
       \/ prompt[m].pc = "sent" /\ result[m] \in Settled \ {"answered"}
    /\ BeatsOver(prompt[m].agent)
    /\ LET a == prompt[m].agent
       IN  IF a \in Writers
           THEN Begin(m, "release", a, App) /\ SetPrompt(m, "release")
           ELSE UNCHANGED leaseVars /\ SetPrompt(m, "failed")
    /\ UNCHANGED <<rpcVars, processes, flight, status>> /\ PromptUnchanged

PromptReleased(m) ==
    /\ prompt[m].pc = "release"
    /\ Return(m)
    /\ SetPrompt(m, "failed")
    /\ UNCHANGED <<rpcVars, processes, flight, status>> /\ PromptUnchanged

Prompting(m) ==
    \/ PromptLeased(m) \/ PromptEnsures(m) \/ PromptMarks(m)
    \/ PromptSends(m) \/ PromptReturns(m) \/ PromptCatches(m) \/ PromptReleased(m)

-----------------------------------------------------------------------------
(* The event listener of startProcess().                                   *)
EventUnchanged ==
    UNCHANGED <<flight, owner, prompt, op, retired, fallbacks, faults, ops>>

(* void this.writeLeases.release(...): beside everything else.             *)
VoidRelease(a) ==
    IF a \in Writers THEN Begin(Free(a), "release", a, App) ELSE UNCHANGED leaseVars

(* A heartbeat while another one of the agent is under way is left out.    *)
OnTurnStart(p) ==
    /\ TakeEvent(p, "turn_start")
    /\ ReleasesOver(owner[p])
    /\ LET a == owner[p]
       IN  IF a \in Writers /\ SlotIdle(Beat(a))
           THEN Begin(Beat(a), "heartbeat", a, App)
           ELSE UNCHANGED leaseVars
    /\ UNCHANGED <<processes, recovery, asked, status>> /\ EventUnchanged

OnUiRequest(p) ==
    /\ TakeEvent(p, "ui_request")
    /\ asked' = [asked EXCEPT ![owner[p]] = p]
    /\ status' = [status EXCEPT ![owner[p]] = "waiting"]
    /\ UNCHANGED <<leaseVars, processes, recovery>> /\ EventUnchanged

(* Mutant: the end of a run leaves the lease.                              *)
OnSettledKeepsLease(p) ==
    /\ TakeEvent(p, "agent_settled")
    /\ asked' = [asked EXCEPT ![owner[p]] = None]
    /\ status' = [status EXCEPT ![owner[p]] = "idle"]
    /\ UNCHANGED <<leaseVars, processes, recovery>> /\ EventUnchanged

OnSettled(p) ==
    /\ TakeEvent(p, "agent_settled")
    /\ BeatsOver(owner[p])
    /\ asked' = [asked EXCEPT ![owner[p]] = None]
    /\ status' = [status EXCEPT ![owner[p]] = "idle"]
    /\ VoidRelease(owner[p])
    /\ UNCHANGED <<processes, recovery>> /\ EventUnchanged

(* process_exit: ignored when expected or when the process was replaced,   *)
(* else the agent loses its process and lease, and is recovered.           *)
OnExit(p) ==
    LET a == owner[p]
    IN  /\ ExitSeen(p)
        /\ BeatsOver(a)
        /\ asked' = [asked EXCEPT ![a] = None]
        /\ IF handle[p] = "stopping" \/ processes[a] # p
           THEN UNCHANGED <<leaseVars, processes, recovery>>
           ELSE /\ processes' = [processes EXCEPT ![a] = None]
                /\ VoidRelease(a)
                /\ \E i \in Recoveries :
                      /\ recovery[i] = NoRecovery
                      /\ \A j \in Recoveries : recovery[j] = NoRecovery => i <= j
                      /\ recovery' = [recovery EXCEPT ![i] =
                                        [agent |-> a, attempt |-> 1, pc |-> "sleep"]]
        /\ UNCHANGED status /\ EventUnchanged

OnLine(p) == OnResponse(p) /\ UNCHANGED <<leaseVars, managerVars>>

Events(p) == OnTurnStart(p) \/ OnUiRequest(p) \/ OnSettled(p) \/ OnExit(p) \/ OnLine(p)

(* A call started with "void" ends; its result is nobody's.                *)
VoidReturns(c) == c \in EventSlots /\ Return(c) /\ UNCHANGED <<rpcVars, managerVars>>

-----------------------------------------------------------------------------
(* recoverProcess(): two attempts, then the agent has failed.              *)
RecoveryUnchanged ==
    UNCHANGED <<leaseVars, rpcVars, owner, prompt, op, asked, retired, fallbacks, faults, ops>>

RecoveryWakes(i) ==
    LET a == recovery[i].agent
    IN  /\ recovery[i].pc = "sleep"
        /\ \/ /\ HasProcess(a)
              /\ recovery' = [recovery EXCEPT ![i] = NoRecovery]
              /\ UNCHANGED <<processes, flight>>
           \/ JoinFlight(a) /\ recovery' = [recovery EXCEPT ![i].pc = "await"]
        /\ UNCHANGED status /\ RecoveryUnchanged

(* Mutant: the last attempt fails without a word.                          *)
RecoveryEndsSilent(i) ==
    LET r == recovery[i]
    IN  /\ r.pc \in {"up", "down"}
        /\ IF r.pc = "down" /\ r.attempt = 1
           THEN /\ recovery' = [recovery EXCEPT ![i].attempt = 2, ![i].pc = "sleep"]
                /\ UNCHANGED status
           ELSE /\ recovery' = [recovery EXCEPT ![i] = NoRecovery]
                /\ status' = [status EXCEPT ![r.agent] = IF r.pc = "up" THEN "idle" ELSE @]
        /\ UNCHANGED <<processes, flight>> /\ RecoveryUnchanged

RecoveryEnds(i) ==
    LET r == recovery[i]
    IN  /\ r.pc \in {"up", "down"}
        /\ IF r.pc = "down" /\ r.attempt = 1
           THEN /\ recovery' = [recovery EXCEPT ![i].attempt = 2, ![i].pc = "sleep"]
                /\ UNCHANGED status
           ELSE /\ recovery' = [recovery EXCEPT ![i] = NoRecovery]
                /\ status' = [status EXCEPT ![r.agent] = IF r.pc = "up" THEN "idle" ELSE "failed"]
        /\ UNCHANGED <<processes, flight>> /\ RecoveryUnchanged

-----------------------------------------------------------------------------
(* reconnect(), /reload (a reconnect behind a check of the status), reset() *)
(* and stopProject(): forget the process, stop it, release the lease.      *)
OpUnchanged == UNCHANGED <<owner, prompt, recovery, fallbacks, faults>>

OpBegins(a, kind, pc) ==
    /\ op[a] = NoOp
    /\ a \notin retired
    /\ Patient => Quiet(a)
    /\ ops < MaxOps /\ ops' = ops + 1
    /\ op' = [op EXCEPT ![a] = [kind |-> kind, proc |-> processes[a], pc |-> pc,
                                snap |-> status[a]]]
    /\ UNCHANGED <<leaseVars, flight, status, retired>> /\ OpUnchanged

(* Mutant: /reload without the gate on the status.                         *)
OpStartsUngated(a, kind) ==
    /\ OpBegins(a, kind, "stop")
    /\ kind = "close" => processes[a] # None
    /\ processes' = [processes EXCEPT ![a] = None]
    /\ asked' = [asked EXCEPT ![a] = None]
    /\ IF processes[a] = None THEN UNCHANGED rpcVars ELSE Stop(processes[a])

(* reconnect() first answers an open permission request with "cancelled".  *)
OpStarts(a, kind) ==
    /\ OpBegins(a, kind, "stop")
    /\ kind = "reload" => status[a] \notin {"running", "waiting"}
    /\ kind = "close" => processes[a] # None
    /\ processes' = [processes EXCEPT ![a] = None]
    /\ asked' = [asked EXCEPT ![a] = None]
    /\ IF processes[a] = None THEN UNCHANGED rpcVars
       ELSE IF kind \in {"reconnect", "reload"} /\ asked[a] # None
            THEN WriteAndStop(processes[a], <<"answer">>)
            ELSE Stop(processes[a])

(* Mutant: stop() is not awaited.                                          *)
OpStoppedUnawaited(a) ==
    /\ op[a].pc = "stop"
    /\ BeatsOver(a)
    /\ IF a \in Writers THEN Begin(OpSlot(a), "release", a, App) ELSE UNCHANGED leaseVars
    /\ op' = [op EXCEPT ![a].pc = "release"]
    /\ UNCHANGED <<rpcVars, processes, flight, asked, status, retired, ops>> /\ OpUnchanged

OpStopped(a) ==
    /\ op[a].pc = "stop"
    /\ op[a].proc # None => Stopped(op[a].proc)
    /\ BeatsOver(a)
    /\ IF a \in Writers THEN Begin(OpSlot(a), "release", a, App) ELSE UNCHANGED leaseVars
    /\ op' = [op EXCEPT ![a].pc = "release"]
    /\ UNCHANGED <<rpcVars, processes, flight, asked, status, retired, ops>> /\ OpUnchanged

OpReleased(a) ==
    /\ op[a].pc = "release"
    /\ IF a \in Writers THEN Return(OpSlot(a)) ELSE UNCHANGED leaseVars
    /\ IF op[a].kind \in {"reset", "close"}
       THEN /\ op' = [op EXCEPT ![a] = NoOp]
            /\ retired' = IF op[a].kind = "reset" THEN retired \cup {a} ELSE retired
       ELSE op' = [op EXCEPT ![a].pc = "ensure"] /\ UNCHANGED retired
    /\ UNCHANGED <<rpcVars, processes, flight, asked, status, ops>> /\ OpUnchanged

(* activate(): the user opens the agent; its process is started if need be *)
(* and its status corrected.                                               *)
Activate(a) ==
    /\ OpBegins(a, "activate", "ensure")
    /\ UNCHANGED <<rpcVars, processes, asked>>

OpEnsures(a) ==
    /\ op[a].pc = "ensure"
    /\ \/ /\ HasProcess(a)
          /\ op' = [op EXCEPT ![a].pc = "up", ![a].proc = processes[a]]
          /\ UNCHANGED <<processes, flight>>
       \/ JoinFlight(a) /\ op' = [op EXCEPT ![a].pc = "await"]
    /\ UNCHANGED <<leaseVars, rpcVars, asked, status, retired, ops>> /\ OpUnchanged

OpSets(a, s) ==
    /\ status' = [status EXCEPT ![a] = s]
    /\ op' = [op EXCEPT ![a] = NoOp]

OpEnds(a) ==
    /\ op[a].pc \in {"up", "down"} /\ op[a].kind # "activate"
    /\ OpSets(a, IF op[a].pc = "up" THEN "idle" ELSE "failed")
    /\ UNCHANGED <<leaseVars, rpcVars, processes, flight, asked, retired, ops>> /\ OpUnchanged

(* An open permission request decides the status; else Pi is asked for its *)
(* state.  Without a process, activate() throws.                           *)
ActivateLooks(a) ==
    /\ op[a].kind = "activate" /\ op[a].pc \in {"up", "down"}
    /\ IF op[a].pc = "up" /\ asked[a] # None
       THEN OpSets(a, IF op[a].snap = "waiting" THEN status[a] ELSE "waiting")
       ELSE /\ op' = [op EXCEPT ![a] =
                        IF op[a].pc = "down" \/ op[a].proc \notin alive THEN NoOp
                        ELSE [@ EXCEPT !.pc = IF op[a].proc \in running THEN "streaming" ELSE "quiet"]]
            /\ UNCHANGED status
    /\ UNCHANGED <<leaseVars, rpcVars, processes, flight, asked, retired, ops>> /\ OpUnchanged

(* The status Pi was in is written unless it is the status activate() read *)
(* when it began.                                                          *)
ActivateEnds(a) ==
    /\ op[a].pc \in {"streaming", "quiet"}
    /\ LET s == IF op[a].pc = "streaming" THEN "running" ELSE "idle"
       IN  OpSets(a, IF s = op[a].snap THEN status[a] ELSE s)
    /\ UNCHANGED <<leaseVars, rpcVars, processes, flight, asked, retired, ops>> /\ OpUnchanged

Operations(a) ==
    \/ OpStopped(a) \/ OpReleased(a) \/ OpEnsures(a) \/ OpEnds(a)
    \/ ActivateLooks(a) \/ ActivateEnds(a)

-----------------------------------------------------------------------------
(* The user answers a permission request -- Pi drops an answer to another  *)
(* process' request -- or aborts the run.                                  *)
UserUnchanged ==
    UNCHANGED <<leaseVars, processes, flight, owner, prompt, op, recovery, status, retired,
                fallbacks, faults, ops>>

RespondToExtensionUi(a) ==
    /\ asked[a] # None
    /\ IF processes[a] = asked[a] THEN Write(processes[a], <<"answer">>) ELSE UNCHANGED rpcVars
    /\ asked' = [asked EXCEPT ![a] = None]
    /\ UserUnchanged

Abort(a) ==
    /\ processes[a] # None
    /\ owner[processes[a]] = a /\ processes[a] \in running
    /\ Len(stdin[processes[a]]) < MaxPipe
    /\ Write(processes[a], IF asked[a] # None THEN <<"answer", "abort">> ELSE <<"abort">>)
    /\ asked' = [asked EXCEPT ![a] = None]
    /\ UserUnchanged

-----------------------------------------------------------------------------
(* The children and the clock; what goes wrong is counted.                 *)
PiFaults(p) ==
    /\ \/ PiRefuses(p) /\ Fault("refuse")
       \/ PiHandles(p) /\ Fault("handle")
       \/ PiDies(p) /\ handle[p] = "open" /\ Fault("die")
       \/ "timeout" \in Faults /\ (\E m \in Requests : TimeOut(p, m)) /\ UNCHANGED faults
    /\ UNCHANGED <<leaseVars, processes, flight, owner, prompt, op, recovery, asked, status,
                   retired, fallbacks, ops>>

PiWorks(p) ==
    /\ \/ PiAccepts(p) \/ PiTurns(p) \/ PiAsks(p) \/ PiGetsAnswer(p) \/ PiSettles(p)
       \/ PiAborts(p) \/ Kill(p)
       \/ (handle[p] = "stopping" /\ PiDies(p))
    /\ UNCHANGED <<leaseVars, managerVars>>

LeaseWorks(c) == LeaseStep(c) /\ UNCHANGED <<rpcVars, managerVars>>

Next ==
    \/ \E c \in Calls : LeaseWorks(c) \/ VoidReturns(c)
    \/ \E m \in Requests : Prompting(m) \/ (\E a \in Agents : PromptStarts(m, a))
    \/ \E p \in Procs : PiWorks(p) \/ PiFaults(p) \/ Events(p)
    \/ \E i \in Recoveries : RecoveryWakes(i) \/ RecoveryEnds(i)
    \/ \E a \in Agents :
          \/ Flights(a) \/ Activate(a) \/ Operations(a)
          \/ RespondToExtensionUi(a) \/ Abort(a)
          \/ \E kind \in {"reconnect", "reload", "reset", "close"} : OpStarts(a, kind)

Spec == Init /\ [][Next]_vars

(* The event loop: started file operations end, promises that settled are  *)
(* continued, timers fire, lines and exit events are delivered.            *)
LoopFairness ==
    /\ \A c \in Calls : WF_vars(LeaseWorks(c)) /\ WF_vars(VoidReturns(c))
    /\ \A m \in Requests : WF_vars(Prompting(m))
    /\ \A p \in Procs : WF_vars(Events(p))
                      /\ WF_vars(Kill(p) /\ UNCHANGED <<leaseVars, managerVars>>)
                      /\ WF_vars(\E m \in Requests : TimeOut(p, m) /\ PiFaults(p))
    /\ \A i \in Recoveries : WF_vars(RecoveryWakes(i)) /\ WF_vars(RecoveryEnds(i))
    /\ \A a \in Agents : WF_vars(Flights(a)) /\ WF_vars(Operations(a))

LoopSpec == Spec /\ LoopFairness

(* Pi reads its commands, no run goes on for ever, and the user answers.   *)
PiFairness ==
    /\ \A p \in Procs :
          /\ SF_vars(PiSettles(p) /\ UNCHANGED <<leaseVars, managerVars>>)
          /\ SF_vars((PiAccepts(p) \/ PiGetsAnswer(p) \/ PiAborts(p))
                     /\ UNCHANGED <<leaseVars, managerVars>>)
    /\ \A a \in Agents : WF_vars(RespondToExtensionUi(a))

FairSpec == LoopSpec /\ PiFairness

-----------------------------------------------------------------------------
(* Safety.                                                                 *)

Names(a) == file.state = "lease" /\ file.holder = a

(* At most one agent that may modify the project has a run in progress.    *)
ExclusiveRuns ==
    \A p, q \in running : owner[p] \in Writers /\ owner[q] \in Writers => owner[p] = owner[q]

(* The run of a writer is covered by its lease: the file names the agent,  *)
(* or a call of the agent is just rewriting it.                            *)
RunLeased ==
    \A p \in running : owner[p] \in Writers =>
        \/ Names(owner[p])
        \/ file = Torn /\ \E c \in Calls : At(c, "fill") /\ call[c].agent = owner[p]

(* A writer that runs is alone, and the lease on disk is its own.          *)
RunsAreCovered == ExclusiveRuns /\ RunLeased

(* "the project is being modified by X": the agent the lease names has     *)
(* something going on, so the lease will be released.                      *)
LeaseIsWorkedFor == \A a \in Writers : Names(a) => ~Quiet(a)

(* No two live children of one agent, beside one that is being stopped:    *)
(* they would append to the same session file; and, once the agent is      *)
(* quiet, none that the manager does not know of: it can be prompted,      *)
(* aborted and stopped.                                                    *)
OneChild ==
    /\ \A p, q \in alive :
           handle[p] = "open" /\ handle[q] = "open" /\ owner[p] = owner[q] => p = q
    /\ \A p \in alive : handle[p] = "open" /\ Quiet(owner[p]) => processes[owner[p]] = p

(* A reset agent leaves no child behind.                                   *)
ResetLeavesNoChild ==
    \A p \in alive : owner[p] \in retired => ~Quiet(owner[p])

(* A quiet agent is not shown as running or waiting for the user, and no   *)
(* permission request of a run that is over is shown.                      *)
StatusSettles ==
    \A a \in Agents : Quiet(a) => status[a] \notin {"running", "waiting"} /\ asked[a] = None

(* When everything about an agent has ended, nothing of it is left: no     *)
(* child of a reset, no status and no request of a run.                    *)
QuietLeavesNothing == ResetLeavesNoChild /\ StatusSettles

(* /reload never takes away the run of an agent: it restarts the process   *)
(* only when the agent is idle.                                            *)
ReloadSparesRuns ==
    [][\A a \in Agents : OpStarts(a, "reload") /\ processes[a] # None
                             => processes[a] \notin running]_vars

-----------------------------------------------------------------------------
(* Liveness.                                                               *)

(* Every prompt() returns, whatever Pi does: the lease call, the start of  *)
(* the process and the request all end, by an answer or by a timer.        *)
EveryPromptReturns ==
    \A m \in Requests : prompt[m].pc # "new" ~> prompt[m].pc \in {"done", "failed"}

(* An agent that lost its process gets a new one or is shown as failed.    *)
LostProcessIsRecovered ==
    \A a \in Agents :
        (\E i \in Recoveries : recovery[i].agent = a) ~> HasProcess(a) \/ status[a] = "failed"

(* The lease of an agent is released some time.                            *)
LeaseIsReleased == \A a \in Writers : Names(a) ~> ~Names(a)
=============================================================================
