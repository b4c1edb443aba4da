--------------------------- MODULE AgentRegistry ---------------------------
(***************************************************************************)
(* AgentRegistry (codepiddy-core/src/agent-registry.ts): the agent.json of *)
(* each work item's agent, the chain through which all of them are written *)
(* and the calls that read, create, retire and update agents.  A step is a *)
(* file operation, or what happens between two awaits.                     *)
(*                                                                         *)
(* Abstracted: one role for each work item, and of the record the id only; *)
(* a ticket tells one status from another.                                 *)
(***************************************************************************)
EXTENDS Naturals, Sequences, FiniteSets

CONSTANTS
    Calls,      \* IPC handlers that run at the same time
    MaxItems,   \* bound: numbers of work items
    MaxIds,     \* bound: agents created
    MaxWrites   \* bound: calls of writeAgent()

ASSUME RegistryAssumption ==
    MaxItems \in Nat /\ MaxIds \in Nat /\ MaxWrites \in Nat

VARIABLES
    dir,        \* dir[i] : the directory of item i's agent exists
    agent,      \* agent[i] : the record in agent.json, or None
    tmps,       \* tmps[i] : temporary files beside it, complete
    chain,      \* writeChain: the writes to do; the first one is under way
    call,       \* call[c] : what the handler does, and where it is
    ids,        \* number of ids given
    writes,     \* number of writes asked for
    retired,    \* history: ids archived or deleted
    owner,      \* history: owner[i] : the id of the last agent created
    latest,     \* history: latest[i] : the last ticket written to agent.json
    late,       \* history: items with a status set for a superseded agent
    crossed     \* history: items reset while another handler created their agent

fileVars == <<dir, agent, tmps>>
countVars == <<ids, writes>>
historyVars == <<retired, owner, latest, late, crossed>>
registryVars == <<fileVars, chain, call, countVars, historyVars>>

Items == 1..MaxItems
Ids == 1..MaxIds
None == [id |-> 0, ticket |-> 0]
Records == [id : Ids, ticket : 1..MaxWrites]
IdleCall == [op |-> "none", pc |-> "idle", item |-> 0, id |-> 0, after |-> 0]

RegistryTypeOK ==
    /\ dir \in [Items -> BOOLEAN]
    /\ agent \in [Items -> Records \cup {None}]
    /\ tmps \in [Items -> SUBSET Records]
    /\ chain \in Seq([item : Items, rec : Records, new : BOOLEAN, step : {"asked", "tmp", "removed"}])
    /\ call \in [Calls -> [op : {"none", "create", "reset", "status", "newItem", "delete"},
                           pc : {"idle", "get", "mkdir", "write", "hold", "archive",
                                 "makeItem", "manifest", "rmAgents", "rmItem"},
                           item : 0..MaxItems, id : 0..MaxIds, after : 0..MaxWrites]]
    /\ ids \in 0..MaxIds /\ writes \in 0..MaxWrites
    /\ retired \subseteq Ids /\ owner \in [Items -> 0..MaxIds]
    /\ latest \in [Items -> 0..MaxWrites] /\ late \subseteq Items /\ crossed \subseteq Items

RegistryInit ==
    /\ dir = [i \in Items |-> FALSE]
    /\ agent = [i \in Items |-> None]
    /\ tmps = [i \in Items |-> {}]
    /\ chain = <<>>
    /\ call = [c \in Calls |-> IdleCall]
    /\ ids = 0 /\ writes = 0
    /\ retired = {} /\ owner = [i \in Items |-> 0]
    /\ latest = [i \in Items |-> 0] /\ late = {} /\ crossed = {}

At(c, op, pc) == call[c].op = op /\ call[c].pc = pc
Goto(c, pc) == call' = [call EXCEPT ![c].pc = pc]
Return(c) == call' = [call EXCEPT ![c] = IdleCall]

-----------------------------------------------------------------------------
(* writeAgent() and its chain.                                             *)

(* Mutant: a write does not wait for the earlier ones.                     *)
AskUnchained(i, id, new) ==
    /\ writes < MaxWrites /\ writes' = writes + 1
    /\ chain' = <<[item |-> i, rec |-> [id |-> id, ticket |-> writes'],
                   new |-> new, step |-> "asked"]>> \o chain

(* The write is put last; failures of earlier ones do not matter to it.    *)
Ask(i, id, new) ==
    /\ writes < MaxWrites /\ writes' = writes + 1
    /\ chain' = Append(chain, [item |-> i, rec |-> [id |-> id, ticket |-> writes'],
                               new |-> new, step |-> "asked"])

(* The first write has ended: those who wait for the chain have one less.  *)
WriteEnds ==
    /\ chain' = Tail(chain)
    /\ call' = [c \in Calls |-> [call[c] EXCEPT !.after = IF @ = 0 THEN 0 ELSE @ - 1]]

(* Mutant: the old file is removed before the new one has been written.    *)
RemovesThenWrites ==
    /\ chain # <<>> /\ Head(chain).step = "asked"
    /\ LET i == Head(chain).item IN
       IF dir[i] /\ agent[i] # None
       THEN agent' = [agent EXCEPT ![i] = None] /\ UNCHANGED <<tmps, chain, call>>
       ELSE IF dir[i]
       THEN /\ tmps' = [tmps EXCEPT ![i] = @ \cup {Head(chain).rec}]
            /\ chain' = [chain EXCEPT ![1].step = "tmp"] /\ UNCHANGED <<agent, call>>
       ELSE WriteEnds /\ UNCHANGED <<agent, tmps>>
    /\ UNCHANGED <<dir, countVars, historyVars>>

(* writeFile() of the temporary file; it fails when there is no directory. *)
WriteTmp ==
    /\ chain # <<>> /\ Head(chain).step = "asked"
    /\ LET i == Head(chain).item IN
       IF dir[i]
       THEN /\ tmps' = [tmps EXCEPT ![i] = @ \cup {Head(chain).rec}]
            /\ chain' = [chain EXCEPT ![1].step = "tmp"] /\ UNCHANGED call
       ELSE WriteEnds /\ UNCHANGED tmps
    /\ UNCHANGED <<dir, agent, countVars, historyVars>>

(* rm(filePath, force).                                                    *)
WriteRemoves ==
    /\ chain # <<>> /\ Head(chain).step = "tmp"
    /\ agent' = [agent EXCEPT ![Head(chain).item] = None]
    /\ chain' = [chain EXCEPT ![1].step = "removed"]
    /\ UNCHANGED <<dir, tmps, call, countVars, historyVars>>

(* rename(), which fails when the directory has been moved or deleted, and *)
(* the rm() of the finally clause.                                         *)
WriteRenames ==
    /\ chain # <<>> /\ Head(chain).step = "removed"
    /\ LET i == Head(chain).item
           rec == Head(chain).rec
       IN  IF rec \in tmps[i]
           THEN /\ agent' = [agent EXCEPT ![i] = rec]
                /\ tmps' = [tmps EXCEPT ![i] = @ \ {rec}]
                /\ owner' = IF Head(chain).new THEN [owner EXCEPT ![i] = rec.id] ELSE owner
                /\ latest' = [latest EXCEPT ![i] = IF rec.ticket > @ THEN rec.ticket ELSE @]
           ELSE UNCHANGED <<agent, tmps, owner, latest>>
    /\ WriteEnds
    /\ UNCHANGED <<dir, countVars, retired, late, crossed>>

-----------------------------------------------------------------------------
(* get(), create(), reset(), setStatus().                                  *)

(* Mutant: get() reads at once.                                            *)
GettingAtOnce(c, op, i, id) ==
    call' = [call EXCEPT ![c] = [op |-> op, pc |-> "get", item |-> i, id |-> id, after |-> 0]]

(* get() waits for the writes that are asked for when it is called.        *)
Getting(c, op, i, id) ==
    call' = [call EXCEPT ![c] = [op |-> op, pc |-> "get", item |-> i, id |-> id,
                                 after |-> Len(chain)]]

AskStatus(c, i) ==
    /\ At(c, "none", "idle")
    /\ Getting(c, "status", i, 0)
    /\ UNCHANGED <<fileVars, chain, countVars, historyVars>>

(* The caller names the agent it has seen.                                 *)
AskReset(c, i) ==
    /\ At(c, "none", "idle") /\ agent[i] # None
    /\ Getting(c, "reset", i, agent[i].id)
    /\ UNCHANGED <<fileVars, chain, countVars, historyVars>>

Read(c) ==
    /\ call[c].pc = "get" /\ call[c].after = 0
    /\ LET found == agent[call[c].item] IN
       \/ call[c].op = "create" /\ found = None /\ Goto(c, "mkdir")
       \/ call[c].op = "create" /\ found # None /\ Return(c)
       \/ call[c].op = "status" /\ found # None
             /\ call' = [call EXCEPT ![c].pc = "hold", ![c].id = found.id]
       \/ call[c].op = "reset" /\ found # None /\ found.id = call[c].id /\ Goto(c, "archive")
       \/ call[c].op = "reset" /\ found.id # call[c].id /\ Return(c)
       \/ call[c].op = "status" /\ found = None /\ Return(c)
    /\ UNCHANGED <<fileVars, chain, countVars, historyVars>>

(* The ids whose records go away with the directory of item i.             *)
IdsAt(i) == {r.id : r \in tmps[i] \cup {agent[i]}} \ {0}

(* reset(): the directory is renamed, and create() begins.                 *)
Archive(c) ==
    /\ At(c, "reset", "archive")
    /\ LET i == call[c].item IN
       IF dir[i]
       THEN /\ dir' = [dir EXCEPT ![i] = FALSE]
            /\ retired' = retired \cup IdsAt(i) \cup {call[c].id}
            /\ agent' = [agent EXCEPT ![i] = None] /\ tmps' = [tmps EXCEPT ![i] = {}]
            /\ owner' = [owner EXCEPT ![i] = 0]
            /\ crossed' = IF \E d \in Calls \ {c} : call[d].op = "create" /\ call[d].item = i
                          THEN crossed \cup {i} ELSE crossed
            /\ Getting(c, "create", i, 0)
       ELSE Return(c) /\ UNCHANGED <<fileVars, retired, owner, crossed>>
    /\ UNCHANGED <<chain, countVars, latest, late>>

(* The record of a new agent, when its directories have been made.         *)
WriteNew(c) ==
    /\ At(c, "create", "write") /\ ids < MaxIds
    /\ ids' = ids + 1
    /\ Ask(call[c].item, ids', TRUE)
    /\ Return(c)
    /\ UNCHANGED <<fileVars, historyVars>>

(* Agent id of item i has been retired, or another one created after it.   *)
Superseded(i, id) ==
    \/ id \in retired \/ owner[i] > id
    \/ \E k \in DOMAIN chain : chain[k].new /\ chain[k].item = i /\ chain[k].rec.id > id

(* setStatus() with the record that the caller has read some time ago.     *)
SetStatus(c) ==
    /\ At(c, "status", "hold")
    /\ Ask(call[c].item, call[c].id, FALSE)
    /\ late' = IF Superseded(call[c].item, call[c].id) THEN late \cup {call[c].item} ELSE late
    /\ Return(c)
    /\ UNCHANGED <<fileVars, ids, retired, owner, latest, crossed>>
=============================================================================
