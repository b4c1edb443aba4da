----------------------------- MODULE WorkItems -----------------------------
(***************************************************************************)
(* The work items of a lane (codepiddy-core/src/project-service.ts) and    *)
(* the IPC handlers that create and delete them together with the agents   *)
(* of the registry, over crashes of the main process.                      *)
(*                                                                         *)
(* Abstracted: one lane; titles (a manifest is known by the call that      *)
(* wrote it), work-item.md, archiving and renaming.                        *)
(***************************************************************************)
EXTENDS AgentRegistry

CONSTANTS
    Absent, Bare,   \* no directory; a directory without work-item.json
    MaxCrashes      \* bound: crashes of the main process

ASSUME ItemsAssumption ==
    /\ Absent \notin Calls /\ Bare \notin Calls /\ Absent # Bare
    /\ MaxCrashes \in Nat

VARIABLES
    items,      \* items[i] : Absent, Bare, or the call that wrote its manifest
    raced,      \* history: items whose agent was created while they went away
    crashes

vars == <<registryVars, items, raced, crashes>>

TypeOK ==
    /\ RegistryTypeOK
    /\ items \in [Items -> Calls \cup {Absent, Bare}]
    /\ raced \subseteq Items /\ crashes \in 0..MaxCrashes

Init ==
    /\ RegistryInit
    /\ items = [i \in Items |-> Absent]
    /\ raced = {} /\ crashes = 0

Listed(i) == items[i] \in Calls

(* A handler begins with item i.                                           *)
Begin(c, op, pc, i) ==
    call' = [call EXCEPT ![c] = [op |-> op, pc |-> pc, item |-> i, id |-> 0, after |-> 0]]

-----------------------------------------------------------------------------
(* AgentManager.create() looks for the work item, and calls the registry.  *)
AskCreate(c, i) ==
    /\ At(c, "none", "idle") /\ Listed(i)
    /\ Getting(c, "create", i, 0)
    /\ UNCHANGED <<fileVars, chain, countVars, historyVars, items, raced, crashes>>

(* The handler that deletes item i has been at the registry already.       *)
GoesAway(i) == \E c \in Calls : At(c, "delete", "rmItem") /\ call[c].item = i

Creating(i) == \E c \in Calls : call[c].op \in {"create", "reset"} /\ call[c].item = i

(* mkdir(recursive) of the directory of the agent and its sessions.        *)
Mkdir(c) ==
    /\ At(c, "create", "mkdir")
    /\ Goto(c, "write")
    /\ dir' = [dir EXCEPT ![call[c].item] = TRUE]
    /\ raced' = IF GoesAway(call[c].item) THEN raced \cup {call[c].item} ELSE raced
    /\ UNCHANGED <<agent, tmps, chain, countVars, historyVars, items, crashes>>

(* createWorkItem(): the number after the largest one, its directory, and  *)
(* its manifest.                                                           *)
Numbered == {i \in Items : items[i] # Absent}
NextNumber(n) == (\A i \in Numbered : i < n) /\ (n = 1 \/ n - 1 \in Numbered)

AskItem(c) ==
    /\ At(c, "none", "idle")
    /\ \E n \in Items : NextNumber(n) /\ Begin(c, "newItem", "makeItem", n)
    /\ UNCHANGED <<fileVars, chain, countVars, historyVars, items, raced, crashes>>

(* mkdir() without recursive fails when another call was faster.           *)
MakeItem(c) ==
    /\ At(c, "newItem", "makeItem")
    /\ LET i == call[c].item IN
       IF items[i] = Absent THEN items' = [items EXCEPT ![i] = Bare] /\ Goto(c, "manifest")
                            ELSE Return(c) /\ UNCHANGED items
    /\ UNCHANGED <<fileVars, chain, countVars, historyVars, raced, crashes>>

WriteManifest(c) ==
    /\ At(c, "newItem", "manifest")
    /\ items' = [items EXCEPT ![call[c].item] = c]
    /\ Return(c)
    /\ UNCHANGED <<fileVars, chain, countVars, historyVars, raced, crashes>>

(* Mutant: the directory of the item is all that is deleted.               *)
AskDeleteItemOnly(c, i) ==
    /\ At(c, "none", "idle") /\ Listed(i)
    /\ \A d \in Calls : call[d].op = "delete" => call[d].item # i
    /\ Begin(c, "delete", "rmItem", i)
    /\ UNCHANGED <<fileVars, chain, countVars, historyVars, items, raced, crashes>>

(* The handler of deleteWorkItem: first what the registry has of the item, *)
(* then its directory.  The user deletes an item once.                     *)
AskDelete(c, i) ==
    /\ At(c, "none", "idle") /\ Listed(i)
    /\ \A d \in Calls : call[d].op = "delete" => call[d].item # i
    /\ Begin(c, "delete", "rmAgents", i)
    /\ UNCHANGED <<fileVars, chain, countVars, historyVars, items, raced, crashes>>

RemoveAgents(c) ==
    /\ At(c, "delete", "rmAgents")
    /\ Goto(c, "rmItem")
    /\ LET i == call[c].item IN
       /\ dir' = [dir EXCEPT ![i] = FALSE]
       /\ retired' = retired \cup IdsAt(i)
       /\ agent' = [agent EXCEPT ![i] = None] /\ tmps' = [tmps EXCEPT ![i] = {}]
       /\ owner' = [owner EXCEPT ![i] = 0]
    /\ UNCHANGED <<chain, countVars, latest, late, crossed, items, raced, crashes>>

RemoveItem(c) ==
    /\ At(c, "delete", "rmItem")
    /\ items' = [items EXCEPT ![call[c].item] = Absent]
    /\ raced' = IF Creating(call[c].item) THEN raced \cup {call[c].item} ELSE raced
    /\ Return(c)
    /\ UNCHANGED <<fileVars, chain, countVars, historyVars, crashes>>

(* The main process dies: the files stay, temporary ones too.              *)
Crash ==
    /\ crashes < MaxCrashes /\ crashes' = crashes + 1
    /\ chain' = <<>> /\ call' = [c \in Calls |-> IdleCall]
    /\ UNCHANGED <<fileVars, countVars, historyVars, items, raced>>

-----------------------------------------------------------------------------
RegistryStep ==
    /\ \/ WriteTmp \/ WriteRemoves \/ WriteRenames
       \/ \E c \in Calls :
             \/ \E i \in Items : AskStatus(c, i) \/ AskReset(c, i)
             \/ Read(c) \/ Archive(c) \/ WriteNew(c) \/ SetStatus(c)
    /\ UNCHANGED <<items, raced, crashes>>

ItemStep ==
    \E c \in Calls :
        \/ \E i \in Items : AskCreate(c, i) \/ AskDelete(c, i)
        \/ Mkdir(c) \/ AskItem(c) \/ MakeItem(c) \/ WriteManifest(c)
        \/ RemoveAgents(c) \/ RemoveItem(c)

Next == RegistryStep \/ ItemStep \/ Crash

Spec == Init /\ [][Next]_vars

-----------------------------------------------------------------------------
(* Properties.                                                             *)

(* A status that was asked for before its agent was retired or deleted is  *)
(* never found in the agent.json of the successor, even when the program   *)
(* dies on the way (setStatus() writes the whole record), unless another   *)
(* handler created the successor while the work item was deleted or its    *)
(* agent reset.                                                            *)
RetiredStaysRetired ==
    \A i \in Items : i \notin late \cup raced \cup crossed /\ chain = <<>> => agent[i].id \notin retired

(* The last agent created is never lost: whenever the program dies, its    *)
(* record, or that of one created since, is in agent.json or in a complete *)
(* temporary file beside it.                                               *)
AgentOnDisk ==
    \A i \in Items : i \notin late /\ owner[i] # 0 =>
        \E r \in tmps[i] \cup {agent[i]} : r.id >= owner[i]

(* agent.json has the status that was asked for last of those written.     *)
StatusIsLatest == \A i \in Items : agent[i] # None => agent[i].ticket = latest[i]

(* A number that is used again brings no agent of the deleted work item.   *)
NewItemIsBare ==
    [][\A i \in Items : items[i] = Absent /\ items'[i] # Absent => ~dir[i] \/ i \in raced]_vars

(* Two work items created at the same moment do not share a directory.     *)
ItemsAreOwn ==
    [][\A i \in Items : Listed(i) => items'[i] \in {items[i], Absent}]_vars

(* The directory of a number belongs to one work item at a time, and comes *)
(* to the next one without anything of the last.                           *)
NumbersAreOwn == NewItemIsBare /\ ItemsAreOwn
=============================================================================
