----------------------------- MODULE WriteLease -----------------------------
(***************************************************************************)
(* ProjectWriteLeaseManager (codepiddy-core/src/project-write-lease.ts):   *)
(* the file <runtime>/projects/<id>/write-lease.json of ONE project and    *)
(* the asynchronous calls of the manager on it.  Every await of the source *)
(* is a step boundary, so calls interleave between a read and the write or *)
(* unlink it leads to.                                                     *)
(*                                                                         *)
(* Abstracted: the time stamps and the work item and role in the lease,    *)
(* the directories, the audit line.  Every lease the program writes has an *)
(* ownerProcessId, so the 120 s rule for leases without one is left out.   *)
(***************************************************************************)
EXTENDS Naturals, FiniteSets

CONSTANTS
    Agents,     \* agent instance ids
    Apps,       \* process ids the main process has over its restarts
    Calls,      \* slots for calls in flight
    None        \* no agent, no process

ASSUME NoneAssumption == None \notin Agents /\ None \notin Apps

VARIABLES
    file,       \* write-lease.json
    up,         \* the processes that are alive (process.kill(pid, 0))
    call        \* call[c] : the call that occupies slot c

leaseVars == <<file, up, call>>

(* The file is absent, torn (created or truncated, not yet written: its    *)
(* text is not JSON), or a lease.                                          *)
Absent == [state |-> "absent", holder |-> None, owner |-> None]
Torn   == [state |-> "torn",   holder |-> None, owner |-> None]
Lease(a, p) == [state |-> "lease", holder |-> a, owner |-> p]
Leases == {Lease(a, p) : a \in Agents, p \in Apps}
Files  == {Absent, Torn} \cup Leases

Ops   == {"acquire", "heartbeat", "release", "clear"}
Final == {"ok", "conflict", "error"}
Pcs   == {"idle", "open", "read", "truncate", "fill", "lost", "unlink"} \cup Final

(* "seen" is the lease a call read or is about to write.  The pc "lost"    *)
(* is a writeFile whose file was unlinked after it had been opened: the    *)
(* text goes to a file that has no name any more.                          *)
CallStates == [op : Ops, pc : Pcs, agent : Agents \cup {None},
               app : Apps \cup {None}, seen : Files]

IdleCall == [op |-> "clear", pc |-> "idle", agent |-> None, app |-> None, seen |-> Absent]

LeaseTypeOK ==
    /\ file \in Files
    /\ up \subseteq Apps
    /\ call \in [Calls -> CallStates]

LeaseInit ==
    /\ file = Absent
    /\ up = {}
    /\ call = [c \in Calls |-> IdleCall]

(* inspect(): a lease is stale when its owner process is gone.             *)
Stale(f) == f.state = "lease" /\ f.owner \notin up

At(c, pc) == call[c].pc = pc
Goto(c, pc) == call' = [call EXCEPT ![c].pc = pc]
GotoWith(c, pc, lease) == call' = [call EXCEPT ![c].pc = pc, ![c].seen = lease]

-----------------------------------------------------------------------------
(* Entry of acquire, heartbeat, release and clearStale.                    *)
Begin(c, op, a, p) ==
    /\ At(c, "idle")
    /\ p \in up
    /\ call' = [call EXCEPT ![c] = [op |-> op,
                                    pc |-> IF op = "acquire" THEN "open" ELSE "read",
                                    agent |-> a, app |-> p, seen |-> Absent]]
    /\ UNCHANGED <<file, up>>

(* acquire: open(path, "wx") creates the file, empty, or fails with EEXIST. *)
OpenNew(c) ==
    /\ At(c, "open")
    /\ file = Absent
    /\ file' = Torn
    /\ GotoWith(c, "fill", Lease(call[c].agent, call[c].app))
    /\ UNCHANGED up

OpenExisting(c) ==
    /\ At(c, "open")
    /\ file # Absent
    /\ Goto(c, "read")
    /\ UNCHANGED <<file, up>>

(* read(): JSON.parse of a torn file throws out of every operation.        *)
ReadTorn(c) ==
    /\ At(c, "read")
    /\ file = Torn
    /\ Goto(c, "error")
    /\ UNCHANGED <<file, up>>

(* read() maps ENOENT to null: acquire starts again, the others are done.  *)
ReadAbsent(c) ==
    /\ At(c, "read")
    /\ file = Absent
    /\ Goto(c, IF call[c].op = "acquire" THEN "open" ELSE "ok")
    /\ UNCHANGED <<file, up>>

Reads(c) == At(c, "read") /\ file.state = "lease" /\ UNCHANGED <<file, up>>

(* Mutant: acquire returns the lease of another agent as its own.          *)
ReadForeignAccepts(c) ==
    /\ Reads(c)
    /\ call[c].op # "clear"
    /\ file.holder # call[c].agent
    /\ Goto(c, "ok")

ReadForeign(c) ==
    /\ Reads(c)
    /\ call[c].op # "clear"
    /\ file.holder # call[c].agent
    /\ Goto(c, IF call[c].op = "acquire" THEN "conflict" ELSE "ok")

(* The caller's own lease: acquire and heartbeat write back what they read *)
(* with a new heartbeatAt -- holder and ownerProcessId as they were.       *)
ReadOwn(c) ==
    /\ Reads(c)
    /\ call[c].op # "clear"
    /\ file.holder = call[c].agent
    /\ GotoWith(c, IF call[c].op = "release" THEN "unlink" ELSE "truncate", file)

(* Mutant: clearStale does not look at the stale flag.                     *)
ReadForClearAny(c) ==
    /\ Reads(c)
    /\ call[c].op = "clear"
    /\ GotoWith(c, "unlink", file)

ReadForClear(c) ==
    /\ Reads(c)
    /\ call[c].op = "clear"
    /\ GotoWith(c, IF Stale(file) THEN "unlink" ELSE "error", file)

(* writeFile truncates the file, or creates it when it is gone, ...        *)
Truncate(c) ==
    /\ At(c, "truncate")
    /\ file' = Torn
    /\ Goto(c, "fill")
    /\ UNCHANGED up

(* ... and then writes the text.                                           *)
Fill(c) ==
    /\ At(c, "fill")
    /\ file' = call[c].seen
    /\ Goto(c, "ok")
    /\ UNCHANGED up

FillLost(c) ==
    /\ At(c, "lost")
    /\ Goto(c, "ok")
    /\ UNCHANGED <<file, up>>

(* unlink removes whatever file has the name by now; ENOENT is ignored.    *)
Unlink(c) ==
    /\ At(c, "unlink")
    /\ file' = Absent
    /\ call' = [k \in Calls |->
                  IF k = c THEN [call[k] EXCEPT !.pc = "ok"]
                  ELSE IF call[k].pc = "fill" THEN [call[k] EXCEPT !.pc = "lost"]
                  ELSE call[k]]
    /\ UNCHANGED up

LeaseStep(c) ==
    \/ OpenNew(c) \/ OpenExisting(c)
    \/ ReadTorn(c) \/ ReadAbsent(c) \/ ReadForeign(c) \/ ReadOwn(c) \/ ReadForClear(c)
    \/ Truncate(c) \/ Fill(c) \/ FillLost(c) \/ Unlink(c)

(* The caller takes the result of its call.                                *)
Return(c) ==
    /\ call[c].pc \in Final
    /\ call' = [call EXCEPT ![c] = IdleCall]
    /\ UNCHANGED <<file, up>>

(* The main process starts; it dies, and its calls with it, at any step.   *)
Launch(p) ==
    /\ p \notin up
    /\ up' = up \cup {p}
    /\ UNCHANGED <<file, call>>

Die(p) ==
    /\ p \in up
    /\ up' = up \ {p}
    /\ call' = [c \in Calls |-> IF call[c].app = p THEN IdleCall ELSE call[c]]
    /\ UNCHANGED file
=============================================================================
