---------------------------- MODULE LeaseClients ----------------------------
(***************************************************************************)
(* The agents of one project as clients of the write lease, over crashes   *)
(* and restarts of the main process.  Each agent uses its calls one after  *)
(* another: acquire, then heartbeats and further acquires, then release.   *)
(* (AgentManager models the calls as the desktop program really issues     *)
(* them, several at a time for one agent.)  Clearers are the user's        *)
(* requests to clear a stale lease.                                        *)
(***************************************************************************)
EXTENDS WriteLease

CONSTANTS
    Clearers,   \* slots for clearStale calls in flight
    MaxUp,      \* main processes at a time: 1 with the single-instance lock
    CanCrash,   \* the processes that may die
    Resumes     \* may an agent be prompted while its own lease is stale?

ASSUME ClientsAssumption ==
    /\ Calls = Agents \cup Clearers
    /\ Agents \cap Clearers = {}
    /\ CanCrash \subseteq Apps
    /\ Resumes \in BOOLEAN

VARIABLES
    fresh,      \* process ids not used yet
    granted     \* granted[a] : the process in which agent a has the lease, or None

vars == <<file, up, call, fresh, granted>>

(* The lease file names agent a.                                           *)
Named(a) == file.state = "lease" /\ file.holder = a

Holders == {a \in Agents : granted[a] # None}

TypeOK ==
    /\ LeaseTypeOK
    /\ fresh \subseteq Apps
    /\ granted \in [Agents -> Apps \cup {None}]

Init ==
    /\ LeaseInit
    /\ fresh = Apps
    /\ granted = [a \in Agents |-> None]

-----------------------------------------------------------------------------
Start(p) ==
    /\ p \in fresh
    /\ Cardinality(up) < MaxUp
    /\ Launch(p)
    /\ fresh' = fresh \ {p}
    /\ UNCHANGED granted

Crash(p) ==
    /\ p \in CanCrash
    /\ Die(p)
    /\ granted' = [a \in Agents |-> IF granted[a] = p THEN None ELSE granted[a]]
    /\ UNCHANGED fresh

(* A prompt of agent a in process p: takes the lease, or renews it.        *)
Acquire(a, p) ==
    /\ granted[a] \in {None, p}
    /\ Named(a) /\ Stale(file) => Resumes
    /\ Begin(a, "acquire", a, p)
    /\ UNCHANGED <<fresh, granted>>

Heartbeat(a) ==
    /\ granted[a] # None
    /\ Begin(a, "heartbeat", a, granted[a])
    /\ UNCHANGED <<fresh, granted>>

(* The agent stops modifying the project, then asks for the release.       *)
Release(a) ==
    /\ granted[a] # None
    /\ Begin(a, "release", a, granted[a])
    /\ granted' = [granted EXCEPT ![a] = None]
    /\ UNCHANGED fresh

(* Mutant: a conflict is not told from success.                            *)
FinishAnyway(a) ==
    /\ Return(a)
    /\ granted' = IF call[a].op = "acquire"
                  THEN [granted EXCEPT ![a] = call[a].app]
                  ELSE granted
    /\ UNCHANGED fresh

Finish(a) ==
    /\ Return(a)
    /\ granted' = IF call[a].op = "acquire" /\ call[a].pc = "ok"
                  THEN [granted EXCEPT ![a] = call[a].app]
                  ELSE granted
    /\ UNCHANGED fresh

Clear(c, p) ==
    /\ Begin(c, "clear", None, p)
    /\ UNCHANGED <<fresh, granted>>

FinishClear(c) ==
    /\ Return(c)
    /\ UNCHANGED <<fresh, granted>>

Step(c) == LeaseStep(c) /\ UNCHANGED <<fresh, granted>>

Next ==
    \/ \E p \in Apps : Start(p) \/ Crash(p)
    \/ \E a \in Agents : \/ \E p \in Apps : Acquire(a, p)
                         \/ Heartbeat(a) \/ Release(a) \/ Finish(a)
    \/ \E c \in Clearers : \/ \E p \in Apps : Clear(c, p)
                           \/ FinishClear(c)
    \/ \E c \in Calls : Step(c)

Spec == Init /\ [][Next]_vars

-----------------------------------------------------------------------------
(* Safety.                                                                 *)

(* At most one agent modifies the project at a time: the lease acquire()   *)
(* granted to one agent is not granted to another before its release.      *)
Exclusive == \A a, b \in Holders : a = b

(* An agent that has the lease is named by the lease file, or is rewriting *)
(* the file itself: nobody else's call removed or replaced its lease.      *)
HolderOnDisk ==
    \A a \in Holders : \/ Named(a)
                       \/ file = Torn /\ At(a, "fill")

(* Whoever has the lease has it alone, in memory and on disk.              *)
HoldsAlone == Exclusive /\ HolderOnDisk

(* A torn file is somebody's write in progress, so no read is refused for  *)
(* ever ("Unexpected end of JSON input" out of every later operation).     *)
TornHasWriter == file = Torn => \E c \in Calls : At(c, "fill")

(* clearStale() never removes the lease of an agent that has it in a       *)
(* process that is alive: only a lease without a living owner is cleared.  *)
ClearSparesLiving ==
    [][\A c \in Clearers : Unlink(c) => Holders = {}]_vars

-----------------------------------------------------------------------------
(* The inductive invariants: SlotsInv, behind TypeOK, holds in general;    *)
(* IInv, behind Exclusive and HolderOnDisk, holds when nobody clears or no *)
(* process dies.                                                           *)
FillsTorn == \A c \in Calls : At(c, "fill") => file = Torn
OneWriter == \A c, d \in Calls : At(c, "fill") /\ At(d, "fill") => c = d
SlotAgent ==
    /\ \A a \in Agents : ~At(a, "idle") => call[a].agent = a /\ call[a].op # "clear"
    /\ \A c \in Clearers : call[c].op = "clear"
SlotApp == \A c \in Calls : ~At(c, "idle") => call[c].app \in Apps
OpenAcquires == \A c \in Calls : At(c, "open") => call[c].op = "acquire"
SlotsInv == TypeOK /\ SlotAgent /\ SlotApp /\ OpenAcquires

GrantApp ==
    \A a \in Agents : ~At(a, "idle") /\ granted[a] # None => call[a].app = granted[a]
OwnSeen ==
    \A a \in Agents : At(a, "truncate") \/ At(a, "fill") =>
                          call[a].seen.state = "lease" /\ call[a].seen.holder = a
OwnPending == \A a \in Agents : At(a, "truncate") \/ At(a, "unlink") => Named(a)
GrantNamed == \A a \in Agents : granted[a] # None => Named(a) \/ At(a, "fill")
ReleasedFirst == \A a \in Agents : ~At(a, "idle") /\ call[a].op = "release" => granted[a] = None
OnlyReleaseUnlinks == \A a \in Agents : At(a, "unlink") => call[a].op = "release"
WonNamed == \A a \in Agents : call[a].op = "acquire" /\ At(a, "ok") => Named(a)
ClearIdle == \A c \in Clearers : ~At(c, "fill") /\ ~At(c, "truncate") /\ ~At(c, "unlink")
NothingLost == \A c \in Calls : ~At(c, "lost")
AppsLive == CanCrash = {} => \A c \in Calls : ~At(c, "idle") => call[c].app \in up
OwnersLive ==
    CanCrash = {} =>
        /\ file.state = "lease" => file.owner \in up
        /\ \A c \in Calls : call[c].seen.state = "lease" => call[c].seen.owner \in up

IInv ==
    /\ SlotsInv /\ FillsTorn /\ OneWriter /\ OwnSeen /\ OwnPending
    /\ GrantNamed /\ GrantApp /\ ReleasedFirst /\ OnlyReleaseUnlinks /\ WonNamed
    /\ ClearIdle /\ NothingLost /\ AppsLive /\ OwnersLive

(* LifeInv, behind the same properties and ClearSparesLiving, holds when    *)
(* one process lives at a time, one request to clear is made at a time and *)
(* no agent is prompted on its own stale lease.                            *)
OneUp == up = {} \/ \E p \in Apps : up = {p}
CallsUp == \A c \in Calls : ~At(c, "idle") => call[c].app \in up
GrantsUp == \A a \in Agents : granted[a] # None => granted[a] \in up
OwnerUp ==
    \A a \in Agents :
        /\ Named(a) /\ (~At(a, "idle") \/ granted[a] # None) => file.owner \in up
        /\ At(a, "truncate") \/ At(a, "fill") => call[a].seen.owner \in up
ClearersOnlyUnlink == \A c \in Clearers : ~At(c, "fill") /\ ~At(c, "truncate")
ClearsStale == \A c \in Clearers : At(c, "unlink") => Stale(file)

LifeInv ==
    /\ SlotsInv /\ FillsTorn /\ OneWriter /\ OwnSeen /\ OwnPending
    /\ GrantNamed /\ GrantApp /\ ReleasedFirst /\ OnlyReleaseUnlinks /\ WonNamed
    /\ NothingLost /\ OneUp /\ CallsUp /\ GrantsUp /\ OwnerUp
    /\ ClearersOnlyUnlink /\ ClearsStale

-----------------------------------------------------------------------------
(* LeaseClients implements ExclusiveLease: the promise is kept whenever    *)
(* every step of the files is a step of the promise, or none.              *)
Promise == INSTANCE ExclusiveLease WITH holders <- Holders
Implements == Promise!Spec
=============================================================================
