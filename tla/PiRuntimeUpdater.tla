-------------------------- MODULE PiRuntimeUpdater --------------------------
(***************************************************************************)
(* The updater of the Pi runtime (codepiddy-desktop/src/main/              *)
(* pi-runtime-updater.ts): which installed version the next start uses,    *)
(* the record of it on disk, the versions it can go back to, and the       *)
(* fallback after a version that does not start.  The user's installs and  *)
(* rollbacks come one at a time (the settings page disables its buttons);  *)
(* the starts of several agents, and the end of the program, come at any   *)
(* time.  A call is a sequence of steps from one await to the next.        *)
(*                                                                         *)
(* Abstracted: a version is a number and the bundled one is 0; npm, the    *)
(* checks of a package and its probe are one step that may fail; staging   *)
(* directories, the latest version and the progress shown of them.         *)
(***************************************************************************)
EXTENDS Integers, Sequences

CONSTANTS
    Starters,       \* agents whose child is started: startProcess() calls
    User,           \* the user's install or rollback
    Versions,       \* versions the registry may offer
    MaxInstalls,    \* bound: directories put in place
    MaxHistory,     \* the longest history a start of the program accepts
    Vanishing,      \* directories that somebody may delete
    MaxRestarts     \* bound: further lives of the program

ASSUME UpdaterAssumption ==
    /\ User \notin Starters
    /\ Versions \subseteq Nat \ {0}
    /\ MaxInstalls \in Nat /\ MaxHistory \in Nat \ {0} /\ MaxRestarts \in Nat
    /\ Vanishing \subseteq 1..MaxInstalls

VARIABLES
    installed,      \* directories of versions/, by the install that made them
    installs,       \* installs that put a directory in place
    active,         \* active.json
    selected,       \* the runtime that is to be used
    history,        \* what rollback() goes back to, last first
    launched,       \* the runtime that starts of children use
    warning,        \* warning # null
    installing,
    call,           \* call[c] : where the call of c is
    restarts,
    crossed         \* history: two changes of the selection met

memory == <<selected, history, launched, warning, installing>>
disk == <<installed, installs, active>>
vars == <<disk, memory, call, restarts, crossed>>

(* The bundled runtime stands for null as well, and for the record that is *)
(* not there.                                                              *)
Bundled == [id |-> 0, version |-> 0]
NoRecord == [runtime |-> Bundled, history |-> <<>>]

Callers == Starters \cup {User}
Idle == [pc |-> "idle", runtime |-> Bundled, history |-> <<>>]

Runtimes == [id : 0..MaxInstalls, version : Versions \cup {0}]
Histories == {h \in Seq(Runtimes) : Len(h) <= MaxInstalls}
Calls == {"idle", "start", "stop", "failed", "write", "finish", "reset", "wiped", "clear",
          "cleared", "request", "stage", "staged", "record", "recorded"}

TypeOK ==
    /\ installed \subseteq 1..installs /\ installs \in 0..MaxInstalls
    /\ active \in [runtime : Runtimes, history : Histories]
    /\ selected \in Runtimes /\ launched \in Runtimes /\ history \in Histories
    /\ warning \in BOOLEAN /\ installing \in BOOLEAN
    /\ restarts \in 0..MaxRestarts /\ crossed \in BOOLEAN
    /\ call \in [Callers -> [pc : Calls, runtime : Runtimes, history : Histories]]

Init ==
    /\ installed = {} /\ installs = 0 /\ active = NoRecord
    /\ selected = Bundled /\ history = <<>> /\ launched = Bundled
    /\ warning = FALSE /\ installing = FALSE
    /\ call = [c \in Callers |-> Idle]
    /\ restarts = 0 /\ crossed = FALSE

-----------------------------------------------------------------------------
At(c, pc) == call[c].pc = pc
Goto(c, pc) == call' = [call EXCEPT ![c].pc = pc]
Become(c, pc, rt, h) == call' = [call EXCEPT ![c] = [pc |-> pc, runtime |-> rt, history |-> h]]

(* A child is started with the runtime of that moment.                     *)
StartBegins(a) ==
    /\ call[a].pc \in {"idle", "failed"}
    /\ Become(a, "start", launched, <<>>)
    /\ UNCHANGED <<disk, memory, restarts, crossed>>

StartSucceeds(a) ==
    /\ At(a, "start")
    /\ call' = [call EXCEPT ![a] = Idle]
    /\ UNCHANGED <<disk, memory, restarts, crossed>>

(* The handshake fails: the child is stopped; an updated runtime is then   *)
(* given up.                                                               *)
StartFails(a) ==
    /\ At(a, "start")
    /\ Goto(a, IF call[a].runtime = Bundled THEN "failed" ELSE "stop")
    /\ UNCHANGED <<disk, memory, restarts, crossed>>

(* A fallback, rollback or install of another caller is under way.         *)
Changing(c) == call[c].pc \notin {"idle", "failed", "start", "stop"}
Meets(c) == crossed' = (crossed \/ \E d \in Callers \ {c} : Changing(d))

Target == history[Len(history)]
Shorter == SubSeq(history, 1, Len(history) - 1)

(* rollback() up to its first await; c goes to "refused" when it throws.   *)
Rollback(c, refused) ==
    CASE installing -> Goto(c, refused)
      [] ~installing /\ history # <<>> -> Become(c, "write", Target, Shorter)
      [] ~installing /\ history = <<>> ->
             Goto(c, IF warning /\ selected = Bundled THEN "clear" ELSE refused)

(* fallbackAfterStartupFailure(): nothing to fall back from, or a rollback *)
(* whose failure leads to the bundled runtime.                             *)
FallbackBegins(a) ==
    /\ At(a, "stop")
    /\ IF launched = Bundled THEN Goto(a, "failed") ELSE Rollback(a, "reset")
    /\ Meets(a)
    /\ UNCHANGED <<disk, memory, restarts>>

RollbackBegins ==
    /\ At(User, "idle")
    /\ Rollback(User, "idle")
    /\ Meets(User)
    /\ UNCHANGED <<disk, memory, restarts>>

(* Mutant: the record stays when the bundled runtime is gone back to.      *)
RollbackWritesInstalled(c) ==
    /\ At(c, "write")
    /\ IF call[c].runtime.id \in installed
       THEN active' = [runtime |-> call[c].runtime, history |-> call[c].history]
       ELSE UNCHANGED active
    /\ Goto(c, "finish")
    /\ UNCHANGED <<installed, installs, memory, restarts, crossed>>

(* rollback() writes the record, or removes it to go back to the bundled   *)
(* runtime; it throws when the directory it goes back to is gone, and when *)
(* the disk refuses.                                                       *)
RollbackWrites(c) ==
    /\ At(c, "write")
    /\ LET rt == call[c].runtime IN
       \/ /\ rt = Bundled
          /\ active' = NoRecord
          /\ Goto(c, "finish")
       \/ /\ rt.id \in installed
          /\ active' = [runtime |-> rt, history |-> call[c].history]
          /\ Goto(c, "finish")
       \/ /\ Goto(c, IF c = User THEN "idle" ELSE "reset")
          /\ UNCHANGED active
    /\ UNCHANGED <<installed, installs, memory, restarts, crossed>>

(* Mutant: the fallback does not change what is launched.                  *)
ReturnSame(c, rt) ==
    IF c = User
    THEN call' = [call EXCEPT ![c] = Idle] /\ UNCHANGED launched /\ warning' = FALSE
    ELSE Become(c, "start", launched, <<>>) /\ UNCHANGED launched /\ warning' = TRUE

(* What a caller does after its rollback: the user is done; the start that *)
(* failed is tried again with the runtime it fell back to.                 *)
Return(c, rt) ==
    IF c = User
    THEN call' = [call EXCEPT ![c] = Idle] /\ UNCHANGED launched /\ warning' = FALSE
    ELSE Become(c, "start", rt, <<>>) /\ launched' = rt /\ warning' = TRUE

RollbackEnds(c) ==
    /\ At(c, "finish")
    /\ selected' = call[c].runtime /\ history' = call[c].history
    /\ Return(c, call[c].runtime)
    /\ UNCHANGED <<disk, installing, restarts, crossed>>

(* rollback() without a history, after a warning: the useless record goes. *)
ClearRecord(c) ==
    /\ At(c, "clear")
    /\ active' = NoRecord
    /\ Goto(c, "cleared")
    /\ UNCHANGED <<installed, installs, memory, restarts, crossed>>

ClearEnds(c) ==
    /\ At(c, "cleared")
    /\ Return(c, selected)
    /\ UNCHANGED <<disk, selected, history, installing, restarts, crossed>>

(* The catch block of the fallback: the record goes, then all memory of it.*)
ResetRecord(a) ==
    /\ At(a, "reset")
    /\ active' = NoRecord
    /\ Goto(a, "wiped")
    /\ UNCHANGED <<installed, installs, memory, restarts, crossed>>

ResetEnds(a) ==
    /\ At(a, "wiped")
    /\ selected' = Bundled /\ history' = <<>>
    /\ Return(a, Bundled)
    /\ UNCHANGED <<disk, installing, restarts, crossed>>

-----------------------------------------------------------------------------
(* installLatest().                                                        *)
InstallBegins ==
    /\ At(User, "idle")
    /\ installing' = TRUE
    /\ Goto(User, "request")
    /\ Meets(User)
    /\ UNCHANGED <<disk, selected, history, launched, warning, restarts>>

(* The registry offers v; only a newer version is installed.               *)
InstallChecks(v) ==
    /\ At(User, "request") /\ v > selected.version
    /\ Become(User, "stage", [id |-> 0, version |-> v], <<>>)
    /\ UNCHANGED <<disk, memory, restarts, crossed>>

(* The request, npm, a check, the rename or the write fails, or there is   *)
(* nothing newer: the record and the memory stay.                          *)
InstallFails ==
    /\ call[User].pc \in {"request", "stage", "staged", "record"}
    /\ installing' = FALSE
    /\ call' = [call EXCEPT ![User] = Idle]
    /\ UNCHANGED <<disk, selected, history, launched, warning, restarts, crossed>>

(* The staged version passed its checks and is renamed into versions/.     *)
InstallRenames ==
    /\ At(User, "stage") /\ installs < MaxInstalls
    /\ installs' = installs + 1
    /\ installed' = installed \cup {installs + 1}
    /\ Become(User, "staged", [call[User].runtime EXCEPT !.id = installs + 1], <<>>)
    /\ UNCHANGED <<active, memory, restarts, crossed>>

(* Mutant: the version that is replaced is not remembered.                 *)
InstallComposesBare ==
    /\ At(User, "staged")
    /\ Become(User, "record", call[User].runtime, history)
    /\ UNCHANGED <<disk, memory, restarts, crossed>>

(* The history of the new record is the one of this moment.                *)
InstallComposes ==
    /\ At(User, "staged") /\ call[User].runtime.id \in installed
    /\ Become(User, "record", call[User].runtime, Append(history, selected))
    /\ UNCHANGED <<disk, memory, restarts, crossed>>

InstallRecords ==
    /\ At(User, "record")
    /\ active' = [runtime |-> call[User].runtime, history |-> call[User].history]
    /\ Goto(User, "recorded")
    /\ UNCHANGED <<installed, installs, memory, restarts, crossed>>

InstallEnds ==
    /\ At(User, "recorded")
    /\ selected' = call[User].runtime /\ history' = call[User].history
    /\ warning' = FALSE /\ installing' = FALSE
    /\ call' = [call EXCEPT ![User] = Idle]
    /\ UNCHANGED <<disk, launched, restarts, crossed>>

-----------------------------------------------------------------------------
(* The program ends at any step and starts anew: initialize().             *)

(* An entry of a record's history is an older version that is there; the   *)
(* bundled one counts only in front.                                       *)
LoadEntry(loaded, entry, rt) ==
    IF entry = Bundled
    THEN IF loaded = <<>> THEN <<Bundled>> ELSE loaded
    ELSE IF entry.id \in installed /\ entry.version < rt.version
         THEN Append(loaded, entry)
         ELSE loaded

(* loadHistory(), entry by entry; without any, the bundled one.            *)
Load(h, rt) ==
    LET loaded[i \in 0..Len(h)] ==
            IF i = 0 THEN <<>> ELSE LoadEntry(loaded[i - 1], h[i], rt)
    IN IF h = <<>> \/ Len(h) > MaxHistory \/ loaded[Len(h)] = <<>>
       THEN <<Bundled>> ELSE loaded[Len(h)]

Restart ==
    /\ restarts < MaxRestarts
    /\ restarts' = restarts + 1
    /\ LET rt == active.runtime
           usable == rt.id \in installed
           kept == Load(active.history, rt)
       IN /\ selected' = IF usable THEN rt ELSE Bundled
          /\ history' = IF usable THEN kept ELSE <<>>
          /\ launched' = selected'
          /\ warning' = (rt # Bundled /\ (usable => kept # active.history))
    /\ installing' = FALSE
    /\ call' = [c \in Callers |-> Idle]
    /\ UNCHANGED <<disk, crossed>>

(* Somebody deletes the directory of a version.                            *)
Vanish(i) ==
    /\ i \in installed \cap Vanishing
    /\ installed' = installed \ {i}
    /\ UNCHANGED <<installs, active, memory, call, restarts, crossed>>

-----------------------------------------------------------------------------
StartStep(a) ==
    \/ FallbackBegins(a) \/ RollbackWrites(a) \/ RollbackEnds(a)
    \/ ClearRecord(a) \/ ClearEnds(a) \/ ResetRecord(a) \/ ResetEnds(a)

UserStep ==
    \/ RollbackWrites(User) \/ RollbackEnds(User) \/ ClearRecord(User) \/ ClearEnds(User)
    \/ \E v \in Versions : InstallChecks(v)
    \/ InstallFails \/ InstallRenames \/ InstallComposes \/ InstallRecords \/ InstallEnds

Next ==
    \/ \E a \in Starters : \/ StartBegins(a) \/ StartSucceeds(a) \/ StartFails(a)
                           \/ StartStep(a)
    \/ RollbackBegins \/ InstallBegins \/ UserStep
    \/ Restart \/ \E i \in Vanishing : Vanish(i)

(* Calls in flight go on; a start succeeds or fails (startProcess() limits *)
(* its handshake); nobody has to start, install or roll back anything.     *)
Fairness ==
    /\ \A a \in Starters : WF_vars(StartStep(a)) /\ WF_vars(StartSucceeds(a) \/ StartFails(a))
    /\ WF_vars(UserStep)

Spec == Init /\ [][Next]_vars /\ Fairness

-----------------------------------------------------------------------------
(* Properties.                                                             *)

(* Whatever is selected, in memory or in the record on disk, rollbacks end *)
(* at the bundled runtime, at every step of installs, fallbacks, rollbacks *)
(* and crashes, even of several at once.                                   *)
EndsBundled(rt, h) ==
    IF rt = Bundled THEN h = <<>> ELSE h # <<>> /\ h[1] = Bundled

RollsBackToBundled ==
    /\ EndsBundled(selected, history)
    /\ EndsBundled(active.runtime, active.history)

(* Every rollback goes to an older version, as long as no two changes of   *)
(* the selection met: nothing serialises them.                             *)
Descends(rt, h) ==
    \A i \in 1..Len(h) : h[i].version < (IF i < Len(h) THEN h[i + 1] ELSE rt).version

RollsBackToOlder ==
    ~crossed => Descends(selected, history) /\ Descends(active.runtime, active.history)

(* Rollbacks go down, version by version, to the bundled runtime.          *)
RollsBack == RollsBackToBundled /\ RollsBackToOlder

Quiet == \A c \in Callers : ~Changing(c)

(* When no change is under way, a restart selects what the settings page   *)
(* shows as selected, again unless two changes met.                        *)
RestartKeepsSelection ==
    Quiet /\ ~crossed => \/ active.runtime = selected
             \/ active.runtime.id \notin installed

(* A start of a child ends, well or not: the fallbacks are not for ever.   *)
EveryStartEnds ==
    \A a \in Starters : At(a, "start") ~> call[a].pc \in {"idle", "failed"}

(* A start fails for good only after the bundled runtime failed as well.   *)
StartRecovers ==
    \A a \in Starters : At(a, "failed") => call[a].runtime = Bundled
=============================================================================
