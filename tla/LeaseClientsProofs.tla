------------------------- MODULE LeaseClientsProofs -------------------------
(***************************************************************************)
(* Proofs about LeaseClients, for any set of agents, processes and clear   *)
(* requests:  the types;  that at most one agent has the lease, and that   *)
(* the file names it, when nobody clears or no process dies, and also when *)
(* one process lives and one request to clear is made at a time;  that a   *)
(* request to clear then removes no lease of an agent at work;  and that   *)
(* LeaseClients implements ExclusiveLease under each of these.             *)
(***************************************************************************)
EXTENDS LeaseClients, FiniteSetTheorems, TLAPS

USE DEF At, Goto, GotoWith, leaseVars

(* What the lease file may hold; only a lease names an agent and a process. *)
LEMMA FileTypes ==
    /\ Absent \in Files /\ Torn \in Files
    /\ \A a \in Agents, p \in Apps : Lease(a, p) \in Files
    /\ \A f \in Files : f.state = "lease" => f \in Leases
    /\ \A f \in Leases : f.state = "lease" /\ f.holder \in Agents /\ f.owner \in Apps
<1>1. Absent.state = "absent" /\ Torn.state = "torn"
  BY DEF Absent, Torn
<1>2. \A a \in Agents, p \in Apps : Lease(a, p) \in Leases
  BY DEF Leases
<1>3. \A f \in Leases : \E a \in Agents, p \in Apps : f = Lease(a, p)
  BY DEF Leases
<1>4. \A a, p : /\ Lease(a, p).state = "lease"
               /\ Lease(a, p).holder = a /\ Lease(a, p).owner = p
  BY DEF Lease
<1> QED
  BY <1>1, <1>2, <1>3, <1>4 DEF Files

(* An idle slot is a call state.                                           *)
LEMMA IdleCallType == IdleCall \in CallStates
BY FileTypes DEF IdleCall, CallStates, Ops, Pcs, Final

-----------------------------------------------------------------------------
(* Before the first process starts every slot is idle and the file absent. *)
LEMMA InitSlots == Init => SlotsInv
<1> SUFFICES ASSUME Init PROVE SlotsInv
  OBVIOUS
<1>1. LeaseTypeOK
  BY IdleCallType, FileTypes DEF Init, LeaseInit, LeaseTypeOK
<1>2. TypeOK
  BY <1>1 DEF Init, TypeOK
<1>3. SlotAgent /\ SlotApp /\ OpenAcquires
  BY ClientsAssumption DEF Init, LeaseInit, IdleCall, SlotAgent, SlotApp, OpenAcquires
<1> QED
  BY <1>2, <1>3 DEF SlotsInv

(* Begin fills an idle slot.                                               *)
LEMMA BeginSlots ==
    ASSUME SlotsInv, NEW c \in Calls, NEW op \in Ops, NEW a \in Agents \cup {None}, NEW p \in Apps,
           Begin(c, op, a, p),
           c \in Agents => a = c /\ op # "clear",
           c \in Clearers => op = "clear"
    PROVE  LeaseTypeOK' /\ SlotAgent' /\ SlotApp' /\ OpenAcquires'
<1>1. call \in [Calls -> CallStates] /\ file \in Files /\ up \subseteq Apps
  BY DEF SlotsInv, TypeOK, LeaseTypeOK
<1> DEFINE new == [op |-> op, pc |-> IF op = "acquire" THEN "open" ELSE "read",
                   agent |-> a, app |-> p, seen |-> Absent]
<1>2. new \in CallStates
  BY FileTypes DEF CallStates, Ops, Pcs
<1>3. call' = [call EXCEPT ![c] = new] /\ file' = file /\ up' = up
  BY DEF Begin
<1>4. call' \in [Calls -> CallStates] /\ call'[c] = new /\ \A d \in Calls : d # c => call'[d] = call[d]
  BY <1>1, <1>2, <1>3
<1>5. LeaseTypeOK'
  BY <1>1, <1>3, <1>4 DEF LeaseTypeOK
<1>6. SlotAgent' /\ SlotApp' /\ OpenAcquires'
  BY <1>4, ClientsAssumption DEF SlotsInv, SlotAgent, SlotApp, OpenAcquires
<1> QED
  BY <1>5, <1>6

(* A call that returns leaves its slot idle, the others untouched.         *)
LEMMA ReturnSlots ==
    ASSUME SlotsInv, NEW c \in Calls, Return(c)
    PROVE  LeaseTypeOK' /\ SlotAgent' /\ SlotApp' /\ OpenAcquires'
<1>1. call \in [Calls -> CallStates] /\ file \in Files /\ up \subseteq Apps
  BY DEF SlotsInv, TypeOK, LeaseTypeOK
<1>2. call' \in [Calls -> CallStates]
  BY <1>1, IdleCallType DEF Return
<1>3. call'[c] = IdleCall /\ \A d \in Calls : d # c => call'[d] = call[d]
  BY <1>1 DEF Return
<1>4. LeaseTypeOK'
  BY <1>1, <1>2 DEF LeaseTypeOK, Return
<1>5. SlotAgent' /\ SlotApp' /\ OpenAcquires'
  BY <1>3, ClientsAssumption DEF SlotsInv, SlotAgent, SlotApp, OpenAcquires, IdleCall
<1> QED
  BY <1>4, <1>5

(* A file operation of acquire(), heartbeat(), release() or clearStale()   *)
(* moves its own call on, and keeps the types.                             *)
LEMMA StepSlots ==
    ASSUME SlotsInv, NEW c \in Calls, LeaseStep(c)
    PROVE  LeaseTypeOK' /\ SlotAgent' /\ SlotApp' /\ OpenAcquires'
<1>1. call \in [Calls -> CallStates] /\ file \in Files /\ up \subseteq Apps
  BY DEF SlotsInv, TypeOK, LeaseTypeOK
<1> DEFINE Keeps == \A d \in Calls : /\ call'[d].op = call[d].op
                                     /\ call'[d].app = call[d].app
                                     /\ call'[d].agent = call[d].agent
                                     /\ call'[d].pc = "open" =>
                                            call[d].pc = "open" \/ call[d].op = "acquire"
                                     /\ call'[d].pc # "idle" => call[d].pc # "idle"
<1>2. ASSUME Keeps PROVE SlotAgent' /\ SlotApp' /\ OpenAcquires'
  BY <1>2, ClientsAssumption DEF SlotsInv, SlotAgent, SlotApp, OpenAcquires
<1>3. CASE OpenNew(c)
  <2>1. c \in Agents /\ call[c].agent \in Agents /\ call[c].app \in Apps
    BY <1>3, ClientsAssumption
       DEF OpenNew, SlotsInv, SlotAgent, SlotApp, OpenAcquires
  <2>2. call' \in [Calls -> CallStates] /\ file' \in Files /\ up' = up
    BY <1>1, <1>3, <2>1, FileTypes DEF OpenNew, CallStates, Pcs
  <2>3. Keeps
    BY <1>1, <1>3 DEF OpenNew
  <2> QED
    BY <1>1, <1>2, <2>2, <2>3 DEF LeaseTypeOK
<1>4. CASE OpenExisting(c)
  BY <1>1, <1>2, <1>4 DEF OpenExisting, LeaseTypeOK, CallStates, Pcs
<1>5. CASE ReadTorn(c)
  BY <1>1, <1>2, <1>5 DEF ReadTorn, LeaseTypeOK, CallStates, Pcs, Final
<1>6. CASE ReadAbsent(c)
  BY <1>1, <1>2, <1>6 DEF ReadAbsent, LeaseTypeOK, CallStates, Pcs, Final
<1>7. CASE ReadForeign(c)
  BY <1>1, <1>2, <1>7 DEF ReadForeign, Reads, LeaseTypeOK, CallStates, Pcs, Final
<1>8. CASE ReadOwn(c)
  <2>1. \/ call' = [call EXCEPT ![c].pc = "unlink", ![c].seen = file]
        \/ call' = [call EXCEPT ![c].pc = "truncate", ![c].seen = file]
    BY <1>8 DEF ReadOwn
  <2>2. call' \in [Calls -> CallStates]
    BY <1>1, <2>1 DEF CallStates, Pcs, Final
  <2>3. Keeps
    BY <1>1, <1>8 DEF ReadOwn, Reads
  <2> QED
    BY <1>1, <1>2, <1>8, <2>2, <2>3 DEF ReadOwn, Reads, LeaseTypeOK
<1>9. CASE ReadForClear(c)
  <2>1. \/ call' = [call EXCEPT ![c].pc = "unlink", ![c].seen = file]
        \/ call' = [call EXCEPT ![c].pc = "error", ![c].seen = file]
    BY <1>9 DEF ReadForClear
  <2>2. call' \in [Calls -> CallStates]
    BY <1>1, <2>1 DEF CallStates, Pcs, Final
  <2>3. Keeps
    BY <1>1, <1>9 DEF ReadForClear, Reads
  <2> QED
    BY <1>1, <1>2, <1>9, <2>2, <2>3 DEF ReadForClear, Reads, LeaseTypeOK
<1>10. CASE Truncate(c)
  BY <1>1, <1>2, <1>10, FileTypes DEF Truncate, LeaseTypeOK, CallStates, Pcs, Final
<1>11. CASE Fill(c)
  BY <1>1, <1>2, <1>11 DEF Fill, LeaseTypeOK, CallStates, Pcs, Final
<1>12. CASE FillLost(c)
  BY <1>1, <1>2, <1>12 DEF FillLost, LeaseTypeOK, CallStates, Pcs, Final
<1>13. CASE Unlink(c)
  BY <1>1, <1>2, <1>13, FileTypes DEF Unlink, LeaseTypeOK, CallStates, Pcs, Final
<1> QED
  BY <1>3, <1>4, <1>5, <1>6, <1>7, <1>8, <1>9, <1>10, <1>11, <1>12, <1>13 DEF LeaseStep

(* Every step keeps the types and the slots to their owners.               *)
LEMMA NextSlots == SlotsInv /\ [Next]_vars => SlotsInv'
<1> SUFFICES ASSUME SlotsInv, [Next]_vars PROVE SlotsInv'
  OBVIOUS
<1>0. call \in [Calls -> CallStates] /\ file \in Files /\ up \subseteq Apps
      /\ fresh \subseteq Apps /\ granted \in [Agents -> Apps \cup {None}]
  BY DEF SlotsInv, TypeOK, LeaseTypeOK
<1>1. ASSUME NEW p \in Apps, Start(p) PROVE SlotsInv'
  BY <1>0, <1>1 DEF Start, Launch, SlotsInv, TypeOK, LeaseTypeOK, SlotAgent, SlotApp, OpenAcquires
<1>2. ASSUME NEW p \in Apps, Crash(p) PROVE SlotsInv'
  <2>1. LeaseTypeOK' /\ TypeOK'
    BY <1>0, <1>2, IdleCallType DEF Crash, Die, TypeOK, LeaseTypeOK
  <2>2. \A c \in Calls : call'[c] = call[c] \/ call'[c] = IdleCall
    BY <1>0, <1>2 DEF Crash, Die
  <2>3. SlotAgent' /\ SlotApp' /\ OpenAcquires'
    BY <2>2, ClientsAssumption DEF SlotsInv, SlotAgent, SlotApp, OpenAcquires, IdleCall
  <2> QED
    BY <2>1, <2>3 DEF SlotsInv
<1>3. ASSUME NEW a \in Agents, NEW p \in Apps, Acquire(a, p) PROVE SlotsInv'
  <2>1. LeaseTypeOK' /\ SlotAgent' /\ SlotApp' /\ OpenAcquires'
    BY <1>3, BeginSlots, ClientsAssumption DEF Acquire, Ops
  <2> QED
    BY <2>1, <1>0, <1>3 DEF Acquire, SlotsInv, TypeOK
<1>4. ASSUME NEW a \in Agents, Heartbeat(a) PROVE SlotsInv'
  <2>1. granted[a] \in Apps
    BY <1>0, <1>4 DEF Heartbeat
  <2>2. LeaseTypeOK' /\ SlotAgent' /\ SlotApp' /\ OpenAcquires'
    BY <1>4, <2>1, BeginSlots, ClientsAssumption DEF Heartbeat, Ops
  <2> QED
    BY <2>2, <1>0, <1>4 DEF Heartbeat, SlotsInv, TypeOK
<1>5. ASSUME NEW a \in Agents, Release(a) PROVE SlotsInv'
  <2>1. granted[a] \in Apps
    BY <1>0, <1>5 DEF Release
  <2>2. LeaseTypeOK' /\ SlotAgent' /\ SlotApp' /\ OpenAcquires'
    BY <1>5, <2>1, BeginSlots, ClientsAssumption DEF Release, Ops
  <2> QED
    BY <2>2, <1>0, <1>5 DEF Release, SlotsInv, TypeOK
<1>6. ASSUME NEW a \in Agents, Finish(a) PROVE SlotsInv'
  <2>1. LeaseTypeOK' /\ SlotAgent' /\ SlotApp' /\ OpenAcquires'
    BY <1>6, ReturnSlots, ClientsAssumption DEF Finish
  <2>2. call[a].app \in Apps
    BY <1>6, ClientsAssumption DEF Finish, Return, Final, SlotsInv, SlotApp
  <2> QED
    BY <2>1, <2>2, <1>0, <1>6 DEF Finish, SlotsInv, TypeOK
<1>7. ASSUME NEW c \in Clearers, NEW p \in Apps, Clear(c, p) PROVE SlotsInv'
  <2>1. LeaseTypeOK' /\ SlotAgent' /\ SlotApp' /\ OpenAcquires'
    BY <1>7, BeginSlots, ClientsAssumption DEF Clear, Ops
  <2> QED
    BY <2>1, <1>0, <1>7 DEF Clear, SlotsInv, TypeOK
<1>8. ASSUME NEW c \in Clearers, FinishClear(c) PROVE SlotsInv'
  <2>1. LeaseTypeOK' /\ SlotAgent' /\ SlotApp' /\ OpenAcquires'
    BY <1>8, ReturnSlots, ClientsAssumption DEF FinishClear
  <2> QED
    BY <2>1, <1>0, <1>8 DEF FinishClear, SlotsInv, TypeOK
<1>9. ASSUME NEW c \in Calls, Step(c) PROVE SlotsInv'
  <2>1. LeaseTypeOK' /\ SlotAgent' /\ SlotApp' /\ OpenAcquires'
    BY <1>9, StepSlots DEF Step
  <2> QED
    BY <2>1, <1>0, <1>9 DEF Step, SlotsInv, TypeOK
<1>10. ASSUME UNCHANGED vars PROVE SlotsInv'
  BY <1>0, <1>10 DEF vars, SlotsInv, TypeOK, LeaseTypeOK, SlotAgent, SlotApp, OpenAcquires
<1> QED
  BY <1>1, <1>2, <1>3, <1>4, <1>5, <1>6, <1>7, <1>8, <1>9, <1>10 DEF Next

(* The state of the lease file and of the calls on it stays of its type:   *)
(* a call writes nothing but a lease of an agent and a process.            *)
THEOREM TypeCorrect == Spec => []TypeOK
<1>1. SlotsInv => TypeOK
  BY DEF SlotsInv
<1> QED
  BY <1>1, InitSlots, NextSlots, PTL DEF Spec

-----------------------------------------------------------------------------
(* Nobody clears, or no process dies.                                      *)
NoRace == Clearers = {} \/ CanCrash = {}

(* The inductive invariant holds before anything was written.              *)
LEMMA InitInductive == Init => IInv
<1> SUFFICES ASSUME Init PROVE IInv
  OBVIOUS
<1>1. \A c \in Calls : call[c] = IdleCall
  BY DEF Init, LeaseInit
<1>2. IdleCall.pc = "idle" /\ IdleCall.op = "clear" /\ IdleCall.seen.state = "absent"
  BY DEF IdleCall, Absent
<1>3. file.state = "absent" /\ \A a \in Agents : granted[a] = None
  BY DEF Init, LeaseInit, Absent
<1>4. FillsTorn /\ OneWriter /\ OwnSeen /\ OwnPending /\ GrantNamed /\ GrantApp /\ ReleasedFirst
  BY <1>1, <1>2, <1>3, ClientsAssumption
     DEF FillsTorn, OneWriter, OwnSeen, OwnPending, GrantNamed, GrantApp, ReleasedFirst
<1>5. OnlyReleaseUnlinks /\ WonNamed /\ ClearIdle /\ NothingLost /\ AppsLive /\ OwnersLive
  BY <1>1, <1>2, <1>3, ClientsAssumption
     DEF OnlyReleaseUnlinks, WonNamed, ClearIdle, NothingLost, AppsLive, OwnersLive
<1> QED
  BY <1>4, <1>5, InitSlots DEF IInv

(* IInv without the types.                                                 *)
Core == /\ FillsTorn /\ OneWriter /\ OwnSeen /\ OwnPending /\ GrantNamed
        /\ GrantApp /\ ReleasedFirst /\ OnlyReleaseUnlinks /\ WonNamed
        /\ ClearIdle /\ NothingLost /\ AppsLive /\ OwnersLive

(* What a step of the file operations of call c does to IInv.              *)
LEMMA StepInductive ==
    ASSUME NoRace, IInv, NEW c \in Calls, LeaseStep(c), UNCHANGED <<fresh, granted>>
    PROVE  Core'
<1>0. call \in [Calls -> CallStates] /\ file \in Files /\ Calls = Agents \cup Clearers
  BY ClientsAssumption DEF IInv, SlotsInv, TypeOK, LeaseTypeOK
<1>1. /\ SlotAgent /\ SlotApp /\ OpenAcquires /\ Core
  BY DEF IInv, SlotsInv, Core
<1>2. Absent.state = "absent" /\ Torn.state = "torn"
  BY DEF Absent, Torn
<1>3. CASE OpenNew(c)
  <2>1. /\ \A d \in Calls : d # c => call'[d] = call[d]
        /\ call'[c].op = call[c].op /\ call'[c].agent = call[c].agent /\ call'[c].app = call[c].app
        /\ call'[c].pc = "fill"
        /\ call'[c].seen = Lease(call[c].agent, call[c].app)
    BY <1>0, <1>3 DEF OpenNew
  <2>2. c \in Agents /\ call[c].agent = c /\ call[c].op = "acquire"
    BY <1>0, <1>1, <1>3 DEF OpenNew, SlotAgent, OpenAcquires
  <2>3. /\ call'[c].seen.state = "lease"
        /\ call'[c].seen.holder = c /\ call'[c].seen.owner = call[c].app
    BY <2>1, <2>2 DEF Lease
  <2>4. file.state = "absent" /\ file'.state = "torn" /\ file' = Torn
        /\ UNCHANGED <<up, fresh, granted>>
    BY <1>2, <1>3 DEF OpenNew
  <2>5. \A d \in Calls : call[d].pc # "fill"
    BY <1>1, <1>2, <2>4 DEF Core, FillsTorn
  <2> QED
    BY <1>0, <1>1, <1>3, <2>1, <2>2, <2>3, <2>4, <2>5, ClientsAssumption
       DEF OpenNew, Core, SlotAgent, SlotApp, OpenAcquires, Named, Stale, FillsTorn, OneWriter, OwnSeen, OwnPending, GrantNamed,
          GrantApp, ReleasedFirst, OnlyReleaseUnlinks, WonNamed, ClearIdle, NothingLost, AppsLive, OwnersLive
<1>4. CASE OpenExisting(c)
  <2>1. /\ \A d \in Calls : d # c => call'[d] = call[d]
        /\ call'[c].op = call[c].op /\ call'[c].agent = call[c].agent /\ call'[c].app = call[c].app
        /\ call'[c].pc = "read"
        /\ call'[c].seen = call[c].seen
    BY <1>0, <1>4 DEF OpenExisting
  <2> QED
    BY <1>0, <1>1, <1>2, <1>4, <2>1, ClientsAssumption, FileTypes, NoneAssumption
       DEF OpenExisting, NoRace, Core, SlotAgent, SlotApp, OpenAcquires, Named, Stale, FillsTorn, OneWriter, OwnSeen, OwnPending, GrantNamed,
          GrantApp, ReleasedFirst, OnlyReleaseUnlinks, WonNamed, ClearIdle, NothingLost, AppsLive, OwnersLive
<1>5. CASE ReadTorn(c)
  <2>1. /\ \A d \in Calls : d # c => call'[d] = call[d]
        /\ call'[c].op = call[c].op /\ call'[c].agent = call[c].agent /\ call'[c].app = call[c].app
        /\ call'[c].pc = "error"
        /\ call'[c].seen = call[c].seen
    BY <1>0, <1>5 DEF ReadTorn
  <2> QED
    BY <1>0, <1>1, <1>2, <1>5, <2>1, ClientsAssumption, FileTypes, NoneAssumption
       DEF ReadTorn, NoRace, Core, SlotAgent, SlotApp, OpenAcquires, Named, Stale, FillsTorn, OneWriter, OwnSeen, OwnPending, GrantNamed,
          GrantApp, ReleasedFirst, OnlyReleaseUnlinks, WonNamed, ClearIdle, NothingLost, AppsLive, OwnersLive
<1>6. CASE ReadAbsent(c)
  <2>1. /\ \A d \in Calls : d # c => call'[d] = call[d]
        /\ call'[c].op = call[c].op /\ call'[c].agent = call[c].agent /\ call'[c].app = call[c].app
        /\ call'[c].seen = call[c].seen
        /\ call'[c].pc = IF call[c].op = "acquire" THEN "open" ELSE "ok"
    BY <1>0, <1>6 DEF ReadAbsent
  <2> QED
    BY <1>0, <1>1, <1>2, <1>6, <2>1, ClientsAssumption, FileTypes, NoneAssumption
       DEF ReadAbsent, NoRace, Core, SlotAgent, SlotApp, OpenAcquires, Named, Stale, FillsTorn, OneWriter, OwnSeen, OwnPending, GrantNamed,
          GrantApp, ReleasedFirst, OnlyReleaseUnlinks, WonNamed, ClearIdle, NothingLost, AppsLive, OwnersLive
<1>7. CASE ReadForeign(c)
  <2>1. /\ \A d \in Calls : d # c => call'[d] = call[d]
        /\ call'[c].op = call[c].op /\ call'[c].agent = call[c].agent /\ call'[c].app = call[c].app
        /\ call'[c].seen = call[c].seen
        /\ call'[c].pc = IF call[c].op = "acquire" THEN "conflict" ELSE "ok"
    BY <1>0, <1>7 DEF ReadForeign, Reads
  <2> QED
    BY <1>0, <1>1, <1>2, <1>7, <2>1, ClientsAssumption, FileTypes, NoneAssumption
       DEF ReadForeign, Reads, NoRace, Core, SlotAgent, SlotApp, OpenAcquires, Named, Stale, FillsTorn, OneWriter, OwnSeen, OwnPending, GrantNamed,
          GrantApp, ReleasedFirst, OnlyReleaseUnlinks, WonNamed, ClearIdle, NothingLost, AppsLive, OwnersLive
<1>8. CASE ReadOwn(c)
  <2>1. /\ \A d \in Calls : d # c => call'[d] = call[d]
        /\ call'[c].op = call[c].op /\ call'[c].agent = call[c].agent /\ call'[c].app = call[c].app
        /\ call'[c].seen = file
        /\ call'[c].pc = IF call[c].op = "release" THEN "unlink" ELSE "truncate"
    BY <1>0, <1>8 DEF ReadOwn, Reads
  <2> QED
    BY <1>0, <1>1, <1>2, <1>8, <2>1, ClientsAssumption, FileTypes, NoneAssumption
       DEF ReadOwn, Reads, NoRace, Core, SlotAgent, SlotApp, OpenAcquires, Named, Stale, FillsTorn, OneWriter, OwnSeen, OwnPending, GrantNamed,
          GrantApp, ReleasedFirst, OnlyReleaseUnlinks, WonNamed, ClearIdle, NothingLost, AppsLive, OwnersLive
<1>9. CASE ReadForClear(c)
  <2>1. /\ \A d \in Calls : d # c => call'[d] = call[d]
        /\ call'[c].op = call[c].op /\ call'[c].agent = call[c].agent /\ call'[c].app = call[c].app
        /\ call'[c].seen = file
        /\ call'[c].pc = IF Stale(file) THEN "unlink" ELSE "error"
    BY <1>0, <1>9 DEF ReadForClear, Reads
  <2> QED
    BY <1>0, <1>1, <1>2, <1>9, <2>1, ClientsAssumption, FileTypes, NoneAssumption
       DEF ReadForClear, Reads, NoRace, Core, SlotAgent, SlotApp, OpenAcquires, Named, Stale, FillsTorn, OneWriter, OwnSeen, OwnPending, GrantNamed,
          GrantApp, ReleasedFirst, OnlyReleaseUnlinks, WonNamed, ClearIdle, NothingLost, AppsLive, OwnersLive
<1>10. CASE Truncate(c)
  <2>1. /\ \A d \in Calls : d # c => call'[d] = call[d]
        /\ call'[c].op = call[c].op /\ call'[c].agent = call[c].agent /\ call'[c].app = call[c].app
        /\ call'[c].pc = "fill"
        /\ call'[c].seen = call[c].seen
    BY <1>0, <1>10 DEF Truncate
  <2> QED
    BY <1>0, <1>1, <1>2, <1>10, <2>1, ClientsAssumption, FileTypes, NoneAssumption
       DEF Truncate, NoRace, Core, SlotAgent, SlotApp, OpenAcquires, Named, Stale, FillsTorn, OneWriter, OwnSeen, OwnPending, GrantNamed,
          GrantApp, ReleasedFirst, OnlyReleaseUnlinks, WonNamed, ClearIdle, NothingLost, AppsLive, OwnersLive
<1>11. CASE Fill(c)
  <2>1. /\ \A d \in Calls : d # c => call'[d] = call[d]
        /\ call'[c].op = call[c].op /\ call'[c].agent = call[c].agent /\ call'[c].app = call[c].app
        /\ call'[c].pc = "ok"
        /\ call'[c].seen = call[c].seen
    BY <1>0, <1>11 DEF Fill
  <2> QED
    BY <1>0, <1>1, <1>2, <1>11, <2>1, ClientsAssumption, FileTypes, NoneAssumption
       DEF Fill, NoRace, Core, SlotAgent, SlotApp, OpenAcquires, Named, Stale, FillsTorn, OneWriter, OwnSeen, OwnPending, GrantNamed,
          GrantApp, ReleasedFirst, OnlyReleaseUnlinks, WonNamed, ClearIdle, NothingLost, AppsLive, OwnersLive
<1>12. CASE FillLost(c)
  <2>1. /\ \A d \in Calls : d # c => call'[d] = call[d]
        /\ call'[c].op = call[c].op /\ call'[c].agent = call[c].agent /\ call'[c].app = call[c].app
        /\ call'[c].pc = "ok"
        /\ call'[c].seen = call[c].seen
    BY <1>0, <1>12 DEF FillLost
  <2> QED
    BY <1>0, <1>1, <1>2, <1>12, <2>1, ClientsAssumption, FileTypes, NoneAssumption
       DEF FillLost, NoRace, Core, SlotAgent, SlotApp, OpenAcquires, Named, Stale, FillsTorn, OneWriter, OwnSeen, OwnPending, GrantNamed,
          GrantApp, ReleasedFirst, OnlyReleaseUnlinks, WonNamed, ClearIdle, NothingLost, AppsLive, OwnersLive
<1>13. CASE Unlink(c)
  <2>1. /\ \A d \in Calls : d # c => call'[d] = call[d]
        /\ call'[c].op = call[c].op /\ call'[c].agent = call[c].agent /\ call'[c].app = call[c].app
        /\ call'[c].pc = "ok"
        /\ call'[c].seen = call[c].seen
    <3>1. Named(c)
      BY <1>0, <1>1, <1>13 DEF Unlink, Core, ClearIdle, OwnPending
    <3>2. \A d \in Calls : call[d].pc # "fill"
      BY <3>1, <1>1, <1>2 DEF Core, FillsTorn, Named
    <3> QED
      BY <1>0, <1>13, <3>2 DEF Unlink, CallStates
  <2> QED
    BY <1>0, <1>1, <1>2, <1>13, <2>1, ClientsAssumption, FileTypes, NoneAssumption
       DEF Unlink, NoRace, Core, SlotAgent, SlotApp, OpenAcquires, Named, Stale, FillsTorn, OneWriter, OwnSeen, OwnPending, GrantNamed,
          GrantApp, ReleasedFirst, OnlyReleaseUnlinks, WonNamed, ClearIdle, NothingLost, AppsLive, OwnersLive
<1> QED
  BY <1>3, <1>4, <1>5, <1>6, <1>7, <1>8, <1>9, <1>10, <1>11, <1>12, <1>13 DEF LeaseStep

(* A call that begins: of an agent, or of a clearer.                       *)
LEMMA BeginInductive ==
    ASSUME IInv, NEW c \in Calls, NEW op \in Ops, NEW a, NEW p \in Apps, Begin(c, op, a, p),
           c \in Agents => a = c /\ op # "clear" /\ granted[c] \in {None, p},
           c \in Clearers => op = "clear",
           c \in Agents /\ op = "release" => granted'[c] = None,
           \A b \in Agents : granted'[b] # None => granted'[b] = granted[b]
    PROVE  Core'
<1>0. call \in [Calls -> CallStates] /\ Calls = Agents \cup Clearers
  BY ClientsAssumption DEF IInv, SlotsInv, TypeOK, LeaseTypeOK
<1>1. /\ \A d \in Calls : d # c => call'[d] = call[d]
      /\ call'[c].op = op /\ call'[c].agent = a /\ call'[c].app = p /\ call'[c].seen = Absent
      /\ call'[c].pc = IF op = "acquire" THEN "open" ELSE "read"
      /\ p \in up /\ UNCHANGED <<file, up>>
  BY <1>0 DEF Begin
<1>2. Absent.state = "absent"
  BY DEF Absent
<1>3. Core
  BY DEF IInv, Core
<1>4. FillsTorn' /\ OneWriter' /\ OwnSeen' /\ OwnPending' /\ GrantNamed' /\ GrantApp'
  <2>1. call[c].pc = "idle"
    BY DEF Begin
  <2>2. \A d \in Calls : call'[d].pc = "fill" => call[d].pc = "fill" /\ d # c
    BY <1>1
  <2>3. FillsTorn' /\ OneWriter'
    BY <1>1, <1>3, <2>2 DEF Core, FillsTorn, OneWriter
  <2>4. OwnSeen' /\ OwnPending'
    BY <1>0, <1>1, <1>3 DEF Core, OwnSeen, OwnPending, Named
  <2>5. GrantNamed'
    BY <1>0, <1>1, <1>3, <2>1 DEF Core, GrantNamed, Named
  <2>6. GrantApp'
    BY <1>0, <1>1, <1>3, ClientsAssumption DEF Core, GrantApp
  <2> QED
    BY <2>3, <2>4, <2>5, <2>6
<1>5. ReleasedFirst' /\ OnlyReleaseUnlinks' /\ WonNamed' /\ ClearIdle' /\ NothingLost'
  BY <1>0, <1>1, <1>3, ClientsAssumption
     DEF Core, ReleasedFirst, OnlyReleaseUnlinks, WonNamed, ClearIdle, NothingLost, Named
<1>6. AppsLive' /\ OwnersLive'
  BY <1>1, <1>2, <1>3 DEF Core, AppsLive, OwnersLive
<1> QED
  BY <1>4, <1>5, <1>6 DEF Core

(* A call whose slot becomes idle, with the grants that remain.            *)
LEMMA IdleInductive ==
    ASSUME IInv, file' = file,
           \A d \in Calls : call'[d] = call[d] \/ call'[d] = IdleCall,
           \A b \in Agents : granted'[b] # None =>
               \/ granted'[b] = granted[b] /\ (call'[b] = call[b] \/ ~At(b, "fill"))
               \/ call[b].op = "acquire" /\ At(b, "ok") /\ call'[b] = IdleCall,
           CanCrash = {} => up' = up
    PROVE  Core'
<1>0. Calls = Agents \cup Clearers /\ Core
  BY ClientsAssumption DEF IInv, Core
<1>1. IdleCall.pc = "idle" /\ IdleCall.op = "clear" /\ IdleCall.seen.state = "absent"
  BY DEF IdleCall, Absent
<1>2. FillsTorn' /\ OneWriter' /\ OwnSeen' /\ OwnPending'
  BY <1>0, <1>1 DEF Core, FillsTorn, OneWriter, OwnSeen, OwnPending, Named
<1>3. GrantNamed' /\ GrantApp'
  BY <1>0, <1>1 DEF Core, GrantNamed, GrantApp, WonNamed, Named
<1>4. ReleasedFirst' /\ OnlyReleaseUnlinks' /\ WonNamed'
  BY <1>0, <1>1 DEF Core, ReleasedFirst, OnlyReleaseUnlinks, WonNamed, Named
<1>5. ClearIdle' /\ NothingLost'
  BY <1>0, <1>1 DEF Core, ClearIdle, NothingLost
<1>6. AppsLive' /\ OwnersLive'
  BY <1>0, <1>1 DEF Core, AppsLive, OwnersLive
<1> QED
  BY <1>2, <1>3, <1>4, <1>5, <1>6 DEF Core

(* Every step keeps the inductive invariant, when nobody clears or no      *)
(* process dies.                                                           *)
LEMMA NextInductive == NoRace /\ IInv /\ [Next]_vars => IInv'
<1> SUFFICES ASSUME NoRace, IInv, [Next]_vars PROVE IInv'
  OBVIOUS
<1>0. /\ call \in [Calls -> CallStates] /\ granted \in [Agents -> Apps \cup {None}]
      /\ Calls = Agents \cup Clearers /\ Agents \cap Clearers = {}
      /\ Core /\ SlotAgent
  BY ClientsAssumption DEF IInv, Core, SlotsInv, TypeOK, LeaseTypeOK
<1>1. ASSUME NEW p \in Apps, Start(p) PROVE Core'
  BY <1>0, <1>1
     DEF Start, Launch, Core, Named, FillsTorn, OneWriter, OwnSeen, OwnPending, GrantNamed,
          GrantApp, ReleasedFirst, OnlyReleaseUnlinks, WonNamed, ClearIdle, NothingLost, AppsLive, OwnersLive
<1>2. ASSUME NEW p \in Apps, Crash(p) PROVE Core'
  <2>1. \A d \in Calls : call'[d] = IF call[d].app = p THEN IdleCall ELSE call[d]
    BY <1>2 DEF Crash, Die
  <2>2. \A b \in Agents : granted'[b] = IF granted[b] = p THEN None ELSE granted[b]
    BY <1>2 DEF Crash
  <2>3. \A b \in Agents : granted'[b] # None =>
            granted'[b] = granted[b] /\ (call'[b] = call[b] \/ ~At(b, "fill"))
    BY <1>0, <2>1, <2>2 DEF Core, GrantApp
  <2>4. CanCrash # {} /\ file' = file
    BY <1>2 DEF Crash, Die
  <2> QED
    BY <2>1, <2>3, <2>4, IdleInductive
<1>3. ASSUME NEW a \in Agents, NEW p \in Apps, Acquire(a, p) PROVE Core'
  BY <1>0, <1>3, BeginInductive DEF Acquire, Ops
<1>4. ASSUME NEW a \in Agents, Heartbeat(a) PROVE Core'
  <2>1. granted[a] \in Apps
    BY <1>0, <1>4 DEF Heartbeat
  <2> QED
    BY <1>0, <1>4, <2>1, BeginInductive DEF Heartbeat, Ops
<1>5. ASSUME NEW a \in Agents, Release(a) PROVE Core'
  <2>1. granted[a] \in Apps
    BY <1>0, <1>5 DEF Release
  <2>2. granted'[a] = None /\ \A b \in Agents : b # a => granted'[b] = granted[b]
    BY <1>0, <1>5 DEF Release
  <2> QED
    BY <1>0, <1>5, <2>1, <2>2, BeginInductive DEF Release, Ops
<1>6. ASSUME NEW a \in Agents, Finish(a) PROVE Core'
  <2>1. call'[a] = IdleCall /\ (\A d \in Calls : d # a => call'[d] = call[d]) /\ UNCHANGED <<file, up>>
    BY <1>0, <1>6 DEF Finish, Return
  <2>2. ~At(a, "fill")
    BY <1>6 DEF Finish, Return, Final
  <2>3. \A b \in Agents : b # a => granted'[b] = granted[b]
    BY <1>0, <1>6 DEF Finish
  <2>4. \/ call[a].op = "acquire" /\ At(a, "ok")
        \/ granted'[a] = granted[a]
    BY <1>6 DEF Finish
  <2> QED
    BY <1>0, <2>1, <2>2, <2>3, <2>4, IdleInductive
<1>7. ASSUME NEW c \in Clearers, NEW p \in Apps, Clear(c, p) PROVE Core'
  BY <1>0, <1>7, BeginInductive DEF Clear, Ops
<1>8. ASSUME NEW c \in Clearers, FinishClear(c) PROVE Core'
  <2>1. call'[c] = IdleCall /\ (\A d \in Calls : d # c => call'[d] = call[d])
        /\ UNCHANGED <<file, up, granted>>
    BY <1>0, <1>8 DEF FinishClear, Return
  <2> QED
    BY <1>0, <2>1, IdleInductive
<1>9. ASSUME NEW c \in Calls, Step(c) PROVE Core'
  BY <1>9, StepInductive DEF Step
<1>10. ASSUME UNCHANGED vars PROVE Core'
  BY <1>0, <1>10
     DEF vars, Core, Named, FillsTorn, OneWriter, OwnSeen, OwnPending, GrantNamed,
          GrantApp, ReleasedFirst, OnlyReleaseUnlinks, WonNamed, ClearIdle, NothingLost, AppsLive, OwnersLive
<1>11. Core'
  BY <1>1, <1>2, <1>3, <1>4, <1>5, <1>6, <1>7, <1>8, <1>9, <1>10 DEF Next
<1> QED
  BY <1>11, NextSlots DEF IInv, Core

(* The inductive invariant of the lease file and its clients.              *)
LEMMA Inductive == ASSUME NoRace PROVE Spec => []IInv
<1>1. IInv /\ [Next]_vars => IInv'
  BY NextInductive
<1> QED
  BY <1>1, InitInductive, PTL DEF Spec

-----------------------------------------------------------------------------
(* The file names one agent, or is being written by one, so one holder at  *)
(* most, and the file names it or its own write is going on.               *)
LEMMA OneHolder == FillsTorn /\ OneWriter /\ GrantNamed => Exclusive /\ HolderOnDisk
<1> SUFFICES ASSUME FillsTorn, OneWriter, GrantNamed PROVE Exclusive /\ HolderOnDisk
  OBVIOUS
<1>1. \A a \in Holders : a \in Agents /\ (Named(a) \/ At(a, "fill"))
  BY DEF Holders, GrantNamed
<1>2. Torn.state = "torn" /\ Agents \subseteq Calls
  BY ClientsAssumption DEF Torn
<1>3. Exclusive
  BY <1>1, <1>2 DEF Exclusive, Named, FillsTorn, OneWriter
<1>4. HolderOnDisk
  BY <1>1, <1>2 DEF HolderOnDisk, FillsTorn
<1> QED
  BY <1>3, <1>4

LEMMA IInvHolder == IInv => Exclusive /\ HolderOnDisk
BY OneHolder DEF IInv

(* The lease is granted to at most one agent at a time -- with crashes and *)
(* restarts of the main process as long as nobody clears a lease, and with *)
(* several main processes and clear requests as long as no process dies.   *)
THEOREM MutualExclusion == ASSUME NoRace PROVE Spec => []Exclusive
BY Inductive, IInvHolder, PTL

(* Under the same conditions the lease file names the agent that has the   *)
(* lease, unless that agent is just rewriting the file.                    *)
THEOREM HolderKeepsFile == ASSUME NoRace PROVE Spec => []HolderOnDisk
BY Inductive, IInvHolder, PTL

(* Both: whoever has the lease has it alone, in memory and on disk.        *)
THEOREM HoldersAreAlone == ASSUME NoRace PROVE Spec => []HoldsAlone
<1>1. Exclusive /\ HolderOnDisk => HoldsAlone
  BY DEF HoldsAlone
<1> QED
  BY <1>1, MutualExclusion, HolderKeepsFile, PTL

(* While no process dies, the file is never left torn: a read that fails   *)
(* on it meets a write that is going on.                                   *)
THEOREM TornIsTransient == ASSUME CanCrash = {} PROVE Spec => []TornHasWriter
<1> DEFINE Inv == IInv /\ TornHasWriter
<1>0. NoRace
  BY DEF NoRace
<1>1. Init => Inv
  <2>1. Init => TornHasWriter
    BY DEF Init, LeaseInit, Absent, Torn, TornHasWriter
  <2> QED
    BY <2>1, InitInductive
<1>2. Inv /\ [Next]_vars => Inv'
  <2> SUFFICES ASSUME Inv, [Next]_vars PROVE TornHasWriter'
    BY <1>0, NextInductive
  <2>0. call \in [Calls -> CallStates] /\ Calls = Agents \cup Clearers /\ Torn.state = "torn"
    BY ClientsAssumption DEF IInv, SlotsInv, TypeOK, LeaseTypeOK, Torn
  <2>1. ASSUME file' = file,
               \A d \in Calls : At(d, "fill") => call'[d].pc = "fill"
        PROVE  TornHasWriter'
    BY <2>1 DEF TornHasWriter
  <2>2. ASSUME NEW p \in Apps, Start(p) \/ Crash(p) PROVE TornHasWriter'
    BY <2>1, <2>2 DEF Start, Launch, Crash
  <2>3. ASSUME NEW c \in Calls, NEW op, NEW a, NEW p, Begin(c, op, a, p) PROVE TornHasWriter'
    BY <2>0, <2>1, <2>3 DEF Begin
  <2>4. ASSUME NEW c \in Calls, Return(c) PROVE TornHasWriter'
    BY <2>0, <2>1, <2>4 DEF Return, Final
  <2>5. ASSUME NEW c \in Calls, LeaseStep(c) PROVE TornHasWriter'
    <3>1. CASE OpenNew(c) \/ Truncate(c)
      <4>1. call'[c].pc = "fill"
        BY <2>0, <3>1 DEF OpenNew, Truncate, CallStates
      <4> QED
        BY <4>1 DEF TornHasWriter
    <3>2. CASE Fill(c)
      <4>1. c \in Agents
        BY <2>0, <3>2 DEF Fill, IInv, ClearIdle
      <4> QED
        BY <2>0, <3>2, <4>1 DEF Fill, IInv, OwnSeen, TornHasWriter
    <3>3. CASE Unlink(c)
      BY <3>3 DEF Unlink, Absent, Torn, TornHasWriter
    <3>4. CASE OpenExisting(c) \/ ReadTorn(c) \/ ReadAbsent(c) \/ FillLost(c)
      BY <2>0, <2>1, <3>4 DEF OpenExisting, ReadTorn, ReadAbsent, FillLost
    <3>5. CASE ReadForeign(c) \/ ReadOwn(c) \/ ReadForClear(c)
      BY <2>0, <2>1, <3>5 DEF ReadForeign, ReadOwn, ReadForClear, Reads
    <3> QED
      BY <2>5, <3>1, <3>2, <3>3, <3>4, <3>5 DEF LeaseStep
  <2>6. CASE UNCHANGED vars
    BY <2>1, <2>6 DEF vars
  <2> QED
    BY <2>0, <2>2, <2>3, <2>4, <2>5, <2>6
       DEF Next, Acquire, Heartbeat, Release, Finish, Clear, FinishClear, Step
<1> QED
  BY <1>1, <1>2, PTL DEF Spec

-----------------------------------------------------------------------------
(* Refinement.                                                             *)
(* A step of the lease files grants to an agent when nobody holds the      *)
(* lease, takes the lease from one, or changes no grant.                   *)
LEMMA StepKeepsPromise ==
    ASSUME SlotsInv, Exclusive, Exclusive', [Next]_vars PROVE [Promise!Next]_Holders
<1>0. /\ granted \in [Agents -> Apps \cup {None}] /\ Agents \subseteq Calls
      /\ \A p \in Apps : p # None
  BY ClientsAssumption, NoneAssumption DEF SlotsInv, TypeOK
<1>1. ASSUME granted' = granted PROVE Holders' = Holders
  BY <1>1 DEF Holders
<1>2. ASSUME NEW a \in Agents, Finish(a) PROVE [Promise!Next]_Holders
  <2>1. CASE call[a].op = "acquire" /\ call[a].pc = "ok"
    <3>1. granted' = [granted EXCEPT ![a] = call[a].app] /\ call[a].app \in Apps
      BY <1>0, <1>2, <2>1 DEF Finish, SlotsInv, SlotApp
    <3>2. Holders' = Holders \cup {a}
      BY <1>0, <3>1 DEF Holders
    <3>3. Holders' \subseteq {a}
      BY <1>0, <3>2 DEF Exclusive
    <3> QED
      BY <3>2, <3>3 DEF Promise!Next, Promise!Grant
  <2>2. CASE ~(call[a].op = "acquire" /\ call[a].pc = "ok")
    BY <1>1, <1>2, <2>2 DEF Finish
  <2> QED
    BY <2>1, <2>2
<1>3. ASSUME NEW a \in Agents, Release(a) PROVE [Promise!Next]_Holders
  <2>1. a \in Holders /\ Holders' = Holders \ {a}
    BY <1>0, <1>3 DEF Release, Holders
  <2> QED
    BY <2>1 DEF Promise!Next, Promise!Revoke, Holders
<1>4. ASSUME NEW p \in Apps, Crash(p) PROVE [Promise!Next]_Holders
  <2>1. Holders' = {a \in Holders : granted[a] # p}
    BY <1>0, <1>4 DEF Crash, Holders
  <2>2. CASE \E a \in Holders : granted[a] = p
    <3>1. PICK a \in Holders : granted[a] = p
      BY <2>2
    <3>2. Holders = {a}
      BY <1>0, <3>1 DEF Exclusive
    <3>3. Holders' = Holders \ {a} /\ a \in Agents
      BY <2>1, <3>1, <3>2 DEF Holders
    <3> QED
      BY <3>1, <3>3 DEF Promise!Next, Promise!Revoke
  <2>3. CASE ~\E a \in Holders : granted[a] = p
    BY <2>1, <2>3
  <2> QED
    BY <2>2, <2>3
<1>5. CASE UNCHANGED vars
  BY <1>1, <1>5 DEF vars
<1> QED
  BY <1>1, <1>2, <1>3, <1>4, <1>5
     DEF Next, Start, Acquire, Heartbeat, Clear, FinishClear, Step

(* The lease as it is kept in the file implements the promise: it is only  *)
(* ever granted while no agent has it.                                     *)
THEOREM Refinement == ASSUME NoRace PROVE Spec => Implements
<1>1. Init => Promise!Init
  BY DEF Init, Holders, Promise!Init
<1>2. IInv => SlotsInv
  BY DEF IInv
<1>3. SlotsInv /\ Exclusive /\ Exclusive' /\ [Next]_vars => [Promise!Next]_Holders
  BY StepKeepsPromise
<1> QED
  BY <1>1, <1>2, <1>3, Inductive, MutualExclusion, PTL DEF Spec, Implements, Promise!Spec
-----------------------------------------------------------------------------
(* One process at a time, one request to clear at a time (the button is    *)
(* disabled while a request is under way), and an agent is not prompted    *)
(* while its own lease is stale.                                           *)
OneLife == MaxUp \in Nat /\ MaxUp <= 1 /\ ~Resumes /\ \A c, d \in Clearers : c = d

(* LifeInv without the types.                                              *)
LCore == /\ FillsTorn /\ OneWriter /\ OwnSeen /\ OwnPending
         /\ GrantNamed /\ GrantApp /\ ReleasedFirst /\ OnlyReleaseUnlinks /\ WonNamed
         /\ NothingLost /\ OneUp /\ CallsUp /\ GrantsUp /\ OwnerUp
         /\ ClearersOnlyUnlink /\ ClearsStale

(* LifeInv holds before anything was written.                              *)
LEMMA InitLife == Init => LifeInv
<1> SUFFICES ASSUME Init PROVE LifeInv
  OBVIOUS
<1>1. \A c \in Calls : call[c] = IdleCall
  BY DEF Init, LeaseInit
<1>2. IdleCall.pc = "idle" /\ IdleCall.op = "clear"
  BY DEF IdleCall
<1>3. file.state = "absent" /\ up = {} /\ \A a \in Agents : granted[a] = None
  BY DEF Init, LeaseInit, Absent
<1>4. FillsTorn /\ OneWriter /\ OwnSeen /\ OwnPending /\ GrantNamed /\ GrantApp /\ ReleasedFirst
  BY <1>1, <1>2, <1>3, ClientsAssumption
     DEF FillsTorn, OneWriter, OwnSeen, OwnPending, GrantNamed, GrantApp, ReleasedFirst
<1>5. OnlyReleaseUnlinks /\ WonNamed /\ NothingLost /\ OneUp /\ CallsUp /\ GrantsUp
  BY <1>1, <1>2, <1>3, ClientsAssumption
     DEF OnlyReleaseUnlinks, WonNamed, NothingLost, OneUp, CallsUp, GrantsUp
<1>6. OwnerUp /\ ClearersOnlyUnlink /\ ClearsStale
  BY <1>1, <1>2, <1>3, ClientsAssumption DEF OwnerUp, ClearersOnlyUnlink, ClearsStale, Named
<1> QED
  BY <1>4, <1>5, <1>6, InitSlots DEF LifeInv

(* A request to clear that is about to unlink meets a lease nobody uses:   *)
(* no agent has it, has won it, is writing it or is about to.              *)
LEMMA ClearMeetsNobody ==
    ASSUME LifeInv, NEW c \in Clearers, At(c, "unlink")
    PROVE  \A a \in Agents : /\ granted[a] = None
                             /\ ~At(a, "fill") /\ ~At(a, "truncate") /\ ~At(a, "unlink")
                             /\ ~(call[a].op = "acquire" /\ At(a, "ok"))
<1> SUFFICES ASSUME NEW a \in Agents
             PROVE  /\ granted[a] = None
                    /\ ~At(a, "fill") /\ ~At(a, "truncate") /\ ~At(a, "unlink")
                    /\ ~(call[a].op = "acquire" /\ At(a, "ok"))
  OBVIOUS
<1>1. file.state = "lease" /\ file.owner \notin up
  BY DEF LifeInv, ClearsStale, Stale
<1>2. ~At(a, "fill")
  <2>1. Torn.state = "torn" /\ a \in Calls
    BY ClientsAssumption DEF Torn
  <2> QED
    BY <1>1, <2>1 DEF LifeInv, FillsTorn
<1>3. ~(Named(a) /\ (~At(a, "idle") \/ granted[a] # None))
  BY <1>1 DEF LifeInv, OwnerUp
<1>4. granted[a] = None
  BY <1>2, <1>3 DEF LifeInv, GrantNamed
<1>5. ~At(a, "truncate") /\ ~At(a, "unlink")
  BY <1>3 DEF LifeInv, OwnPending
<1>6. ~(call[a].op = "acquire" /\ At(a, "ok"))
  BY <1>3 DEF LifeInv, WonNamed
<1> QED
  BY <1>2, <1>4, <1>5, <1>6

(* An agent that is not idle finds its own lease owned by a process that   *)
(* is alive, so no request to clear is about to unlink it.                 *)
LEMMA OwnIsLive ==
    ASSUME LifeInv, NEW a \in Agents, Named(a), ~At(a, "idle")
    PROVE  file.owner \in up /\ \A c \in Clearers : ~At(c, "unlink")
BY DEF LifeInv, OwnerUp, ClearsStale, Stale

(* What a step of the file operations of call c does to LifeInv.           *)
LEMMA StepLife ==
    ASSUME OneLife, LifeInv, NEW c \in Calls, LeaseStep(c), UNCHANGED <<fresh, granted>>
    PROVE  LCore'
<1>0. call \in [Calls -> CallStates] /\ file \in Files /\ Calls = Agents \cup Clearers
  BY ClientsAssumption DEF LifeInv, SlotsInv, TypeOK, LeaseTypeOK
<1>1. /\ SlotAgent /\ SlotApp /\ OpenAcquires /\ LCore
  BY DEF LifeInv, SlotsInv, LCore
<1>2. Absent.state = "absent" /\ Torn.state = "torn"
  BY DEF Absent, Torn
<1>3. CASE OpenNew(c)
  <2>1. /\ \A d \in Calls : d # c => call'[d] = call[d]
        /\ call'[c].op = call[c].op /\ call'[c].agent = call[c].agent /\ call'[c].app = call[c].app
        /\ call'[c].pc = "fill"
        /\ call'[c].seen = Lease(call[c].agent, call[c].app)
    BY <1>0, <1>3 DEF OpenNew
  <2>2. c \in Agents /\ call[c].agent = c /\ call[c].op = "acquire" /\ call[c].app \in up
    BY <1>0, <1>1, <1>3 DEF OpenNew, SlotAgent, OpenAcquires, LCore, CallsUp
  <2>3. /\ call'[c].seen.state = "lease"
        /\ call'[c].seen.holder = c /\ call'[c].seen.owner = call[c].app
    BY <2>1, <2>2 DEF Lease
  <2>4. file.state = "absent" /\ file'.state = "torn" /\ file' = Torn
        /\ UNCHANGED <<up, fresh, granted>>
    BY <1>2, <1>3 DEF OpenNew
  <2>5. \A d \in Calls : call[d].pc # "fill"
    BY <1>1, <1>2, <2>4 DEF LCore, FillsTorn
  <2> QED
    BY <1>0, <1>1, <1>3, <2>1, <2>2, <2>3, <2>4, <2>5, ClientsAssumption
       DEF OpenNew, LCore, SlotAgent, SlotApp, OpenAcquires, Named, Stale, FillsTorn, OneWriter, OwnSeen, OwnPending,
          GrantNamed, GrantApp, ReleasedFirst, OnlyReleaseUnlinks, WonNamed, NothingLost, OneUp, CallsUp,
          GrantsUp, OwnerUp, ClearersOnlyUnlink, ClearsStale
<1>4. CASE OpenExisting(c)
  <2>1. /\ \A d \in Calls : d # c => call'[d] = call[d]
        /\ call'[c].op = call[c].op /\ call'[c].agent = call[c].agent /\ call'[c].app = call[c].app
        /\ call'[c].pc = "read"
        /\ call'[c].seen = call[c].seen
    BY <1>0, <1>4 DEF OpenExisting
  <2> QED
    BY <1>0, <1>1, <1>2, <1>4, <2>1, ClientsAssumption, FileTypes, NoneAssumption
       DEF OpenExisting, LCore, SlotAgent, SlotApp, OpenAcquires, Named, Stale, FillsTorn, OneWriter, OwnSeen, OwnPending,
          GrantNamed, GrantApp, ReleasedFirst, OnlyReleaseUnlinks, WonNamed, NothingLost, OneUp, CallsUp,
          GrantsUp, OwnerUp, ClearersOnlyUnlink, ClearsStale
<1>5. CASE ReadTorn(c)
  <2>1. /\ \A d \in Calls : d # c => call'[d] = call[d]
        /\ call'[c].op = call[c].op /\ call'[c].agent = call[c].agent /\ call'[c].app = call[c].app
        /\ call'[c].pc = "error"
        /\ call'[c].seen = call[c].seen
    BY <1>0, <1>5 DEF ReadTorn
  <2> QED
    BY <1>0, <1>1, <1>2, <1>5, <2>1, ClientsAssumption, FileTypes, NoneAssumption
       DEF ReadTorn, LCore, SlotAgent, SlotApp, OpenAcquires, Named, Stale, FillsTorn, OneWriter, OwnSeen, OwnPending,
          GrantNamed, GrantApp, ReleasedFirst, OnlyReleaseUnlinks, WonNamed, NothingLost, OneUp, CallsUp,
          GrantsUp, OwnerUp, ClearersOnlyUnlink, ClearsStale
<1>6. CASE ReadAbsent(c)
  <2>1. /\ \A d \in Calls : d # c => call'[d] = call[d]
        /\ call'[c].op = call[c].op /\ call'[c].agent = call[c].agent /\ call'[c].app = call[c].app
        /\ call'[c].pc = IF call[c].op = "acquire" THEN "open" ELSE "ok"
        /\ call'[c].seen = call[c].seen
    BY <1>0, <1>6 DEF ReadAbsent
  <2> QED
    BY <1>0, <1>1, <1>2, <1>6, <2>1, ClientsAssumption, FileTypes, NoneAssumption
       DEF ReadAbsent, LCore, SlotAgent, SlotApp, OpenAcquires, Named, Stale, FillsTorn, OneWriter, OwnSeen, OwnPending,
          GrantNamed, GrantApp, ReleasedFirst, OnlyReleaseUnlinks, WonNamed, NothingLost, OneUp, CallsUp,
          GrantsUp, OwnerUp, ClearersOnlyUnlink, ClearsStale
<1>7. CASE ReadForeign(c)
  <2>1. /\ \A d \in Calls : d # c => call'[d] = call[d]
        /\ call'[c].op = call[c].op /\ call'[c].agent = call[c].agent /\ call'[c].app = call[c].app
        /\ call'[c].pc = IF call[c].op = "acquire" THEN "conflict" ELSE "ok"
        /\ call'[c].seen = call[c].seen
    BY <1>0, <1>7 DEF ReadForeign, Reads
  <2> QED
    BY <1>0, <1>1, <1>2, <1>7, <2>1, ClientsAssumption, FileTypes, NoneAssumption
       DEF ReadForeign, Reads, LCore, SlotAgent, SlotApp, OpenAcquires, Named, Stale, FillsTorn, OneWriter, OwnSeen, OwnPending,
          GrantNamed, GrantApp, ReleasedFirst, OnlyReleaseUnlinks, WonNamed, NothingLost, OneUp, CallsUp,
          GrantsUp, OwnerUp, ClearersOnlyUnlink, ClearsStale
<1>8. CASE ReadOwn(c)
  <2>1. /\ \A d \in Calls : d # c => call'[d] = call[d]
        /\ call'[c].op = call[c].op /\ call'[c].agent = call[c].agent /\ call'[c].app = call[c].app
        /\ call'[c].pc = IF call[c].op = "release" THEN "unlink" ELSE "truncate"
        /\ call'[c].seen = file
    BY <1>0, <1>8 DEF ReadOwn, Reads
  <2> QED
    BY <1>0, <1>1, <1>2, <1>8, <2>1, ClientsAssumption, FileTypes, NoneAssumption
       DEF ReadOwn, Reads, LCore, SlotAgent, SlotApp, OpenAcquires, Named, Stale, FillsTorn, OneWriter, OwnSeen, OwnPending,
          GrantNamed, GrantApp, ReleasedFirst, OnlyReleaseUnlinks, WonNamed, NothingLost, OneUp, CallsUp,
          GrantsUp, OwnerUp, ClearersOnlyUnlink, ClearsStale
<1>9. CASE ReadForClear(c)
  <2>1. /\ \A d \in Calls : d # c => call'[d] = call[d]
        /\ call'[c].op = call[c].op /\ call'[c].agent = call[c].agent /\ call'[c].app = call[c].app
        /\ call'[c].pc = IF Stale(file) THEN "unlink" ELSE "error"
        /\ call'[c].seen = file
    BY <1>0, <1>9 DEF ReadForClear, Reads
  <2> QED
    BY <1>0, <1>1, <1>2, <1>9, <2>1, ClientsAssumption, FileTypes, NoneAssumption
       DEF ReadForClear, Reads, LCore, SlotAgent, SlotApp, OpenAcquires, Named, Stale, FillsTorn, OneWriter, OwnSeen, OwnPending,
          GrantNamed, GrantApp, ReleasedFirst, OnlyReleaseUnlinks, WonNamed, NothingLost, OneUp, CallsUp,
          GrantsUp, OwnerUp, ClearersOnlyUnlink, ClearsStale
<1>10. CASE Truncate(c)
  <2>1. /\ \A d \in Calls : d # c => call'[d] = call[d]
        /\ call'[c].op = call[c].op /\ call'[c].agent = call[c].agent /\ call'[c].app = call[c].app
        /\ call'[c].pc = "fill"
        /\ call'[c].seen = call[c].seen
    BY <1>0, <1>10 DEF Truncate
  <2>2. c \in Agents /\ Named(c) /\ file.owner \in up /\ \A d \in Clearers : ~At(d, "unlink")
    BY <1>0, <1>1, <1>10, OwnIsLive DEF Truncate, LCore, ClearersOnlyUnlink, OwnPending
  <2>3. \A d \in Calls : ~At(d, "fill")
    BY <1>1, <1>2, <2>2 DEF LCore, FillsTorn, Named
  <2> QED
    BY <1>0, <1>1, <1>2, <1>10, <2>1, <2>2, <2>3, ClientsAssumption, FileTypes, NoneAssumption
       DEF Truncate, LCore, SlotAgent, SlotApp, OpenAcquires, Named, Stale, FillsTorn, OneWriter, OwnSeen, OwnPending,
          GrantNamed, GrantApp, ReleasedFirst, OnlyReleaseUnlinks, WonNamed, NothingLost, OneUp, CallsUp,
          GrantsUp, OwnerUp, ClearersOnlyUnlink, ClearsStale
<1>11. CASE Fill(c)
  <2>1. /\ \A d \in Calls : d # c => call'[d] = call[d]
        /\ call'[c].op = call[c].op /\ call'[c].agent = call[c].agent /\ call'[c].app = call[c].app
        /\ call'[c].pc = "ok"
        /\ call'[c].seen = call[c].seen
    BY <1>0, <1>11 DEF Fill
  <2>2. c \in Agents /\ \A d \in Clearers : ~At(d, "unlink")
    BY <1>0, <1>1, <1>2, <1>11 DEF Fill, LCore, ClearersOnlyUnlink, FillsTorn, ClearsStale, Stale
  <2> QED
    BY <1>0, <1>1, <1>2, <1>11, <2>1, <2>2, ClientsAssumption, FileTypes, NoneAssumption
       DEF Fill, LCore, SlotAgent, SlotApp, OpenAcquires, Named, Stale, FillsTorn, OneWriter, OwnSeen, OwnPending,
          GrantNamed, GrantApp, ReleasedFirst, OnlyReleaseUnlinks, WonNamed, NothingLost, OneUp, CallsUp,
          GrantsUp, OwnerUp, ClearersOnlyUnlink, ClearsStale
<1>12. CASE FillLost(c)
  <2>1. /\ \A d \in Calls : d # c => call'[d] = call[d]
        /\ call'[c].op = call[c].op /\ call'[c].agent = call[c].agent /\ call'[c].app = call[c].app
        /\ call'[c].pc = "ok"
        /\ call'[c].seen = call[c].seen
    BY <1>0, <1>12 DEF FillLost
  <2> QED
    BY <1>0, <1>1, <1>2, <1>12, <2>1, ClientsAssumption, FileTypes, NoneAssumption
       DEF FillLost, LCore, SlotAgent, SlotApp, OpenAcquires, Named, Stale, FillsTorn, OneWriter, OwnSeen, OwnPending,
          GrantNamed, GrantApp, ReleasedFirst, OnlyReleaseUnlinks, WonNamed, NothingLost, OneUp, CallsUp,
          GrantsUp, OwnerUp, ClearersOnlyUnlink, ClearsStale
<1>13. CASE Unlink(c)
  <2>1. file.state = "lease"
    BY <1>0, <1>1, <1>13 DEF Unlink, LCore, OwnPending, Named, ClearsStale, Stale
  <2>2. \A d \in Calls : call[d].pc # "fill"
    BY <2>1, <1>1, <1>2 DEF LCore, FillsTorn
  <2>3. /\ \A d \in Calls : d # c => call'[d] = call[d]
        /\ call'[c].op = call[c].op /\ call'[c].agent = call[c].agent /\ call'[c].app = call[c].app
        /\ call'[c].pc = "ok"
        /\ call'[c].seen = call[c].seen
    BY <1>0, <1>13, <2>2 DEF Unlink, CallStates
  <2>4. file'.state = "absent" /\ UNCHANGED <<up, granted>>
    BY <1>2, <1>13 DEF Unlink
  <2>5. CASE c \in Agents
    <3>1. Named(c) /\ call[c].op = "release" /\ granted[c] = None
      BY <1>1, <1>13, <2>5 DEF Unlink, LCore, OwnPending, OnlyReleaseUnlinks, ReleasedFirst
    <3>2. \A d \in Clearers : ~At(d, "unlink")
      BY <1>13, <2>5, <3>1, OwnIsLive DEF Unlink
    <3> QED
      BY <1>0, <1>1, <1>13, <2>2, <2>3, <2>4, <2>5, <3>1, <3>2, ClientsAssumption
         DEF Unlink, LCore, SlotAgent, SlotApp, OpenAcquires, Named, Stale, FillsTorn, OneWriter, OwnSeen, OwnPending,
          GrantNamed, GrantApp, ReleasedFirst, OnlyReleaseUnlinks, WonNamed, NothingLost, OneUp, CallsUp,
          GrantsUp, OwnerUp, ClearersOnlyUnlink, ClearsStale
  <2>6. CASE c \in Clearers
    <3>1. /\ \A a \in Agents : /\ granted[a] = None
                             /\ ~At(a, "fill") /\ ~At(a, "truncate") /\ ~At(a, "unlink")
                             /\ ~(call[a].op = "acquire" /\ At(a, "ok"))
      BY <1>13, <2>6, ClearMeetsNobody DEF Unlink
    <3>2. \A d \in Clearers : d = c
      BY <2>6 DEF OneLife
    <3> QED
      BY <1>0, <1>1, <1>13, <2>2, <2>3, <2>4, <2>6, <3>1, <3>2, ClientsAssumption
         DEF Unlink, LCore, SlotAgent, SlotApp, OpenAcquires, Named, Stale, FillsTorn, OneWriter, OwnSeen, OwnPending,
          GrantNamed, GrantApp, ReleasedFirst, OnlyReleaseUnlinks, WonNamed, NothingLost, OneUp, CallsUp,
          GrantsUp, OwnerUp, ClearersOnlyUnlink, ClearsStale
  <2> QED
    BY <1>0, <2>5, <2>6
<1> QED
  BY <1>3, <1>4, <1>5, <1>6, <1>7, <1>8, <1>9, <1>10, <1>11, <1>12, <1>13 DEF LeaseStep

(* A call that begins, of an agent whose own lease is not stale, or of the *)
(* clear request.                                                          *)
LEMMA BeginLife ==
    ASSUME LifeInv, NEW c \in Calls, NEW op \in Ops, NEW a, NEW p \in Apps, Begin(c, op, a, p),
           c \in Agents => /\ a = c /\ op # "clear" /\ granted[c] \in {None, p}
                          /\ (Named(c) => file.owner \in up),
           c \in Clearers => op = "clear",
           c \in Agents /\ op = "release" => granted'[c] = None,
           \A b \in Agents : granted'[b] # None => granted'[b] = granted[b]
    PROVE  LCore'
<1>0. call \in [Calls -> CallStates] /\ Calls = Agents \cup Clearers /\ Agents \cap Clearers = {}
  BY ClientsAssumption DEF LifeInv, SlotsInv, TypeOK, LeaseTypeOK
<1>1. /\ \A d \in Calls : d # c => call'[d] = call[d]
      /\ call'[c].op = op /\ call'[c].agent = a /\ call'[c].app = p /\ call'[c].seen = Absent
      /\ call'[c].pc = IF op = "acquire" THEN "open" ELSE "read"
      /\ p \in up /\ UNCHANGED <<file, up>> /\ call[c].pc = "idle"
  BY <1>0 DEF Begin
<1>2. LCore
  BY DEF LifeInv, LCore
<1>3. \A d \in Calls : call'[d].pc \in {"fill", "truncate", "unlink", "lost", "ok"} => call'[d] = call[d] /\ d # c
  BY <1>1
<1>4. FillsTorn' /\ OneWriter' /\ OwnSeen' /\ OwnPending'
  BY <1>0, <1>1, <1>2, <1>3 DEF LCore, FillsTorn, OneWriter, OwnSeen, OwnPending, Named
<1>5. GrantNamed'
  BY <1>0, <1>1, <1>2 DEF LCore, GrantNamed, Named
<1>6. GrantApp'
  BY <1>0, <1>1, <1>2 DEF LCore, GrantApp
<1>7. ReleasedFirst' /\ OnlyReleaseUnlinks' /\ WonNamed' /\ NothingLost'
  BY <1>0, <1>1, <1>2
     DEF LCore, ReleasedFirst, OnlyReleaseUnlinks, WonNamed, NothingLost, Named
<1>8. OneUp' /\ CallsUp' /\ GrantsUp'
  BY <1>0, <1>1, <1>2 DEF LCore, OneUp, CallsUp, GrantsUp
<1>9. OwnerUp'
  BY <1>0, <1>1, <1>2 DEF LCore, OwnerUp, Named
<1>10. ClearersOnlyUnlink' /\ ClearsStale'
  BY <1>0, <1>1, <1>2 DEF LCore, ClearersOnlyUnlink, ClearsStale, Stale
<1> QED
  BY <1>4, <1>5, <1>6, <1>7, <1>8, <1>9, <1>10 DEF LCore

(* Calls whose slots become idle, and the grants that remain.              *)
LEMMA IdleLife ==
    ASSUME LifeInv, UNCHANGED <<file, up>>,
           \A d \in Calls : call'[d] = call[d] \/ call'[d] = IdleCall,
           \A b \in Agents : granted'[b] # None =>
               \/ granted'[b] = granted[b] /\ (call'[b] = call[b] \/ ~At(b, "fill"))
               \/ /\ call[b].op = "acquire" /\ At(b, "ok") /\ call'[b] = IdleCall
                  /\ granted'[b] = call[b].app
    PROVE  LCore'
<1>0. Calls = Agents \cup Clearers /\ LCore
  BY ClientsAssumption DEF LifeInv, LCore
<1>1. IdleCall.pc = "idle" /\ IdleCall.op = "clear" /\ IdleCall.seen.state = "absent"
  BY DEF IdleCall, Absent
<1>2. FillsTorn' /\ OneWriter' /\ OwnSeen' /\ OwnPending'
  BY <1>0, <1>1 DEF LCore, FillsTorn, OneWriter, OwnSeen, OwnPending, Named
<1>3. GrantNamed' /\ GrantApp'
  BY <1>0, <1>1 DEF LCore, GrantNamed, GrantApp, WonNamed, Named
<1>4. ReleasedFirst' /\ OnlyReleaseUnlinks' /\ WonNamed' /\ NothingLost'
  BY <1>0, <1>1 DEF LCore, ReleasedFirst, OnlyReleaseUnlinks, WonNamed, NothingLost, Named
<1>5. OneUp' /\ CallsUp' /\ GrantsUp'
  BY <1>0, <1>1 DEF LCore, OneUp, CallsUp, GrantsUp
<1>6. OwnerUp'
  BY <1>0, <1>1 DEF LCore, OwnerUp, Named, WonNamed
<1>7. ClearersOnlyUnlink' /\ ClearsStale'
  BY <1>0, <1>1 DEF LCore, ClearersOnlyUnlink, ClearsStale, Stale
<1> QED
  BY <1>2, <1>3, <1>4, <1>5, <1>6, <1>7 DEF LCore

(* Every step keeps LifeInv.                                               *)
LEMMA NextLife == OneLife /\ LifeInv /\ [Next]_vars => LifeInv'
<1> SUFFICES ASSUME OneLife, LifeInv, [Next]_vars PROVE LifeInv'
  OBVIOUS
<1>0. /\ call \in [Calls -> CallStates] /\ granted \in [Agents -> Apps \cup {None}]
      /\ Calls = Agents \cup Clearers /\ Agents \cap Clearers = {}
      /\ LCore /\ SlotAgent /\ \A p \in Apps : p # None
  BY ClientsAssumption, NoneAssumption DEF LifeInv, LCore, SlotsInv, TypeOK, LeaseTypeOK
<1>a. ASSUME \A d \in Calls : call'[d].pc = "idle", OneUp',
             \A b \in Agents : granted'[b] = None,
             \A d \in Agents : call'[d].op # "acquire" \/ call'[d].pc = "idle"
      PROVE  LCore'
  BY <1>0, <1>a
     DEF LCore, Named, Stale, FillsTorn, OneWriter, OwnSeen, OwnPending, GrantNamed,
          GrantApp, ReleasedFirst, OnlyReleaseUnlinks, WonNamed, NothingLost, OneUp, CallsUp,
          GrantsUp, OwnerUp, ClearersOnlyUnlink, ClearsStale
<1>1. ASSUME NEW p \in Apps, Start(p) PROVE LCore'
  <2>1. up = {}
    <3>1. ASSUME NEW q \in Apps, up = {q} PROVE FALSE
      <4>1. Cardinality(up) = 1
        BY <3>1, FS_Singleton
      <4> QED
        BY <1>1, <4>1 DEF Start, OneLife
    <3> QED
      BY <1>0, <3>1 DEF LCore, OneUp
  <2>2. up' = {p} /\ UNCHANGED <<file, call, granted>>
    BY <1>1, <2>1 DEF Start, Launch
  <2>3. (\A d \in Calls : call[d].pc = "idle") /\ \A b \in Agents : granted[b] = None
    BY <1>0, <2>1 DEF LCore, CallsUp, GrantsUp
  <2>4. OneUp'
    BY <2>2 DEF OneUp
  <2> QED
    BY <1>0, <1>a, <2>2, <2>3, <2>4
<1>2. ASSUME NEW p \in Apps, Crash(p) PROVE LCore'
  <2>1. \A d \in Calls : call'[d] = IF call[d].app = p THEN IdleCall ELSE call[d]
    BY <1>2 DEF Crash, Die
  <2>2. \A b \in Agents : granted'[b] = IF granted[b] = p THEN None ELSE granted[b]
    BY <1>2 DEF Crash
  <2>3. up = {p} /\ up' = {}
    BY <1>0, <1>2 DEF Crash, Die, LCore, OneUp
  <2>4. \A d \in Calls : call'[d].pc = "idle"
    BY <1>0, <2>1, <2>3 DEF LCore, CallsUp, IdleCall
  <2>5. \A b \in Agents : granted'[b] = None
    BY <1>0, <2>2, <2>3 DEF LCore, GrantsUp
  <2>6. OneUp'
    BY <2>3 DEF OneUp
  <2> QED
    BY <1>0, <1>a, <2>4, <2>5, <2>6
<1>3. ASSUME NEW a \in Agents, NEW p \in Apps, Acquire(a, p) PROVE LCore'
  <2>1. Named(a) => file.owner \in up
    BY <1>3 DEF Acquire, OneLife, Named, Stale
  <2> QED
    BY <1>0, <1>3, <2>1, BeginLife DEF Acquire, Ops
<1>4. ASSUME NEW a \in Agents, Heartbeat(a) PROVE LCore'
  <2>1. granted[a] \in Apps /\ (Named(a) => file.owner \in up)
    BY <1>0, <1>4 DEF Heartbeat, LCore, OwnerUp
  <2> QED
    BY <1>0, <1>4, <2>1, BeginLife DEF Heartbeat, Ops
<1>5. ASSUME NEW a \in Agents, Release(a) PROVE LCore'
  <2>1. granted[a] \in Apps /\ (Named(a) => file.owner \in up)
    BY <1>0, <1>5 DEF Release, LCore, OwnerUp
  <2>2. granted'[a] = None /\ \A b \in Agents : b # a => granted'[b] = granted[b]
    BY <1>0, <1>5 DEF Release
  <2> QED
    BY <1>0, <1>5, <2>1, <2>2, BeginLife DEF Release, Ops
<1>6. ASSUME NEW a \in Agents, Finish(a) PROVE LCore'
  <2>1. call'[a] = IdleCall /\ (\A d \in Calls : d # a => call'[d] = call[d]) /\ UNCHANGED <<file, up>>
    BY <1>0, <1>6 DEF Finish, Return
  <2>2. ~At(a, "fill")
    BY <1>6 DEF Finish, Return, Final
  <2>3. \A b \in Agents : b # a => granted'[b] = granted[b]
    BY <1>0, <1>6 DEF Finish
  <2>4. \/ call[a].op = "acquire" /\ At(a, "ok") /\ granted'[a] = call[a].app
        \/ granted'[a] = granted[a]
    BY <1>0, <1>6 DEF Finish
  <2> QED
    BY <1>0, <2>1, <2>2, <2>3, <2>4, IdleLife
<1>7. ASSUME NEW c \in Clearers, NEW p \in Apps, Clear(c, p) PROVE LCore'
  BY <1>0, <1>7, BeginLife DEF Clear, Ops
<1>8. ASSUME NEW c \in Clearers, FinishClear(c) PROVE LCore'
  <2>1. call'[c] = IdleCall /\ (\A d \in Calls : d # c => call'[d] = call[d])
        /\ UNCHANGED <<file, up, granted>>
    BY <1>0, <1>8 DEF FinishClear, Return
  <2> QED
    BY <1>0, <2>1, IdleLife
<1>9. ASSUME NEW c \in Calls, Step(c) PROVE LCore'
  BY <1>9, StepLife DEF Step
<1>10. ASSUME UNCHANGED vars PROVE LCore'
  BY <1>0, <1>10
     DEF vars, LCore, Named, Stale, FillsTorn, OneWriter, OwnSeen, OwnPending, GrantNamed,
          GrantApp, ReleasedFirst, OnlyReleaseUnlinks, WonNamed, NothingLost, OneUp, CallsUp,
          GrantsUp, OwnerUp, ClearersOnlyUnlink, ClearsStale
<1>11. LCore'
  BY <1>1, <1>2, <1>3, <1>4, <1>5, <1>6, <1>7, <1>8, <1>9, <1>10 DEF Next
<1>12. SlotsInv'
  BY NextSlots DEF LifeInv
<1> QED
  BY <1>11, <1>12 DEF LifeInv, LCore

(* The inductive invariant of one life and one request to clear at a time. *)
LEMMA LifeInductive == ASSUME OneLife PROVE Spec => []LifeInv
<1>1. LifeInv /\ [Next]_vars => LifeInv'
  BY NextLife
<1> QED
  BY <1>1, InitLife, PTL DEF Spec

(* Whoever has the lease has it alone, in memory and on disk, while the    *)
(* process dies and starts again at any step and stale leases are cleared, *)
(* one request at a time.                                                  *)
THEOREM ClearedHoldersAreAlone == ASSUME OneLife PROVE Spec => []HoldsAlone
<1>1. LifeInv => HoldsAlone
  BY OneHolder DEF LifeInv, HoldsAlone
<1> QED
  BY <1>1, LifeInductive, PTL

(* clearStale() removes the lease file only while no agent has the lease:  *)
(* the lease it read as stale is the one it unlinks, and its owner's grant *)
(* ended with the owner.                                                   *)
THEOREM OnlyDeadLeasesAreCleared == ASSUME OneLife PROVE Spec => ClearSparesLiving
<1>1. LifeInv /\ [Next]_vars => [\A c \in Clearers : Unlink(c) => Holders = {}]_vars
  BY ClearMeetsNobody DEF Unlink, Holders
<1> QED
  BY <1>1, LifeInductive, PTL DEF Spec, ClearSparesLiving

(* The files implement the promise with crashes and clear requests too.    *)
THEOREM ClearedRefinement == ASSUME OneLife PROVE Spec => Implements
<1>1. Init => Promise!Init
  BY DEF Init, Holders, Promise!Init
<1>2. LifeInv => SlotsInv /\ Exclusive
  BY OneHolder DEF LifeInv
<1>3. SlotsInv /\ Exclusive /\ Exclusive' /\ [Next]_vars => [Promise!Next]_Holders
  BY StepKeepsPromise
<1> QED
  BY <1>1, <1>2, <1>3, LifeInductive, PTL DEF Spec, Implements, Promise!Spec
=============================================================================
