--------------------------- MODULE PiLoginsProofs ---------------------------
(***************************************************************************)
(* Proofs about PiLogins: no helper is left behind, and no login that has  *)
(* completed is reported as failed, for any number of logins and messages. *)
(***************************************************************************)
EXTENDS PiLogins, TLAPS

(* What a helper writes and how it exits; what main knows of it.           *)
ProcessType ==
    /\ started \in Nat /\ active \in 0..started
    /\ helper \in [Logins -> {"none", "works", "asks", "gone"}]
    /\ stdout \in [Logins -> Seq({"prompt", "complete", "error"})]
    /\ exit \in [Logins -> {"none", "zero", "other"}]
    /\ timer \in [Logins -> BOOLEAN] /\ settled \in [Logins -> BOOLEAN]
    /\ stdin \in [Logins -> Seq({"answer", "stray", "cancel"})]
    /\ toDialog \in Seq(Replies)

(* A login that has not been started has no process.                       *)
Unborn ==
    \A r \in Logins : r > started =>
        helper[r] = "none" /\ stdout[r] = <<>> /\ exit[r] = "none" /\ ~timer[r]

Born == active # 0 => helper[active] # "none"

(* The last line and the exit are those of a helper that has gone; such a  *)
(* helper is not killed.                                                   *)
Leaving ==
    \A r \in Logins : helper[r] # "gone" =>
        /\ exit[r] = "none"
        /\ \A k \in DOMAIN stdout[r] : stdout[r][k] = "prompt"

Killed == \A r \in Logins : timer[r] => helper[r] \in {"works", "asks"}

(* A helper that says that it is complete exits with 0, and says no error. *)
Completes ==
    \A r \in Logins : (\E k \in DOMAIN stdout[r] : stdout[r][k] = "complete") =>
        /\ exit[r] # "other"
        /\ \A k \in DOMAIN stdout[r] : stdout[r][k] # "error"

LoginInv ==
    ProcessType /\ Unborn /\ Born /\ Leaving /\ Killed /\ Completes /\ NoHelperLeft

-----------------------------------------------------------------------------
LEMMA LoginInit == Init => LoginInv
BY LoginAssumption
   DEF Init, LoginInv, ProcessType, Unborn, Born, Leaving, Killed, Completes, NoHelperLeft, Logins

(* Reading a line takes it away; the others are as they were.              *)
LEMMA ReadLine ==
    ASSUME NEW s \in Seq({"prompt", "complete", "error"}), s # <<>>
    PROVE  /\ Head(s) = s[1] /\ 1 \in DOMAIN s
           /\ Tail(s) \in Seq({"prompt", "complete", "error"})
           /\ \A k \in DOMAIN Tail(s) : k + 1 \in DOMAIN s /\ Tail(s)[k] = s[k + 1]
OBVIOUS

LEMMA WriteLine ==
    ASSUME NEW s \in Seq({"prompt", "complete", "error"}),
           NEW line \in {"prompt", "complete", "error"}
    PROVE  /\ Append(s, line) \in Seq({"prompt", "complete", "error"})
           /\ \A k \in DOMAIN Append(s, line) :
                 \/ k \in DOMAIN s /\ Append(s, line)[k] = s[k]
                 \/ Append(s, line)[k] = line
<1>1. Append(s, line) \in Seq({"prompt", "complete", "error"})
  OBVIOUS
<1>2. DOMAIN s = 1..Len(s) /\ DOMAIN Append(s, line) = 1..(Len(s) + 1)
  OBVIOUS
<1>3. \A k \in 1..Len(s) : Append(s, line)[k] = s[k]
  OBVIOUS
<1>4. Append(s, line)[Len(s) + 1] = line
  OBVIOUS
<1>5. Len(s) \in Nat
  OBVIOUS
<1> QED
  BY <1>1, <1>2, <1>3, <1>4, <1>5

LEMMA StdinType ==
    ASSUME NEW r, NEW line \in {"answer", "stray", "cancel"}, ProcessType
    PROVE  WriteStdin(r, line) \in [Logins -> Seq({"answer", "stray", "cancel"})]
<1>1. CASE r \in Logins
  <2>1. Append(stdin[r], line) \in Seq({"answer", "stray", "cancel"})
    BY <1>1 DEF ProcessType
  <2> QED
    BY <1>1, <2>1 DEF WriteStdin, Write, ProcessType
<1>2. CASE r \notin Logins
  BY <1>2 DEF WriteStdin, Write, ProcessType
<1> QED
  BY <1>1, <1>2

LEMMA TellType ==
    ASSUME NEW r \in Logins, NEW kind \in {"started", "prompt", "complete", "error"},
           toDialog \in Seq(Replies), Tell([kind |-> kind, login |-> r])
    PROVE  toDialog' \in Seq(Replies) /\ toDialog'[Len(toDialog')].kind = kind
<1>1. [kind |-> kind, login |-> r] \in Replies
  BY DEF Replies
<1> QED
  BY <1>1 DEF Tell

(* finish() ends a login only when its helper has gone.                    *)
LEMMA FinishFacts ==
    ASSUME NEW r \in Logins, NEW kind \in {"complete", "error"}, ProcessType, Finish(r, kind)
    PROVE  /\ toDialog' \in Seq(Replies)
           /\ settled' \in [Logins -> BOOLEAN]
           /\ active' = active \/ (active = r /\ active' = 0)
           /\ \A s \in Logins : settled'[s] # settled[s] =>
                 s = r /\ toDialog'[Len(toDialog')].kind = kind
<1>1. CASE settled[r]
  BY <1>1 DEF Finish, ProcessType
<1>2. CASE ~settled[r]
  <2>1. toDialog' \in Seq(Replies) /\ toDialog'[Len(toDialog')].kind = kind
    BY <1>2, TellType DEF Finish, ProcessType
  <2> QED
    BY <1>2, <2>1 DEF Finish, ProcessType
<1> QED
  BY <1>1, <1>2
-----------------------------------------------------------------------------
(* What the renderer does, and what main does without a process.           *)
LEMMA UserKeeps ==
    ASSUME LoginInv, UserStep \/ Rerender \/ UNCHANGED vars
    PROVE  LoginInv'
BY DEF LoginInv, ProcessType, Unborn, Born, Leaving, Killed, Completes, NoHelperLeft, UserStep,
       Rerender, OpenDialog, StartAuthLogin, SubmitPrompt, CloseDialog, vars, processVars, mainVars

LEMMA MessageKeeps ==
    ASSUME LoginInv, Arrives \/ ListProviders
    PROVE  LoginInv'
<1>1. toDialog' \in Seq(Replies)
  <2>1. CASE Arrives
    BY <2>1 DEF LoginInv, ProcessType, Arrives
  <2>2. CASE ListProviders
    <3>1. [kind |-> "listed"] \in Replies
      BY DEF Replies
    <3> QED
      BY <2>2, <3>1 DEF LoginInv, ProcessType, ListProviders, Tell
  <2> QED
    BY <2>1, <2>2
<1>2. UNCHANGED <<helper, stdin, stdout, exit, started, active, timer, settled>>
  BY DEF Arrives, ListProviders, processVars, mainVars
<1> QED
  BY <1>1, <1>2 DEF LoginInv, ProcessType, Unborn, Born, Leaving, Killed, Completes, NoHelperLeft

(* startLogin(): the login before is cancelled, the new one is the active. *)
LEMMA StartKeeps ==
    ASSUME LoginInv, StartLogin
    PROVE  LoginInv'
<1> DEFINE r == started + 1
<1>1. r \in Logins /\ started' = r /\ active' = r /\ stdout' = stdout /\ settled' = settled
  BY LoginAssumption DEF StartLogin, Logins, LoginInv, ProcessType
<1>2. helper[r] = "none" /\ stdout[r] = <<>> /\ exit[r] = "none" /\ ~timer[r]
  BY <1>1 DEF LoginInv, Unborn, ProcessType
<1>3. toDialog' \in Seq(Replies)
  BY <1>1, TellType DEF StartLogin, LoginInv, ProcessType
<1>4. /\ stdin' \in [Logins -> Seq({"answer", "stray", "cancel"})]
      /\ timer' \in [Logins -> BOOLEAN]
      /\ \A s \in Logins : timer'[s] = IF s = active THEN helper[s] # "gone" ELSE timer[s]
  <2>1. CASE active = 0
    BY <2>1 DEF StartLogin, LoginInv, ProcessType, Logins
  <2>2. CASE active # 0
    <3>1. active \in Logins
      BY <2>2, <1>1, LoginAssumption DEF LoginInv, ProcessType, Logins
    <3>2. Cancel(active)
      BY <2>2 DEF StartLogin
    <3>3. stdin' \in [Logins -> Seq({"answer", "stray", "cancel"})]
      BY <3>1, <3>2, StdinType DEF LoginInv, Cancel
    <3> QED
      BY <3>1, <3>2, <3>3 DEF Cancel, LoginInv, ProcessType
  <2> QED
    BY <2>1, <2>2
<1>5. \/ helper' = [helper EXCEPT ![r] = "works"] /\ exit' = exit
      \/ helper' = [helper EXCEPT ![r] = "gone"] /\ exit' = [exit EXCEPT ![r] = "other"]
  BY DEF StartLogin
<1>6. ProcessType'
  <2>1. /\ helper' \in [Logins -> {"none", "works", "asks", "gone"}]
        /\ exit' \in [Logins -> {"none", "zero", "other"}]
    BY <1>5 DEF LoginInv, ProcessType
  <2>2. started' \in Nat /\ active' \in 0..started'
    BY <1>1 DEF LoginInv, ProcessType
  <2> QED
    BY <1>1, <1>3, <1>4, <2>1, <2>2 DEF LoginInv, ProcessType
<1>7. \A s \in Logins : s # r => helper'[s] = helper[s] /\ exit'[s] = exit[s]
  BY <1>1, <1>5 DEF LoginInv, ProcessType
<1>8. helper'[r] \in {"works", "gone"} /\ (helper'[r] # "gone" => exit'[r] = "none")
  BY <1>1, <1>2, <1>5 DEF LoginInv, ProcessType
<1>9. active # r
  BY <1>1 DEF LoginInv, ProcessType
<1>10. Unborn' /\ Born'
  BY <1>1, <1>2, <1>4, <1>7, <1>8, <1>9 DEF LoginInv, ProcessType, Unborn, Born, Logins
<1>11. Leaving' /\ Completes'
  BY <1>1, <1>2, <1>7, <1>8 DEF LoginInv, Leaving, Completes
<1>12. Killed'
  <2> SUFFICES ASSUME NEW s \in Logins, timer'[s] PROVE helper'[s] \in {"works", "asks"}
    BY DEF Killed
  <2>1. CASE s = active
    BY <2>1, <1>1, <1>4, <1>7, <1>9 DEF LoginInv, ProcessType, Born, Logins
  <2>2. CASE s # active
    BY <2>2, <1>1, <1>2, <1>4, <1>7 DEF LoginInv, Killed
  <2> QED
    BY <2>1, <2>2
<1>13. NoHelperLeft'
  BY <1>1, <1>2, <1>4, <1>7 DEF LoginInv, NoHelperLeft
<1> QED
  BY <1>6, <1>10, <1>11, <1>12, <1>13 DEF LoginInv
(* Answers and cancellations only write to a helper.                       *)
LEMMA AnswerKeeps ==
    ASSUME LoginInv, RespondPrompt
    PROVE  LoginInv'
<1> DEFINE m == Head(toMain)
<1>1. stdin' \in [Logins -> Seq({"answer", "stray", "cancel"})]
  <2>1. CASE active # m.login
    BY <2>1 DEF RespondPrompt, LoginInv, ProcessType
  <2>2. CASE active = m.login
    <3>1. PICK line \in {"answer", "stray", "cancel"} : stdin' = WriteStdin(m.login, line)
      BY <2>2 DEF RespondPrompt
    <3> QED
      BY <3>1, StdinType DEF LoginInv
  <2> QED
    BY <2>1, <2>2
<1>2. UNCHANGED <<helper, stdout, exit, started, active, timer, settled, toDialog>>
  BY DEF RespondPrompt, mainVars
<1> QED
  BY <1>1, <1>2 DEF LoginInv, ProcessType, Unborn, Born, Leaving, Killed, Completes, NoHelperLeft

LEMMA CancelKeeps ==
    ASSUME LoginInv, CancelLogin
    PROVE  LoginInv'
<1> DEFINE r == Head(toMain).login
<1>1. UNCHANGED <<helper, stdout, exit, started, settled, toDialog>>
  BY DEF CancelLogin
<1>2. CASE active # r
  <2>1. UNCHANGED <<active, stdin, timer>>
    BY <1>2 DEF CancelLogin
  <2> QED
    BY <1>1, <2>1
       DEF LoginInv, ProcessType, Unborn, Born, Leaving, Killed, Completes, NoHelperLeft
<1>3. CASE active = r
  <2>1. active' = 0 /\ Cancel(r)
    BY <1>3 DEF CancelLogin
  <2>2. stdin' \in [Logins -> Seq({"answer", "stray", "cancel"})]
    BY <2>1, StdinType DEF LoginInv, Cancel
  <2>3. /\ timer' \in [Logins -> BOOLEAN]
        /\ \A s \in Logins : timer'[s] = IF s = active THEN helper[s] # "gone" ELSE timer[s]
    BY <1>3, <2>1 DEF Cancel, LoginInv, ProcessType
  <2>4. ProcessType'
    BY <1>1, <2>1, <2>2, <2>3 DEF LoginInv, ProcessType
  <2>5. Unborn' /\ Born' /\ Leaving' /\ Completes'
    BY <1>1, <2>1, <2>3 DEF LoginInv, ProcessType, Unborn, Born, Leaving, Completes, Logins
  <2>6. Killed'
    BY <1>1, <2>3 DEF LoginInv, ProcessType, Killed, Born, Logins
  <2>7. NoHelperLeft'
    BY <1>1, <2>1, <2>3 DEF LoginInv, NoHelperLeft
  <2> QED
    BY <2>4, <2>5, <2>6, <2>7 DEF LoginInv
<1> QED
  BY <1>2, <1>3
-----------------------------------------------------------------------------
(* A line, an exit and a kill, as main sees them.                          *)
LEMMA ReadsKeep ==
    ASSUME LoginInv, NEW r \in Logins, Reads(r)
    PROVE  LoginInv'
<1> DEFINE line == Head(stdout[r])
<1>1. /\ stdout[r] \in Seq({"prompt", "complete", "error"}) /\ stdout[r] # <<>>
      /\ stdout' = [stdout EXCEPT ![r] = Tail(@)]
      /\ UNCHANGED <<helper, stdin, exit, started, timer>>
  BY DEF Reads, LoginInv, ProcessType
<1>2. /\ line = stdout[r][1] /\ 1 \in DOMAIN stdout[r]
      /\ stdout' \in [Logins -> Seq({"prompt", "complete", "error"})]
      /\ \A k \in DOMAIN stdout'[r] :
            k + 1 \in DOMAIN stdout[r] /\ stdout'[r][k] = stdout[r][k + 1]
      /\ \A s \in Logins : s # r => stdout'[s] = stdout[s]
  BY <1>1, ReadLine DEF LoginInv, ProcessType
<1>3. /\ toDialog' \in Seq(Replies) /\ settled' \in [Logins -> BOOLEAN]
      /\ active' = active \/ (active = r /\ active' = 0 /\ line # "prompt")
  <2>1. CASE line = "prompt"
    BY <2>1, TellType DEF Reads, LoginInv, ProcessType
  <2>2. CASE line # "prompt"
    <3>1. line \in {"complete", "error"}
      BY <2>2, <1>1
    <3>2. Finish(r, line)
      BY <2>2 DEF Reads
    <3> QED
      BY <2>2, <3>1, <3>2, FinishFacts DEF LoginInv
  <2> QED
    BY <2>1, <2>2
<1>4. line # "prompt" => helper[r] = "gone"
  BY <1>2 DEF LoginInv, Leaving
<1>5. ProcessType'
  BY <1>1, <1>2, <1>3 DEF LoginInv, ProcessType
<1>6. Unborn' /\ Born' /\ Killed'
  BY <1>1, <1>2, <1>3 DEF LoginInv, ProcessType, Unborn, Born, Killed
<1>7. Leaving' /\ Completes'
  BY <1>1, <1>2 DEF LoginInv, Leaving, Completes
<1>8. NoHelperLeft'
  BY <1>1, <1>3, <1>4 DEF LoginInv, NoHelperLeft
<1> QED
  BY <1>5, <1>6, <1>7, <1>8 DEF LoginInv

LEMMA ExitsKeep ==
    ASSUME LoginInv, NEW r \in Logins, Exits(r)
    PROVE  LoginInv'
<1>1. /\ exit[r] # "none" /\ exit' = [exit EXCEPT ![r] = "none"]
      /\ UNCHANGED <<helper, stdin, stdout, started, timer>>
  BY DEF Exits
<1>2. /\ toDialog' \in Seq(Replies) /\ settled' \in [Logins -> BOOLEAN]
      /\ active' = active \/ (active = r /\ active' = 0)
  <2>1. CASE exit[r] = "zero"
    BY <2>1 DEF Exits, LoginInv, ProcessType
  <2>2. CASE exit[r] # "zero"
    <3>1. Finish(r, "error")
      BY <2>2 DEF Exits
    <3> QED
      BY <3>1, FinishFacts DEF LoginInv
  <2> QED
    BY <2>1, <2>2
<1>3. helper[r] = "gone"
  BY <1>1 DEF LoginInv, Leaving
<1>4. ProcessType'
  <2>1. exit' \in [Logins -> {"none", "zero", "other"}]
    BY <1>1 DEF LoginInv, ProcessType
  <2>2. active' \in 0..started'
    BY <1>1, <1>2 DEF LoginInv, ProcessType
  <2> QED
    BY <1>1, <1>2, <2>1, <2>2 DEF LoginInv, ProcessType
<1>5. Unborn' /\ Born' /\ Killed'
  BY <1>1, <1>2 DEF LoginInv, ProcessType, Unborn, Born, Killed
<1>6. Leaving' /\ Completes'
  BY <1>1 DEF LoginInv, ProcessType, Leaving, Completes
<1>7. NoHelperLeft'
  BY <1>1, <1>2, <1>3 DEF LoginInv, NoHelperLeft
<1> QED
  BY <1>4, <1>5, <1>6, <1>7 DEF LoginInv

LEMMA KillKeeps ==
    ASSUME LoginInv, NEW r \in Logins, Kill(r)
    PROVE  LoginInv'
<1>1. /\ timer[r] /\ timer' = [timer EXCEPT ![r] = FALSE]
      /\ helper' = [helper EXCEPT ![r] = "gone"] /\ exit' = [exit EXCEPT ![r] = "other"]
      /\ stdin' = [stdin EXCEPT ![r] = <<>>]
      /\ UNCHANGED <<toDialog, stdout, started, active, settled>>
  BY DEF Kill
<1>2. /\ helper[r] \in {"works", "asks"}
      /\ \A k \in DOMAIN stdout[r] : stdout[r][k] = "prompt"
  BY <1>1 DEF LoginInv, Killed, Leaving
<1>3. ProcessType'
  BY <1>1 DEF LoginInv, ProcessType
<1>4. Unborn' /\ Born' /\ Killed'
  BY <1>1, <1>2 DEF LoginInv, ProcessType, Unborn, Born, Killed
<1>5. Leaving' /\ Completes'
  <2>1. \A s \in Logins : s # r => helper'[s] = helper[s] /\ exit'[s] = exit[s]
    BY <1>1 DEF LoginInv, ProcessType
  <2>2. helper'[r] = "gone"
    BY <1>1 DEF LoginInv, ProcessType
  <2>3. Leaving'
    BY <1>1, <2>1, <2>2 DEF LoginInv, Leaving
  <2>4. Completes'
    BY <1>1, <1>2, <2>1 DEF LoginInv, Completes
  <2> QED
    BY <2>3, <2>4
<1>6. NoHelperLeft'
  BY <1>1 DEF LoginInv, ProcessType, NoHelperLeft
<1> QED
  BY <1>3, <1>4, <1>5, <1>6 DEF LoginInv
-----------------------------------------------------------------------------
(* The helper.                                                             *)
LEMMA AsksKeep ==
    ASSUME LoginInv, NEW r \in Logins, HelperAsks(r)
    PROVE  LoginInv'
<1>1. /\ helper[r] = "works" /\ helper' = [helper EXCEPT ![r] = "asks"]
      /\ stdout' = [stdout EXCEPT ![r] = Append(@, "prompt")]
      /\ UNCHANGED <<toDialog, stdin, exit, started, active, timer, settled>>
  BY DEF HelperAsks, Write, mainVars
<1>2. /\ stdout' \in [Logins -> Seq({"prompt", "complete", "error"})]
      /\ \A s \in Logins : s # r => stdout'[s] = stdout[s]
      /\ \A k \in DOMAIN stdout'[r] :
            \/ k \in DOMAIN stdout[r] /\ stdout'[r][k] = stdout[r][k]
            \/ stdout'[r][k] = "prompt"
  <2>1. stdout[r] \in Seq({"prompt", "complete", "error"})
    BY DEF LoginInv, ProcessType
  <2>2. stdout'[r] = Append(stdout[r], "prompt")
    BY <1>1 DEF LoginInv, ProcessType
  <2> QED
    BY <1>1, <2>1, <2>2, WriteLine DEF LoginInv, ProcessType
<1>3. ProcessType'
  BY <1>1, <1>2 DEF LoginInv, ProcessType
<1>4. Unborn' /\ Born' /\ Killed' /\ NoHelperLeft'
  BY <1>1, <1>2 DEF LoginInv, ProcessType, Unborn, Born, Killed, NoHelperLeft
<1>5. Leaving' /\ Completes'
  <2>1. helper[r] # "gone" /\ \A s \in Logins : s # r => helper'[s] = helper[s]
    BY <1>1 DEF LoginInv, ProcessType
  <2>2. Leaving'
    BY <1>1, <1>2, <2>1 DEF LoginInv, Leaving
  <2>3. Completes'
    BY <1>1, <1>2, <2>1 DEF LoginInv, Leaving, Completes
  <2> QED
    BY <2>2, <2>3
<1> QED
  BY <1>3, <1>4, <1>5 DEF LoginInv

(* A helper that leaves writes its last line, and is not killed any more.  *)
LEMMA LeavesKeep ==
    ASSUME LoginInv, NEW r \in Logins, helper[r] \in {"works", "asks"},
           NEW line \in {"none", "complete", "error"}, NEW code \in {"zero", "other"},
           line = "complete" => code = "zero",
           Leaves(r, line, code), UNCHANGED <<toDialog, started, active, settled>>
    PROVE  LoginInv'
<1>1. /\ helper' = [helper EXCEPT ![r] = "gone"] /\ exit' = [exit EXCEPT ![r] = code]
      /\ stdin' = [stdin EXCEPT ![r] = <<>>] /\ timer' = [timer EXCEPT ![r] = FALSE]
  BY DEF Leaves
<1>2. \A k \in DOMAIN stdout[r] : stdout[r][k] = "prompt"
  BY DEF LoginInv, Leaving
<1>3. /\ stdout' \in [Logins -> Seq({"prompt", "complete", "error"})]
      /\ \A s \in Logins : s # r => stdout'[s] = stdout[s]
      /\ \A k \in DOMAIN stdout'[r] :
            \/ k \in DOMAIN stdout[r] /\ stdout'[r][k] = stdout[r][k]
            \/ stdout'[r][k] = line
  <2>1. CASE line = "none"
    BY <2>1 DEF Leaves, LoginInv, ProcessType
  <2>2. CASE line # "none"
    <3>1. stdout' = [stdout EXCEPT ![r] = Append(@, line)]
      BY <2>2 DEF Leaves, Write
    <3>2. stdout'[r] = Append(stdout[r], line) /\ line \in {"prompt", "complete", "error"}
      BY <2>2, <3>1 DEF LoginInv, ProcessType
    <3>3. stdout[r] \in Seq({"prompt", "complete", "error"})
      BY DEF LoginInv, ProcessType
    <3> QED
      BY <3>1, <3>2, <3>3, WriteLine DEF LoginInv, ProcessType
  <2> QED
    BY <2>1, <2>2
<1>4. ProcessType'
  <2>1. /\ helper' \in [Logins -> {"none", "works", "asks", "gone"}]
        /\ exit' \in [Logins -> {"none", "zero", "other"}]
        /\ timer' \in [Logins -> BOOLEAN]
        /\ stdin' \in [Logins -> Seq({"answer", "stray", "cancel"})]
    BY <1>1 DEF LoginInv, ProcessType
  <2> QED
    BY <1>3, <2>1 DEF LoginInv, ProcessType
<1>5. /\ helper'[r] = "gone" /\ exit'[r] = code /\ ~timer'[r]
      /\ \A s \in Logins : s # r =>
            helper'[s] = helper[s] /\ exit'[s] = exit[s] /\ timer'[s] = timer[s]
  BY <1>1 DEF LoginInv, ProcessType
<1>6. Unborn' /\ Born'
  <2>1. ~(r > started)
    BY DEF LoginInv, Unborn
  <2>2. Unborn'
    BY <1>3, <1>5, <2>1 DEF LoginInv, Unborn
  <2>3. Born'
    <3>1. CASE active = r
      BY <1>5, <3>1 DEF Born
    <3>2. CASE active # r
      BY <1>1, <3>2 DEF LoginInv, ProcessType, Born
    <3> QED
      BY <3>1, <3>2
  <2> QED
    BY <2>2, <2>3
<1>7. Killed' /\ NoHelperLeft'
  BY <1>5 DEF LoginInv, Killed, NoHelperLeft
<1>8. Leaving'
  BY <1>3, <1>5 DEF LoginInv, Leaving
<1>9. Completes'
  BY <1>2, <1>3, <1>5 DEF LoginInv, Completes
<1> QED
  BY <1>4, <1>6, <1>7, <1>8, <1>9 DEF LoginInv

LEMMA HearsKeep ==
    ASSUME LoginInv, NEW r \in Logins, HelperHears(r)
    PROVE  LoginInv'
<1> DEFINE taken == [stdin EXCEPT ![r] = Tail(@)]
<1>1. taken \in [Logins -> Seq({"answer", "stray", "cancel"})]
  <2>1. stdin[r] # <<>> /\ stdin[r] \in Seq({"answer", "stray", "cancel"})
    BY DEF HelperHears, LoginInv, ProcessType
  <2>2. Tail(stdin[r]) \in Seq({"answer", "stray", "cancel"})
    BY <2>1
  <2> QED
    BY <2>2 DEF LoginInv, ProcessType
<1>2. UNCHANGED <<toDialog, started, active, settled>>
  BY DEF HelperHears
<1>3. CASE helper[r] = "asks" /\ Leaves(r, "error", "other")
  BY <1>2, <1>3, LeavesKeep
<1>4. CASE stdin' = taken /\ UNCHANGED <<helper, stdout, exit, timer>>
  <2>1. ProcessType'
    BY <1>1, <1>2, <1>4 DEF LoginInv, ProcessType
  <2> QED
    BY <2>1, <1>2, <1>4 DEF LoginInv, Unborn, Born, Leaving, Killed, Completes, NoHelperLeft
<1>5. CASE /\ helper[r] = "asks" /\ stdin' = taken
           /\ helper' = [helper EXCEPT ![r] = "works"] /\ UNCHANGED <<stdout, exit, timer>>
  <2>1. ProcessType'
    BY <1>1, <1>2, <1>5 DEF LoginInv, ProcessType
  <2> QED
    BY <2>1, <1>2, <1>5
       DEF LoginInv, ProcessType, Unborn, Born, Leaving, Killed, Completes, NoHelperLeft
<1> QED
  BY <1>3, <1>4, <1>5 DEF HelperHears

LEMMA EndsKeep ==
    ASSUME LoginInv, NEW r \in Logins, HelperEnds(r)
    PROVE  LoginInv'
<1>1. UNCHANGED <<toDialog, started, active, settled>>
  BY DEF HelperEnds
<1>2. CASE helper[r] = "works" /\ Leaves(r, "complete", "zero")
  BY <1>1, <1>2, LeavesKeep
<1>3. CASE helper[r] = "works" /\ Leaves(r, "error", "other")
  BY <1>1, <1>3, LeavesKeep
<1>4. CASE helper[r] \in {"works", "asks"} /\ Leaves(r, "none", "other")
  BY <1>1, <1>4, LeavesKeep
<1> QED
  BY <1>2, <1>3, <1>4 DEF HelperEnds

-----------------------------------------------------------------------------
LEMMA LoginStep == LoginInv /\ [Next]_vars => LoginInv'
<1> SUFFICES ASSUME LoginInv, [Next]_vars PROVE LoginInv'
  OBVIOUS
<1>1. CASE UserStep \/ Rerender \/ UNCHANGED vars
  BY <1>1, UserKeeps
<1>2. CASE Arrives
  BY <1>2, MessageKeeps
<1>3. CASE RequestStep
  BY <1>3, MessageKeeps, StartKeeps, AnswerKeeps, CancelKeeps DEF RequestStep
<1>4. CASE HelperStep
  BY <1>4, AsksKeep, HearsKeep, EndsKeep DEF HelperStep
<1>5. ASSUME NEW r \in Logins, EventStep(r) PROVE LoginInv'
  BY <1>5, ReadsKeep, ExitsKeep, KillKeeps DEF EventStep
<1> QED
  BY <1>1, <1>2, <1>3, <1>4, <1>5 DEF Next

(* What main knows of a login agrees with what its helper does.            *)
THEOREM LoginInvariant == Spec => []LoginInv
<1> QED
  BY LoginInit, LoginStep, PTL DEF Spec

(* A helper that still runs is the active login's, or about to be killed.  *)
THEOREM NobodyLeftBehind == Spec => []NoHelperLeft
<1>1. LoginInv => NoHelperLeft
  BY DEF LoginInv
<1> QED
  BY <1>1, LoginInvariant, PTL

(* A login that is complete is never reported as failed, whichever of its  *)
(* last line and its exit is seen first.                                   *)
THEOREM SuccessIsNoFailure == Spec => NoFalseFailure
<1> DEFINE Told(r) ==
        settled'[r] # settled[r] /\ toDialog'[Len(toDialog')].kind = "error" =>
            \A k \in DOMAIN stdout[r] : stdout[r][k] # "complete"
<1>1. LoginInv /\ [Next]_vars => [\A r \in Logins : Told(r)]_vars
  <2> SUFFICES ASSUME LoginInv, [Next]_vars, NEW r \in Logins,
                      settled'[r] # settled[r], toDialog'[Len(toDialog')].kind = "error"
               PROVE  \A k \in DOMAIN stdout[r] : stdout[r][k] # "complete"
    OBVIOUS
  <2>1. PICK s \in Logins : Reads(s) \/ Exits(s)
    BY DEF Next, UserStep, Rerender, OpenDialog, StartAuthLogin, SubmitPrompt, CloseDialog,
           Arrives, RequestStep, ListProviders, StartLogin, RespondPrompt, CancelLogin, HelperStep,
           HelperAsks, HelperHears, HelperEnds, EventStep, Kill, mainVars, vars
  <2>2. CASE Reads(s)
    <3>1. stdout[s] \in Seq({"prompt", "complete", "error"}) /\ stdout[s] # <<>>
      BY <2>2 DEF Reads, LoginInv, ProcessType
    <3>2. Head(stdout[s]) # "prompt" /\ Finish(s, Head(stdout[s]))
      BY <2>2 DEF Reads
    <3>3. Head(stdout[s]) \in {"complete", "error"}
      BY <3>1, <3>2
    <3>4. s = r /\ Head(stdout[s]) = "error"
      BY <3>2, <3>3, FinishFacts DEF LoginInv
    <3> QED
      BY <3>1, <3>4, ReadLine DEF LoginInv, Completes
  <2>3. CASE Exits(s)
    <3>1. exit[s] # "none" /\ exit[s] # "zero" /\ Finish(s, "error")
      BY <2>3 DEF Exits
    <3>2. s = r /\ exit[s] = "other"
      BY <3>1, FinishFacts DEF LoginInv, ProcessType
    <3> QED
      BY <3>2 DEF LoginInv, Completes
  <2> QED
    BY <2>1, <2>2, <2>3
<1> QED
  BY <1>1, LoginInvariant, PTL DEF Spec, NoFalseFailure
=============================================================================
