------------------------------ MODULE PiLogins ------------------------------
(***************************************************************************)
(* Logging in to a provider: the dialog of the renderer, PiAuthManager in  *)
(* the main process (codepiddy-desktop/src/main/pi-auth.ts), and the       *)
(* helper process that it spawns for each login.                           *)
(*                                                                         *)
(* Abstracted: providers and methods; the progress a helper reports; the   *)
(* helpers that only list or log out.  resolvePackageDir() awaits nothing, *)
(* so startLogin() is one step.                                            *)
(***************************************************************************)
EXTENDS Naturals, Sequences

CONSTANTS
    MaxLogins,  \* bound: logins started
    MaxQueue    \* bound: messages under way when the user does something

ASSUME LoginAssumption == MaxLogins \in Nat /\ MaxQueue \in Nat

VARIABLES
    dialog,     \* the state of the renderer's dialog
    toMain,     \* requests on their way to the main process
    toDialog,   \* replies and events on their way to the renderer
    started,    \* number of logins started
    active,     \* the active login, or 0
    helper,     \* helper[r] : the process
    stdin,      \* stdin[r] : lines written to it
    stdout,     \* stdout[r] : lines written by it
    exit,       \* exit[r] : the exit (or spawn error) not yet reported
    timer,      \* timer[r] : the helper is to be killed
    settled,    \* settled[r] : the login has completed or failed
    missed      \* history: logins whose outcome came when nobody listened

dialogVars == <<dialog, toMain>>
processVars == <<helper, stdin, stdout, exit>>
mainVars == <<started, active, timer, settled>>
vars == <<dialogVars, toDialog, processVars, mainVars, missed>>

Logins == 1..MaxLogins
Requests == [kind : {"list", "start"}]
            \cup [kind : {"cancel"}, login : Logins]
            \cup [kind : {"respond"}, login : Logins, asker : Logins]
Replies == [kind : {"listed"}]
           \cup [kind : {"started", "prompt", "complete", "error"}, login : Logins]

TypeOK ==
    /\ dialog \in [open : BOOLEAN, busy : BOOLEAN, shown : 0..MaxLogins,
                   prompt : 0..MaxLogins, hears : 0..MaxLogins]
    /\ toMain \in Seq(Requests) /\ toDialog \in Seq(Replies)
    /\ started \in 0..MaxLogins /\ active \in 0..MaxLogins
    /\ helper \in [Logins -> {"none", "works", "asks", "gone"}]
    /\ stdin \in [Logins -> Seq({"answer", "stray", "cancel"})]
    /\ stdout \in [Logins -> Seq({"prompt", "complete", "error"})]
    /\ exit \in [Logins -> {"none", "zero", "other"}]
    /\ timer \in [Logins -> BOOLEAN] /\ settled \in [Logins -> BOOLEAN]
    /\ missed \subseteq Logins

Init ==
    /\ dialog = [open |-> FALSE, busy |-> FALSE, shown |-> 0, prompt |-> 0, hears |-> 0]
    /\ toMain = <<>> /\ toDialog = <<>>
    /\ started = 0 /\ active = 0
    /\ helper = [r \in Logins |-> "none"]
    /\ stdin = [r \in Logins |-> <<>>] /\ stdout = [r \in Logins |-> <<>>]
    /\ exit = [r \in Logins |-> "none"]
    /\ timer = [r \in Logins |-> FALSE] /\ settled = [r \in Logins |-> FALSE]
    /\ missed = {}

UnderWay == Len(toMain) + Len(toDialog)
Send(req) == toMain' = Append(toMain, req)
Tell(reply) == toDialog' = Append(toDialog, reply)

-----------------------------------------------------------------------------
(* The dialog, and what the user does with it: the user sees, and acts on, *)
(* what React has rendered, and its listener hears the login of that.      *)
Listens == IF dialog.open THEN dialog.shown ELSE 0
Rendered == dialog.hears = Listens

OpenDialog ==
    /\ Rendered /\ ~dialog.open /\ UnderWay < MaxQueue
    /\ dialog' = [dialog EXCEPT !.open = TRUE, !.busy = TRUE, !.shown = 0, !.prompt = 0]
    /\ Send([kind |-> "list"])
    /\ UNCHANGED <<toDialog, processVars, mainVars, missed>>

(* The button is there when no login is shown.                             *)
StartAuthLogin ==
    /\ Rendered /\ dialog.open /\ ~dialog.busy /\ dialog.shown = 0
    /\ started < MaxLogins /\ UnderWay < MaxQueue
    /\ dialog' = [dialog EXCEPT !.busy = TRUE]
    /\ Send([kind |-> "start"])
    /\ UNCHANGED <<toDialog, processVars, mainVars, missed>>

(* The reply to an answer changes no more than to hide the prompt.         *)
SubmitPrompt ==
    /\ Rendered /\ dialog.open /\ ~dialog.busy /\ dialog.shown # 0 /\ dialog.prompt # 0
    /\ UnderWay < MaxQueue
    /\ dialog' = [dialog EXCEPT !.prompt = 0]
    /\ Send([kind |-> "respond", login |-> dialog.shown, asker |-> dialog.prompt])
    /\ UNCHANGED <<toDialog, processVars, mainVars, missed>>

(* A login that has been asked for and is not yet shown is not cancelled.  *)
CloseDialog ==
    /\ Rendered /\ dialog.open /\ UnderWay < MaxQueue
    /\ dialog' = [dialog EXCEPT !.open = FALSE, !.shown = 0, !.prompt = 0]
    /\ IF dialog.shown # 0 THEN Send([kind |-> "cancel", login |-> dialog.shown])
                           ELSE UNCHANGED toMain
    /\ UNCHANGED <<toDialog, processVars, mainVars, missed>>

(* React renders, and subscribes the listener again.                       *)
Rerender ==
    /\ ~Rendered
    /\ dialog' = [dialog EXCEPT !.hears = Listens]
    /\ UNCHANGED <<toMain, toDialog, processVars, mainVars, missed>>

(* The next reply or event arrives in the renderer.                        *)
Arrives ==
    /\ toDialog # <<>> /\ toDialog' = Tail(toDialog)
    /\ LET m == Head(toDialog) IN
       \/ /\ m.kind = "listed"
          /\ dialog' = [dialog EXCEPT !.busy = FALSE] /\ UNCHANGED missed
       \/ /\ m.kind = "started"
          /\ dialog' = [dialog EXCEPT !.busy = FALSE, !.shown = m.login] /\ UNCHANGED missed
       \/ /\ m.kind = "prompt"
          /\ dialog' = IF dialog.hears = m.login THEN [dialog EXCEPT !.prompt = m.login] ELSE dialog
          /\ UNCHANGED missed
       \/ /\ m.kind \in {"complete", "error"} /\ dialog.hears = m.login
          /\ dialog' = [dialog EXCEPT !.shown = 0, !.prompt = 0] /\ UNCHANGED missed
       \/ /\ m.kind \in {"complete", "error"} /\ dialog.hears # m.login
          /\ missed' = missed \cup {m.login} /\ UNCHANGED dialog
    /\ UNCHANGED <<toMain, processVars, mainVars>>

-----------------------------------------------------------------------------
(* PiAuthManager.                                                          *)

Write(out, r, line) == [out EXCEPT ![r] = Append(@, line)]
(* What is written to a helper that has gone is lost.                      *)
WriteStdin(r, line) == IF helper[r] = "gone" THEN stdin ELSE Write(stdin, r, line)
(* cancel(): kill() of a helper that has gone does nothing.                *)
Cancel(r) ==
    /\ stdin' = WriteStdin(r, "cancel")
    /\ timer' = [timer EXCEPT ![r] = helper[r] # "gone"]
Asked(kind) == toMain # <<>> /\ Head(toMain).kind = kind /\ toMain' = Tail(toMain)

(* listProviders() and its reply.                                          *)
ListProviders ==
    /\ Asked("list") /\ Tell([kind |-> "listed"])
    /\ UNCHANGED <<dialog, processVars, mainVars, missed>>

(* Mutant: startLogin() without cancel().                                  *)
StartBeside ==
    /\ Asked("start") /\ started < MaxLogins
    /\ LET r == started + 1 IN
       /\ started' = r /\ active' = r
       /\ Tell([kind |-> "started", login |-> r])
       /\ UNCHANGED <<stdin, timer>>
       /\ \/ helper' = [helper EXCEPT ![r] = "works"] /\ UNCHANGED exit
          \/ helper' = [helper EXCEPT ![r] = "gone"] /\ exit' = [exit EXCEPT ![r] = "other"]
    /\ UNCHANGED <<dialog, stdout, settled, missed>>

(* startLogin(): cancel(), and a new helper; spawn() may fail, which is    *)
(* reported later on.                                                      *)
StartLogin ==
    /\ Asked("start") /\ started < MaxLogins
    /\ LET r == started + 1 IN
       /\ started' = r /\ active' = r
       /\ Tell([kind |-> "started", login |-> r])
       /\ IF active = 0 THEN UNCHANGED <<stdin, timer>> ELSE Cancel(active)
       /\ \/ helper' = [helper EXCEPT ![r] = "works"] /\ UNCHANGED exit
          \/ helper' = [helper EXCEPT ![r] = "gone"] /\ exit' = [exit EXCEPT ![r] = "other"]
    /\ UNCHANGED <<dialog, stdout, settled, missed>>

(* An answer for a login that is not the active one is dropped; one to the *)
(* prompt of an earlier login is written, with the id of that prompt.      *)
RespondPrompt ==
    /\ Asked("respond")
    /\ LET m == Head(toMain) IN
       stdin' = IF active # m.login THEN stdin
                ELSE WriteStdin(m.login, IF m.asker = m.login THEN "answer" ELSE "stray")
    /\ UNCHANGED <<dialog, toDialog, helper, stdout, exit, mainVars, missed>>

CancelLogin ==
    /\ Asked("cancel")
    /\ LET r == Head(toMain).login IN
       IF active = r THEN active' = 0 /\ Cancel(r) ELSE UNCHANGED <<active, stdin, timer>>
    /\ UNCHANGED <<dialog, toDialog, helper, stdout, exit, started, settled, missed>>

(* finish().                                                               *)
Finish(r, kind) ==
    IF settled[r] THEN UNCHANGED <<settled, toDialog, active>>
    ELSE /\ settled' = [settled EXCEPT ![r] = TRUE]
         /\ Tell([kind |-> kind, login |-> r])
         /\ active' = IF active = r THEN 0 ELSE active

(* The next line of a helper is read.                                      *)
Reads(r) ==
    /\ stdout[r] # <<>> /\ stdout' = [stdout EXCEPT ![r] = Tail(@)]
    /\ \/ /\ Head(stdout[r]) = "prompt" /\ Tell([kind |-> "prompt", login |-> r])
          /\ UNCHANGED <<settled, active>>
       \/ Head(stdout[r]) # "prompt" /\ Finish(r, Head(stdout[r]))
    /\ UNCHANGED <<dialogVars, helper, stdin, exit, started, timer, missed>>

(* Mutant: the exit of a helper is not looked at.                          *)
ExitIgnored(r) ==
    /\ exit[r] # "none" /\ exit' = [exit EXCEPT ![r] = "none"]
    /\ UNCHANGED <<dialogVars, toDialog, helper, stdin, stdout, mainVars, missed>>

(* Mutant: every exit before the last line has been read is a failure.     *)
EveryExitFails(r) ==
    /\ exit[r] # "none" /\ exit' = [exit EXCEPT ![r] = "none"]
    /\ Finish(r, "error")
    /\ UNCHANGED <<dialogVars, helper, stdin, stdout, started, timer, missed>>

(* The exit, or the error of spawn(), may be reported before the last line *)
(* has been read.                                                          *)
Exits(r) ==
    /\ exit[r] # "none" /\ exit' = [exit EXCEPT ![r] = "none"]
    /\ IF exit[r] = "zero" THEN UNCHANGED <<settled, toDialog, active>> ELSE Finish(r, "error")
    /\ UNCHANGED <<dialogVars, helper, stdin, stdout, started, timer, missed>>

(* 250 ms after cancel().                                                  *)
Kill(r) ==
    /\ timer[r] /\ timer' = [timer EXCEPT ![r] = FALSE]
    /\ helper' = [helper EXCEPT ![r] = "gone"] /\ exit' = [exit EXCEPT ![r] = "other"]
    /\ stdin' = [stdin EXCEPT ![r] = <<>>]
    /\ UNCHANGED <<dialogVars, toDialog, stdout, started, active, settled, missed>>

-----------------------------------------------------------------------------
(* The helper (scripts/pi-auth-helper.mjs).                                *)

HelperAsks(r) ==
    /\ helper[r] = "works" /\ helper' = [helper EXCEPT ![r] = "asks"]
    /\ stdout' = Write(stdout, r, "prompt")
    /\ UNCHANGED <<dialogVars, toDialog, stdin, exit, mainVars, missed>>

Leaves(r, line, code) ==
    /\ helper' = [helper EXCEPT ![r] = "gone"] /\ exit' = [exit EXCEPT ![r] = code]
    /\ stdin' = [stdin EXCEPT ![r] = <<>>] /\ timer' = [timer EXCEPT ![r] = FALSE]
    /\ stdout' = IF line = "none" THEN stdout ELSE Write(stdout, r, line)

(* The next line of its input; a prompt that is cancelled fails the login. *)
HelperHears(r) ==
    /\ stdin[r] # <<>>
    /\ LET line == Head(stdin[r])
           taken == [stdin EXCEPT ![r] = Tail(@)]
       IN  \/ /\ helper[r] = "asks" /\ line = "answer" /\ stdin' = taken
              /\ helper' = [helper EXCEPT ![r] = "works"] /\ UNCHANGED <<stdout, exit, timer>>
           \/ helper[r] = "asks" /\ line = "cancel" /\ Leaves(r, "error", "other")
           \/ /\ helper[r] = "works" \/ line = "stray"
              /\ stdin' = taken /\ UNCHANGED <<helper, stdout, exit, timer>>
    /\ UNCHANGED <<dialogVars, toDialog, started, active, settled, missed>>

(* login() returns or throws, also because of the signal; or it crashes.   *)
HelperEnds(r) ==
    /\ \/ helper[r] = "works" /\ Leaves(r, "complete", "zero")
       \/ helper[r] = "works" /\ Leaves(r, "error", "other")
       \/ helper[r] \in {"works", "asks"} /\ Leaves(r, "none", "other")
    /\ UNCHANGED <<dialogVars, toDialog, started, active, settled, missed>>

-----------------------------------------------------------------------------
UserStep == OpenDialog \/ StartAuthLogin \/ SubmitPrompt \/ CloseDialog
RequestStep == ListProviders \/ StartLogin \/ RespondPrompt \/ CancelLogin
HelperStep == \E r \in Logins : HelperAsks(r) \/ HelperHears(r) \/ HelperEnds(r)
EventStep(r) == Reads(r) \/ Exits(r) \/ Kill(r)

Next ==
    \/ UserStep \/ Rerender \/ Arrives \/ RequestStep \/ HelperStep
    \/ \E r \in Logins : EventStep(r)

(* The event loops of both processes go on; neither the user nor the       *)
(* provider needs to do anything.                                          *)
Fairness ==
    /\ WF_vars(Rerender) /\ WF_vars(Arrives) /\ WF_vars(RequestStep)
    /\ \A r \in Logins : WF_vars(Reads(r)) /\ WF_vars(Exits(r)) /\ WF_vars(Kill(r))

Spec == Init /\ [][Next]_vars /\ Fairness

-----------------------------------------------------------------------------
(* Properties.                                                             *)

(* A helper that still runs is the active login's, whom a cancel reaches,  *)
(* or it is about to be killed: no start and no close leaves one behind    *)
(* (startLogin(), cancel() and finish()).                                  *)
NoHelperLeft == \A r \in Logins : helper[r] \in {"works", "asks"} => active = r \/ timer[r]

(* A login whose helper has said that it is complete is not reported as    *)
(* failed, in whatever order its last line and its exit are seen (exit is  *)
(* a failure only when its code is not 0).                                 *)
NoFalseFailure ==
    [][\A r \in Logins :
          settled'[r] # settled[r] /\ toDialog'[Len(toDialog')].kind = "error" =>
              \A k \in DOMAIN stdout[r] : stdout[r][k] # "complete"]_vars

(* The dialog shows a login whose helper has gone.                         *)
ShowsGone ==
    /\ dialog.open /\ dialog.shown # 0
    /\ helper[dialog.shown] = "gone" /\ dialog.shown \notin missed

(* A dialog does not go on showing a login whose helper has gone, however  *)
(* it ended and in whatever order its last line and its exit are reported, *)
(* unless the news arrived before React had subscribed the dialog.         *)
DialogLearns == []<>(~ShowsGone)
=============================================================================
