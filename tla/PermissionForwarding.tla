------------------------ MODULE PermissionForwarding ------------------------
(***************************************************************************)
(* Permission forwarding (codepiddy-permission-extension/src/index.ts): a  *)
(* subagent without a UI asks the user of its parent session for a         *)
(* permission through files.  It writes <session>/requests/<id>.json and   *)
(* waits for <session>/responses/<id>.json; the parent scans the requests, *)
(* shows a dialog for each and writes the response.  The subagents are     *)
(* processes of their own, so the system calls of several interleave.      *)
(*                                                                         *)
(* Abstracted: a request is named by its subagent, which asks once;        *)
(* writeJsonFileAtomic (a temporary file, renamed) is one step; files that *)
(* neither side wrote, automatic approval, the reason of a denial.  A      *)
(* session that was shut down is not opened again.                         *)
(***************************************************************************)
EXTENDS Naturals

CONSTANTS
    Subagents,  \* the subagents, and their requests
    Mortal,     \* the subagents that may be killed while they wait
    Scans,      \* slots for processForwardedPermissionRequests() calls
    MaxListens, \* bound: calls of startForwardedPermissionPolling()
    None        \* no subagent

ASSUME ForwardingAssumption ==
    /\ None \notin Subagents
    /\ Mortal \subseteq Subagents
    /\ MaxListens \in Nat

VARIABLES
    dirs,       \* the directories of the session that exist
    requests,   \* request files, by the subagent that wrote them
    responses,  \* responses[r] : the response file of request r
    subagent,   \* subagent[r] : where subagent r is, and at which directory
    result,     \* result[r] : the decision subagent r goes on with
    expired,    \* requests older than PERMISSION_FORWARDING_TIMEOUT_MS
    session,    \* the session of the parent: permissionForwardingContext
    listens,    \* calls of startForwardedPermissionPolling() so far
    processing, \* isProcessingForwardedRequests
    again,      \* pendingForwardedRequestScan
    scan,       \* scan[s] : a scan of the request files
    answers     \* history: answers[r] : what the user said to request r

files == <<dirs, requests, responses>>
subagents == <<subagent, result, expired>>
scanning == <<processing, again, scan>>
vars == <<files, subagents, session, listens, scanning, answers>>

(* mkdir makes the root first; the clean-up removes the root last.         *)
Dirs == {"requests", "responses", "root"}
MakeOrder == <<"root", "requests", "responses">>
RemoveOrder == <<"requests", "responses", "root">>

Decisions == {"yes", "no"}
Idle == [pc |-> "idle", listed |-> {}, todo |-> {}, cur |-> None, decision |-> "no"]

SubagentStates ==
    [pc : {"make", "write", "wait", "found", "remove", "done", "killed"}, n : 1..3]
ScanStates ==
    [pc : {"idle", "pick", "ask", "write", "delete"}, listed : SUBSET Subagents,
     todo : SUBSET Subagents, cur : Subagents \cup {None}, decision : Decisions]

TypeOK ==
    /\ dirs \subseteq Dirs
    /\ requests \subseteq Subagents
    /\ responses \in [Subagents -> Decisions \cup {"none"}]
    /\ subagent \in [Subagents -> SubagentStates]
    /\ result \in [Subagents -> Decisions \cup {"none"}]
    /\ expired \subseteq Subagents
    /\ session \in {"new", "open", "closed"}
    /\ listens \in 0..MaxListens
    /\ processing \in BOOLEAN /\ again \in BOOLEAN
    /\ scan \in [Scans -> ScanStates]
    /\ answers \in [Subagents -> SUBSET Decisions]

Init ==
    /\ dirs = {} /\ requests = {}
    /\ responses = [r \in Subagents |-> "none"]
    /\ subagent = [r \in Subagents |-> [pc |-> "make", n |-> 1]]
    /\ result = [r \in Subagents |-> "none"]
    /\ expired = {}
    /\ session = "new" /\ listens = 0
    /\ processing = FALSE /\ again = FALSE
    /\ scan = [s \in Scans |-> Idle]
    /\ answers = [r \in Subagents |-> {}]

-----------------------------------------------------------------------------
(* A subagent asks: waitForForwardedPermissionApproval().                  *)
At(r, pc) == subagent[r].pc = pc
Goto(r, pc) == subagent' = [subagent EXCEPT ![r] = [pc |-> pc, n |-> 1]]
Decide(r, d) == result' = [result EXCEPT ![r] = d]

(* One mkdir (recursive, so it makes the root again if that is gone).      *)
MakeDir(r) ==
    /\ At(r, "make")
    /\ dirs' = dirs \cup {"root", MakeOrder[subagent[r].n]}
    /\ IF subagent[r].n < 3
       THEN subagent' = [subagent EXCEPT ![r].n = @ + 1]
       ELSE Goto(r, "write")
    /\ UNCHANGED <<requests, responses, result, expired, session, listens, scanning, answers>>

(* The request is written; it is denied when its directory is gone.        *)
WriteRequest(r) ==
    /\ At(r, "write")
    /\ IF "requests" \in dirs
       THEN requests' = requests \cup {r} /\ Goto(r, "wait") /\ UNCHANGED result
       ELSE Decide(r, "no") /\ Goto(r, "done") /\ UNCHANGED requests
    /\ UNCHANGED <<dirs, responses, expired, session, listens, scanning, answers>>

(* The loop sees the response before the deadline...                       *)
Finds(r) ==
    /\ At(r, "wait") /\ r \notin expired /\ responses[r] # "none"
    /\ Goto(r, "found")
    /\ UNCHANGED <<files, result, expired, session, listens, scanning, answers>>

(* ... and when it is read, deletes both files.                            *)
Takes(r) ==
    /\ At(r, "found")
    /\ Decide(r, responses[r])
    /\ responses' = [responses EXCEPT ![r] = "none"]
    /\ requests' = requests \ {r}
    /\ Goto(r, "remove")
    /\ UNCHANGED <<dirs, expired, session, listens, scanning, answers>>

(* Mutant: after the timeout the tool call goes on.                        *)
GivesUpApproving(r) ==
    /\ At(r, "wait") /\ r \in expired
    /\ requests' = requests \ {r}
    /\ Decide(r, "yes")
    /\ Goto(r, "remove")
    /\ UNCHANGED <<dirs, responses, expired, session, listens, scanning, answers>>

(* Mutant: the request of a subagent that gave up is left.                 *)
GivesUpLeaving(r) ==
    /\ At(r, "wait") /\ r \in expired
    /\ Decide(r, "no")
    /\ Goto(r, "remove")
    /\ UNCHANGED <<files, expired, session, listens, scanning, answers>>

(* The deadline has passed: denied; a late response is nobody's.           *)
GivesUp(r) ==
    /\ At(r, "wait") /\ r \in expired
    /\ requests' = requests \ {r}
    /\ Decide(r, "no")
    /\ Goto(r, "remove")
    /\ UNCHANGED <<dirs, responses, expired, session, listens, scanning, answers>>

Empty(d) ==
    CASE d = "requests"  -> requests = {}
      [] d = "responses" -> \A r \in Subagents : responses[r] = "none"
      [] d = "root"      -> dirs \subseteq {"root"}

(* cleanupPermissionForwardingLocationIfEmpty(): one rmdir.                *)
RemoveDir(r) ==
    /\ At(r, "remove")
    /\ LET d == RemoveOrder[subagent[r].n] IN
       dirs' = IF Empty(d) THEN dirs \ {d} ELSE dirs
    /\ IF subagent[r].n < 3
       THEN subagent' = [subagent EXCEPT ![r].n = @ + 1]
       ELSE Goto(r, "done")
    /\ UNCHANGED <<requests, responses, result, expired, session, listens, scanning, answers>>

(* PERMISSION_FORWARDING_TIMEOUT_MS pass.                                  *)
Expire(r) ==
    /\ At(r, "wait") /\ r \notin expired
    /\ expired' = expired \cup {r}
    /\ UNCHANGED <<files, subagent, result, session, listens, scanning, answers>>

(* The subagent is killed while it waits; its files stay, and age.         *)
Killed(r) ==
    /\ r \in Mortal /\ At(r, "wait")
    /\ Goto(r, "killed")
    /\ \E old \in BOOLEAN : expired' = IF old THEN expired \cup {r} ELSE expired
    /\ UNCHANGED <<files, result, session, listens, scanning, answers>>

-----------------------------------------------------------------------------
(* The parent session.                                                     *)

(* startForwardedPermissionPolling(), on session start, input, tool calls. *)
Listen ==
    /\ session # "closed" /\ listens < MaxListens
    /\ dirs' = Dirs
    /\ session' = "open" /\ listens' = listens + 1
    /\ UNCHANGED <<requests, responses, subagents, scanning, answers>>

(* stopForwardedPermissionPolling(): a scan in flight goes on.             *)
Close ==
    /\ session = "open"
    /\ session' = "closed"
    /\ processing' = FALSE /\ again' = FALSE
    /\ UNCHANGED <<files, subagents, listens, scan, answers>>

ScanAt(s, pc) == scan[s].pc = pc
ScanGoto(s, pc) == scan' = [scan EXCEPT ![s].pc = pc]

(* readdir() of the requests, which are then read one after another.       *)
Scanned == [Idle EXCEPT !.pc = "pick", !.listed = requests]

(* Mutant: a scan starts whether or not one is going on.                   *)
ScanDueAnyway(s) ==
    /\ session = "open" /\ ScanAt(s, "idle")
    /\ processing' = TRUE
    /\ scan' = [scan EXCEPT ![s] = Scanned]
    /\ UNCHANGED <<files, subagents, session, listens, again, answers>>

(* runForwardedPermissionRequestScan(), from the watcher or the timer.     *)
ScanDue(s) ==
    /\ session = "open" /\ ScanAt(s, "idle")
    /\ IF processing
       THEN again' = TRUE /\ UNCHANGED <<processing, scan>>
       ELSE processing' = TRUE /\ scan' = [scan EXCEPT ![s] = Scanned] /\ UNCHANGED again
    /\ UNCHANGED <<files, subagents, session, listens, answers>>

(* A listed request that is gone by now is passed over.                    *)
ScanReads(s, r) ==
    /\ ScanAt(s, "pick") /\ r \in scan[s].listed
    /\ scan' = [scan EXCEPT ![s].listed = @ \ {r},
                            ![s].todo = IF r \in requests THEN @ \cup {r} ELSE @]
    /\ UNCHANGED <<files, subagents, session, listens, processing, again, answers>>

(* The next request that was read: denied when it is too old, else asked.  *)
ScanPicks(s, r) ==
    /\ ScanAt(s, "pick") /\ scan[s].listed = {} /\ r \in scan[s].todo
    /\ scan' = [scan EXCEPT ![s].pc = IF r \in expired THEN "write" ELSE "ask",
                            ![s].todo = @ \ {r}, ![s].cur = r, ![s].decision = "no"]
    /\ UNCHANGED <<files, subagents, session, listens, processing, again, answers>>

UserAnswers(s, d) ==
    /\ ScanAt(s, "ask")
    /\ scan' = [scan EXCEPT ![s].pc = "write", ![s].decision = d]
    /\ answers' = [answers EXCEPT ![scan[s].cur] = @ \cup {d}]
    /\ UNCHANGED <<files, subagents, session, listens, processing, again>>

(* The prompt's own timeout denies.                                        *)
PromptTimesOut(s) ==
    /\ ScanAt(s, "ask")
    /\ ScanGoto(s, "write")
    /\ UNCHANGED <<files, subagents, session, listens, processing, again, answers>>

(* The response; when its directory is gone the request is left as it is.  *)
ScanWrites(s) ==
    /\ ScanAt(s, "write")
    /\ IF "responses" \in dirs
       THEN /\ responses' = [responses EXCEPT ![scan[s].cur] = scan[s].decision]
            /\ ScanGoto(s, "delete")
       ELSE ScanGoto(s, "pick") /\ UNCHANGED responses
    /\ UNCHANGED <<dirs, requests, subagents, session, listens, processing, again, answers>>

ScanDeletes(s) ==
    /\ ScanAt(s, "delete")
    /\ requests' = requests \ {scan[s].cur}
    /\ ScanGoto(s, "pick")
    /\ UNCHANGED <<dirs, responses, subagents, session, listens, processing, again, answers>>

(* Mutant: the flag is not reset when the scan has ended.                  *)
ScanEndsBusy(s) ==
    /\ ScanAt(s, "pick") /\ scan[s].listed = {} /\ scan[s].todo = {}
    /\ scan' = [scan EXCEPT ![s] = Idle]
    /\ UNCHANGED <<files, subagents, session, listens, processing, again, answers>>

(* finally: the scan that was put off starts at once.                      *)
ScanEnds(s) ==
    /\ ScanAt(s, "pick") /\ scan[s].listed = {} /\ scan[s].todo = {}
    /\ again' = FALSE /\ processing' = again
    /\ scan' = [scan EXCEPT ![s] = IF again THEN Scanned ELSE Idle]
    /\ UNCHANGED <<files, subagents, session, listens, answers>>

-----------------------------------------------------------------------------
Asks(r) ==
    MakeDir(r) \/ WriteRequest(r) \/ Finds(r) \/ Takes(r) \/ GivesUp(r) \/ RemoveDir(r)

ScanStep(s) ==
    \/ \E r \in Subagents : ScanReads(s, r) \/ ScanPicks(s, r)
    \/ ScanWrites(s) \/ ScanDeletes(s) \/ ScanEnds(s)

Next ==
    \/ \E r \in Subagents : Asks(r) \/ Expire(r) \/ Killed(r)
    \/ Listen \/ Close
    \/ \E s \in Scans : \/ ScanDue(s) \/ ScanStep(s)
                        \/ \E d \in Decisions : UserAnswers(s, d)
                        \/ PromptTimesOut(s)

(* Both programs go on, the timer sweeps every two seconds, a prompt is    *)
(* answered or times out.  Nothing is assumed of the ten minutes, so that  *)
(* what is promised below does not come of giving up.                      *)
Fairness ==
    /\ \A r \in Subagents : WF_vars(Asks(r))
    /\ \A s \in Scans : /\ WF_vars(ScanDue(s)) /\ WF_vars(ScanStep(s))
                        /\ WF_vars(PromptTimesOut(s))

Spec == Init /\ [][Next]_vars /\ Fairness

-----------------------------------------------------------------------------
(* Properties.                                                             *)

(* A subagent goes on with an approval only if the user approved this very *)
(* request: no timeout, failed write or lost directory stands for a yes.   *)
TakenIsAnswered ==
    \A r \in Subagents : result[r] = "yes" => "yes" \in answers[r]

WorksOn(s, r) == scan[s].pc \in {"ask", "write", "delete"} /\ scan[s].cur = r

(* The user is not asked for the same request by two scans at a time.      *)
OneDialog ==
    \A s, t \in Scans, r \in Subagents : WorksOn(s, r) /\ WorksOn(t, r) => s = t

(* What a subagent that is done leaves: no request of its that could still *)
(* be asked for, although a scan may have it in hand, and no response, but *)
(* for one that was written after the deadline.                            *)
DoneLeavesNothing ==
    \A r \in Subagents : At(r, "done") =>
        /\ r \notin requests
        /\ responses[r] # "none" => r \in expired

(* While the parent's session is open, a request that waits in its file is *)
(* shown or decided: a scan that is busy, or just missed it, is followed   *)
(* by another one.                                                         *)
RequestIsShown ==
    \A r \in Subagents :
        (At(r, "wait") /\ r \in requests /\ session = "open")
            ~> (~At(r, "wait") \/ session # "open" \/ \E s \in Scans : WorksOn(s, r))

(* When the parent has dealt with the user's answer to a subagent that     *)
(* still waits, the response is there: "the subagent resumes once that     *)
(* decision is available".                                                 *)
AnswerDelivered ==
    \A r \in Subagents :
        At(r, "wait") /\ r \notin expired /\ answers[r] # {} =>
            \/ responses[r] # "none"
            \/ \E s \in Scans : WorksOn(s, r)
=============================================================================
