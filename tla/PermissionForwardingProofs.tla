--------------------- MODULE PermissionForwardingProofs ---------------------
(***************************************************************************)
(* Proofs about PermissionForwarding, for any number of subagents, scans   *)
(* and calls: types, TakenIsAnswered, OneDialog and DoneLeavesNothing.     *)
(***************************************************************************)
EXTENDS PermissionForwarding, TLAPS

(* An approval is the user's wherever it is: taken, in a response file, or *)
(* about to be written by a scan.                                          *)
Heard == \A r \in Subagents : responses[r] = "yes" => "yes" \in answers[r]

Decided ==
    \A s \in Scans :
        /\ scan[s].pc \in {"ask", "write", "delete"} => scan[s].cur \in Subagents
        /\ scan[s].pc = "ask" => scan[s].decision = "no"
        /\ scan[s].pc = "write" /\ scan[s].decision = "yes" => "yes" \in answers[scan[s].cur]

AnswerInv == TypeOK /\ TakenIsAnswered /\ Heard /\ Decided

(* While the session is not closed, a scan that goes on holds the flag; so *)
(* there is one at most.                                                   *)
Flagged == session # "closed" => \A s \in Scans : ScanAt(s, "idle") \/ processing
OneScan == \A s, t \in Scans : ScanAt(s, "idle") \/ ScanAt(t, "idle") \/ s = t

ScanInv == TypeOK /\ Flagged /\ OneScan

-----------------------------------------------------------------------------
(* The records that the steps put in place of old ones have their types.   *)
LEMMA GotoType ==
    ASSUME TypeOK, NEW r \in Subagents,
           NEW pc \in {"make", "write", "wait", "found", "remove", "done", "killed"}, Goto(r, pc)
    PROVE  subagent' \in [Subagents -> SubagentStates]
BY DEF TypeOK, Goto, SubagentStates

LEMMA NextDirType ==
    ASSUME TypeOK, NEW r \in Subagents, subagent[r].n < 3,
           subagent' = [subagent EXCEPT ![r].n = @ + 1]
    PROVE  subagent' \in [Subagents -> SubagentStates]
<1>1. subagent[r] \in SubagentStates
  BY DEF TypeOK
<1>2. [subagent[r] EXCEPT !.n = @ + 1] \in SubagentStates
  BY <1>1 DEF SubagentStates
<1> QED
  BY <1>2 DEF TypeOK

LEMMA ScanType ==
    ASSUME TypeOK, NEW s \in Scans, NEW new \in ScanStates,
           scan' = [scan EXCEPT ![s] = new]
    PROVE  scan' \in [Scans -> ScanStates]
BY DEF TypeOK

LEMMA ScanGotoType ==
    ASSUME TypeOK, NEW s \in Scans,
           NEW pc \in {"idle", "pick", "ask", "write", "delete"}, ScanGoto(s, pc)
    PROVE  scan' \in [Scans -> ScanStates]
<1>1. scan[s] \in ScanStates
  BY DEF TypeOK
<1>2. [scan[s] EXCEPT !.pc = pc] \in ScanStates
  BY <1>1 DEF ScanStates
<1> QED
  BY <1>2 DEF TypeOK, ScanGoto

LEMMA IdleType == Idle \in ScanStates
BY DEF Idle, ScanStates, Decisions

LEMMA ScannedType == TypeOK => Scanned \in ScanStates
BY DEF TypeOK, Scanned, Idle, ScanStates, Decisions

(* Every step of the two programs keeps the types.                         *)
LEMMA TypeStep == TypeOK /\ [Next]_vars => TypeOK'
<1> SUFFICES ASSUME TypeOK, [Next]_vars PROVE TypeOK'
  OBVIOUS
<1>1. ASSUME NEW r \in Subagents, MakeDir(r) PROVE TypeOK'
  <2>1. subagent' \in [Subagents -> SubagentStates]
    BY <1>1, GotoType, NextDirType DEF MakeDir
  <2>2. subagent[r].n \in 1..3
    BY DEF TypeOK, SubagentStates
  <2>3. dirs' \subseteq Dirs
    BY <1>1, <2>2 DEF MakeDir, MakeOrder, TypeOK, Dirs
  <2> QED
    BY <1>1, <2>1, <2>3 DEF MakeDir, TypeOK, scanning
<1>2. ASSUME NEW r \in Subagents, WriteRequest(r) PROVE TypeOK'
  <2>1. subagent' \in [Subagents -> SubagentStates]
    BY <1>2, GotoType DEF WriteRequest
  <2> QED
    BY <1>2, <2>1 DEF WriteRequest, Decide, TypeOK, Decisions, scanning
<1>3. ASSUME NEW r \in Subagents, Finds(r) PROVE TypeOK'
  <2>1. subagent' \in [Subagents -> SubagentStates]
    BY <1>3, GotoType DEF Finds
  <2> QED
    BY <1>3, <2>1 DEF Finds, TypeOK, files, scanning
<1>4. ASSUME NEW r \in Subagents, Takes(r) PROVE TypeOK'
  <2>1. subagent' \in [Subagents -> SubagentStates]
    BY <1>4, GotoType DEF Takes
  <2> QED
    BY <1>4, <2>1 DEF Takes, Decide, TypeOK, scanning
<1>5. ASSUME NEW r \in Subagents, GivesUp(r) PROVE TypeOK'
  <2>1. subagent' \in [Subagents -> SubagentStates]
    BY <1>5, GotoType DEF GivesUp
  <2> QED
    BY <1>5, <2>1 DEF GivesUp, Decide, TypeOK, Decisions, scanning
<1>6. ASSUME NEW r \in Subagents, RemoveDir(r) PROVE TypeOK'
  <2>1. subagent' \in [Subagents -> SubagentStates]
    BY <1>6, GotoType, NextDirType DEF RemoveDir
  <2>2. dirs' \subseteq dirs
    BY <1>6 DEF RemoveDir
  <2> QED
    BY <1>6, <2>1, <2>2 DEF RemoveDir, TypeOK, scanning
<1>7. ASSUME NEW r \in Subagents, Expire(r) PROVE TypeOK'
  BY <1>7 DEF Expire, TypeOK, files, scanning
<1>8. ASSUME NEW r \in Subagents, Killed(r) PROVE TypeOK'
  <2>1. subagent' \in [Subagents -> SubagentStates]
    BY <1>8, GotoType DEF Killed
  <2>2. expired' \subseteq Subagents
    BY <1>8 DEF Killed, TypeOK
  <2> QED
    BY <1>8, <2>1, <2>2 DEF Killed, TypeOK, files, scanning
<1>9. CASE Listen
  BY <1>9, ForwardingAssumption DEF Listen, TypeOK, subagents, scanning
<1>10. CASE Close
  BY <1>10 DEF Close, TypeOK, files, subagents
<1>11. ASSUME NEW s \in Scans, ScanDue(s) PROVE TypeOK'
  <2>1. scan' \in [Scans -> ScanStates]
    BY <1>11, ScannedType, ScanType DEF ScanDue, TypeOK
  <2> QED
    BY <1>11, <2>1 DEF ScanDue, TypeOK, files, subagents
<1>12. ASSUME NEW s \in Scans, NEW r \in Subagents, ScanReads(s, r) PROVE TypeOK'
  <2> DEFINE new == [scan[s] EXCEPT !.listed = @ \ {r},
                                    !.todo = IF r \in requests THEN @ \cup {r} ELSE @]
  <2>1. scan[s] \in ScanStates /\ scan' = [scan EXCEPT ![s] = new]
    BY <1>12 DEF ScanReads, TypeOK
  <2>2. new \in ScanStates
    BY <2>1 DEF ScanStates
  <2>3. scan' \in [Scans -> ScanStates]
    BY <2>1, <2>2, ScanType
  <2> QED
    BY <1>12, <2>3 DEF ScanReads, TypeOK, files, subagents
<1>13. ASSUME NEW s \in Scans, NEW r \in Subagents, ScanPicks(s, r) PROVE TypeOK'
  <2> DEFINE new == [scan[s] EXCEPT !.pc = IF r \in expired THEN "write" ELSE "ask",
                                    !.todo = @ \ {r}, !.cur = r, !.decision = "no"]
  <2>1. scan[s] \in ScanStates /\ scan' = [scan EXCEPT ![s] = new]
    BY <1>13 DEF ScanPicks, TypeOK
  <2>2. new \in ScanStates
    BY <2>1 DEF ScanStates, Decisions
  <2>3. scan' \in [Scans -> ScanStates]
    BY <2>1, <2>2, ScanType
  <2> QED
    BY <1>13, <2>3 DEF ScanPicks, TypeOK, files, subagents
<1>14. ASSUME NEW s \in Scans, NEW d \in Decisions, UserAnswers(s, d) PROVE TypeOK'
  <2> DEFINE new == [scan[s] EXCEPT !.pc = "write", !.decision = d]
  <2>1. scan[s] \in ScanStates /\ scan' = [scan EXCEPT ![s] = new]
    BY <1>14 DEF UserAnswers, TypeOK
  <2>2. new \in ScanStates
    BY <2>1 DEF ScanStates
  <2>3. scan' \in [Scans -> ScanStates]
    BY <2>1, <2>2, ScanType
  <2>4. answers' \in [Subagents -> SUBSET Decisions]
    BY <1>14 DEF UserAnswers, TypeOK
  <2> QED
    BY <1>14, <2>3, <2>4 DEF UserAnswers, TypeOK, files, subagents
<1>15. ASSUME NEW s \in Scans, PromptTimesOut(s) PROVE TypeOK'
  <2>1. scan' \in [Scans -> ScanStates]
    BY <1>15, ScanGotoType DEF PromptTimesOut
  <2> QED
    BY <1>15, <2>1 DEF PromptTimesOut, TypeOK, files, subagents
<1>16. ASSUME NEW s \in Scans, ScanWrites(s) PROVE TypeOK'
  <2>1. scan' \in [Scans -> ScanStates]
    BY <1>16, ScanGotoType DEF ScanWrites
  <2>2. scan[s].decision \in Decisions
    BY DEF TypeOK, ScanStates
  <2>3. responses' \in [Subagents -> Decisions \cup {"none"}]
    BY <1>16, <2>2 DEF ScanWrites, TypeOK
  <2> QED
    BY <1>16, <2>1, <2>3 DEF ScanWrites, TypeOK, subagents
<1>17. ASSUME NEW s \in Scans, ScanDeletes(s) PROVE TypeOK'
  <2>1. scan' \in [Scans -> ScanStates]
    BY <1>17, ScanGotoType DEF ScanDeletes
  <2> QED
    BY <1>17, <2>1 DEF ScanDeletes, TypeOK, subagents
<1>18. ASSUME NEW s \in Scans, ScanEnds(s) PROVE TypeOK'
  <2>1. scan' \in [Scans -> ScanStates]
    BY <1>18, IdleType, ScannedType, ScanType DEF ScanEnds
  <2> QED
    BY <1>18, <2>1 DEF ScanEnds, TypeOK, files, subagents
<1>19. CASE UNCHANGED vars
  BY <1>19 DEF TypeOK, vars, files, subagents, scanning
<1> QED
  BY <1>1, <1>2, <1>3, <1>4, <1>5, <1>6, <1>7, <1>8, <1>9, <1>10, <1>11, <1>12,
     <1>13, <1>14, <1>15, <1>16, <1>17, <1>18, <1>19 DEF Next, Asks, ScanStep

LEMMA TypeInit == Init => TypeOK
<1> SUFFICES ASSUME Init PROVE TypeOK
  OBVIOUS
<1>1. [pc |-> "make", n |-> 1] \in SubagentStates
  BY DEF SubagentStates
<1>2. /\ subagent \in [Subagents -> SubagentStates]
      /\ scan \in [Scans -> ScanStates]
  BY <1>1, IdleType DEF Init
<1>3. listens \in 0..MaxListens
  BY ForwardingAssumption DEF Init
<1> QED
  BY <1>2, <1>3 DEF Init, TypeOK, Decisions

(* The files, the subagents and the scans keep their types.                *)
THEOREM ForwardingTypeCorrect == Spec => []TypeOK
BY TypeInit, TypeStep, PTL DEF Spec

-----------------------------------------------------------------------------
(* A yes is the user's: each step that moves one finds it given before.    *)
LEMMA AnswerStep == AnswerInv /\ [Next]_vars => AnswerInv'
<1> SUFFICES ASSUME AnswerInv, [Next]_vars PROVE AnswerInv'
  OBVIOUS
<1>0. TypeOK /\ TypeOK'
  BY TypeStep DEF AnswerInv
<1> SUFFICES TakenIsAnswered' /\ Heard' /\ Decided'
  BY <1>0 DEF AnswerInv
<1> USE DEF AnswerInv, TakenIsAnswered, Heard, Decided
<1>1. ASSUME NEW r \in Subagents,
             MakeDir(r) \/ WriteRequest(r) \/ Finds(r) \/ GivesUp(r) \/ RemoveDir(r)
                 \/ Expire(r) \/ Killed(r)
      PROVE  TakenIsAnswered' /\ Heard' /\ Decided'
  <2>1. responses' = responses /\ scan' = scan /\ answers' = answers
    BY <1>1 DEF MakeDir, WriteRequest, Finds, GivesUp, RemoveDir, Expire, Killed, files, scanning
  <2>2. result' = result \/ result' = [result EXCEPT ![r] = "no"]
    BY <1>1 DEF MakeDir, WriteRequest, Finds, GivesUp, RemoveDir, Expire, Killed, Decide
  <2> QED
    BY <1>0, <2>1, <2>2 DEF TypeOK
<1>2. ASSUME NEW r \in Subagents, Takes(r) PROVE TakenIsAnswered' /\ Heard' /\ Decided'
  BY <1>0, <1>2 DEF Takes, Decide, TypeOK, scanning
<1>3. CASE Listen \/ Close
  BY <1>3 DEF Listen, Close, files, subagents, scanning
<1>4. ASSUME NEW s \in Scans, ScanDue(s) \/ ScanEnds(s)
      PROVE  TakenIsAnswered' /\ Heard' /\ Decided'
  <2>1. result' = result /\ responses' = responses /\ answers' = answers
    BY <1>4 DEF ScanDue, ScanEnds, files, subagents
  <2>2. \/ scan' = scan
        \/ \E new \in {Scanned, Idle} : scan' = [scan EXCEPT ![s] = new]
    BY <1>4 DEF ScanDue, ScanEnds
  <2>3. Scanned.pc = "pick" /\ Idle.pc = "idle"
    BY DEF Scanned, Idle
  <2> QED
    BY <1>0, <2>1, <2>2, <2>3 DEF TypeOK
<1>5. ASSUME NEW s \in Scans, NEW r \in Subagents, ScanReads(s, r) \/ ScanPicks(s, r)
      PROVE  TakenIsAnswered' /\ Heard' /\ Decided'
  <2>1. result' = result /\ responses' = responses /\ answers' = answers
    BY <1>5 DEF ScanReads, ScanPicks, files, subagents
  <2>2. ASSUME NEW t \in Scans, t # s PROVE scan'[t] = scan[t]
    BY <1>0, <1>5, <2>2 DEF ScanReads, ScanPicks, TypeOK
  <2>3. \/ scan'[s].pc = "pick"
        \/ scan'[s].pc \in {"ask", "write"} /\ scan'[s].cur = r /\ scan'[s].decision = "no"
    <3>1. scan[s] \in ScanStates
      BY <1>0 DEF TypeOK
    <3> QED
      BY <1>0, <1>5, <3>1 DEF ScanReads, ScanPicks, ScanAt, TypeOK, ScanStates
  <2> QED
    BY <2>1, <2>2, <2>3
<1>6. ASSUME NEW s \in Scans, NEW d \in Decisions, UserAnswers(s, d)
      PROVE  TakenIsAnswered' /\ Heard' /\ Decided'
  <2>1. /\ scan[s] \in ScanStates
        /\ scan[s].cur \in Subagents
    BY <1>0, <1>6 DEF UserAnswers, ScanAt, TypeOK
  <2>2. /\ result' = result /\ responses' = responses
        /\ \A r \in Subagents : answers[r] \subseteq answers'[r]
        /\ d \in answers'[scan[s].cur]
    BY <1>0, <1>6, <2>1 DEF UserAnswers, TypeOK, files, subagents
  <2>3. ASSUME NEW t \in Scans, t # s PROVE scan'[t] = scan[t]
    BY <1>0, <1>6, <2>3 DEF UserAnswers, TypeOK
  <2>4. scan'[s].pc = "write" /\ scan'[s].cur = scan[s].cur /\ scan'[s].decision = d
    BY <1>0, <1>6, <2>1 DEF UserAnswers, TypeOK, ScanStates
  <2> QED
    BY <2>1, <2>2, <2>3, <2>4
<1>7. ASSUME NEW s \in Scans, PromptTimesOut(s) \/ ScanWrites(s) \/ ScanDeletes(s)
      PROVE  TakenIsAnswered' /\ Heard' /\ Decided'
  <2>1. scan[s] \in ScanStates
    BY <1>0 DEF TypeOK
  <2>2. result' = result /\ answers' = answers
    BY <1>7 DEF PromptTimesOut, ScanWrites, ScanDeletes, subagents
  <2>3. ASSUME NEW t \in Scans, t # s PROVE scan'[t] = scan[t]
    BY <1>0, <1>7, <2>3 DEF PromptTimesOut, ScanWrites, ScanDeletes, ScanGoto, TypeOK
  <2>4. CASE PromptTimesOut(s)
    <3>1. /\ scan[s].cur \in Subagents /\ scan[s].decision = "no"
          /\ scan'[s].cur = scan[s].cur /\ scan'[s].decision = scan[s].decision
          /\ responses' = responses
      BY <1>0, <2>1, <2>4 DEF PromptTimesOut, ScanAt, ScanGoto, TypeOK, ScanStates, files
    <3> QED
      BY <2>2, <2>3, <3>1
  <2>5. CASE ScanWrites(s)
    <3>1. /\ scan[s].cur \in Subagents
          /\ scan[s].decision = "yes" => "yes" \in answers[scan[s].cur]
          /\ scan'[s].pc \in {"delete", "pick"} /\ scan'[s].cur = scan[s].cur
          /\ \/ responses' = responses
             \/ responses' = [responses EXCEPT ![scan[s].cur] = scan[s].decision]
      BY <1>0, <2>1, <2>5 DEF ScanWrites, ScanAt, ScanGoto, TypeOK, ScanStates
    <3> QED
      BY <1>0, <2>2, <2>3, <3>1 DEF TypeOK
  <2>6. CASE ScanDeletes(s)
    <3>1. scan'[s].pc = "pick" /\ responses' = responses
      BY <1>0, <2>1, <2>6 DEF ScanDeletes, ScanGoto, TypeOK, ScanStates
    <3> QED
      BY <2>2, <2>3, <3>1
  <2> QED
    BY <1>7, <2>4, <2>5, <2>6
<1>8. CASE UNCHANGED vars
  BY <1>8 DEF vars, files, subagents, scanning
<1> QED
  BY <1>1, <1>2, <1>3, <1>4, <1>5, <1>6, <1>7, <1>8 DEF Next, Asks, ScanStep

LEMMA AnswerInit == Init => AnswerInv
BY TypeInit DEF Init, AnswerInv, TakenIsAnswered, Heard, Decided, Idle

(* A subagent goes on with an approval only if the user gave it: timeouts, *)
(* lost directories and failed writes never stand for a yes.               *)
THEOREM ApprovalIsTheUsers == Spec => []TakenIsAnswered
<1>1. AnswerInv => TakenIsAnswered
  BY DEF AnswerInv
<1> QED
  BY <1>1, AnswerInit, AnswerStep, PTL DEF Spec

-----------------------------------------------------------------------------
(* The flag lets one scan start while none goes on; the session that is    *)
(* closed, whose flag is reset, starts none.                               *)
LEMMA ScanInvStep == ScanInv /\ [Next]_vars => ScanInv'
<1> SUFFICES ASSUME ScanInv, [Next]_vars PROVE ScanInv'
  OBVIOUS
<1>0. TypeOK /\ TypeOK'
  BY TypeStep DEF ScanInv
<1> SUFFICES Flagged' /\ OneScan'
  BY <1>0 DEF ScanInv
<1> USE DEF ScanInv, Flagged, OneScan, ScanAt
<1>1. ASSUME NEW r \in Subagents, Asks(r) \/ Expire(r) \/ Killed(r)
      PROVE  Flagged' /\ OneScan'
  BY <1>1 DEF Asks, MakeDir, WriteRequest, Finds, Takes, GivesUp, RemoveDir, Expire, Killed,
              scanning
<1>2. CASE Listen \/ Close
  BY <1>2 DEF Listen, Close, scanning
<1>3. ASSUME NEW s \in Scans, ScanDue(s) PROVE Flagged' /\ OneScan'
  <2>1. CASE processing
    BY <1>3, <2>1 DEF ScanDue
  <2>2. CASE ~processing
    <3>1. /\ \A t \in Scans : scan[t].pc = "idle"
          /\ processing' = TRUE /\ scan' = [scan EXCEPT ![s] = Scanned]
      BY <1>3, <2>2 DEF ScanDue
    <3> QED
      BY <1>0, <3>1 DEF TypeOK
  <2> QED
    BY <2>1, <2>2
<1>4. ASSUME NEW s \in Scans, ScanEnds(s) PROVE Flagged' /\ OneScan'
  <2>1. /\ scan[s].pc = "pick" /\ session' = session
        /\ processing' = again
        /\ scan' = [scan EXCEPT ![s] = IF again THEN Scanned ELSE Idle]
    BY <1>4 DEF ScanEnds
  <2>2. \A t \in Scans : t # s => scan[t].pc = "idle" /\ scan'[t] = scan[t]
    BY <1>0, <2>1 DEF TypeOK
  <2>3. ~again => scan'[s].pc = "idle"
    BY <1>0, <2>1 DEF TypeOK, Idle
  <2>4. again \in BOOLEAN
    BY <1>0 DEF TypeOK
  <2> QED
    BY <2>1, <2>2, <2>3, <2>4
<1>5. ASSUME NEW s \in Scans, scan[s].pc # "idle",
             \A t \in Scans : t # s => scan'[t] = scan[t],
             processing' = processing, session' = session
      PROVE  Flagged' /\ OneScan'
  BY <1>5
<1>6. ASSUME NEW s \in Scans,
             \/ \E r \in Subagents : ScanReads(s, r) \/ ScanPicks(s, r)
             \/ \E d \in Decisions : UserAnswers(s, d)
             \/ PromptTimesOut(s) \/ ScanWrites(s) \/ ScanDeletes(s)
      PROVE  Flagged' /\ OneScan'
  <2>1. /\ scan[s].pc # "idle"
        /\ processing' = processing /\ session' = session
    BY <1>6 DEF ScanReads, ScanPicks, UserAnswers, PromptTimesOut, ScanWrites, ScanDeletes
  <2>2. ASSUME NEW t \in Scans, t # s PROVE scan'[t] = scan[t]
    BY <1>0, <1>6, <2>2 DEF ScanReads, ScanPicks, UserAnswers, PromptTimesOut, ScanWrites,
                            ScanDeletes, ScanGoto, TypeOK
  <2> QED
    BY <2>1, <2>2, <1>5
<1>7. CASE UNCHANGED vars
  BY <1>7 DEF vars, scanning
<1> QED
  BY <1>1, <1>2, <1>3, <1>4, <1>6, <1>7 DEF Next, ScanStep

LEMMA ScanInvInit == Init => ScanInv
BY TypeInit DEF Init, ScanInv, Flagged, OneScan, ScanAt, Idle

(* The user is never asked for one request by two scans at a time, nor for *)
(* two requests: one scan at most is under way.                            *)
THEOREM OneDialogAtATime == Spec => []OneDialog
<1>1. ScanInv => OneDialog
  BY DEF ScanInv, OneScan, OneDialog, WorksOn, ScanAt
<1> QED
  BY <1>1, ScanInvInit, ScanInvStep, PTL DEF Spec

-----------------------------------------------------------------------------
(* A scan that is idle has nothing in hand; it picks from what it has read *)
(* when it has read everything; and what it works on it has taken out.     *)
Orderly ==
    \A s \in Scans :
        /\ ScanAt(s, "idle") => scan[s].listed = {} /\ scan[s].todo = {}
        /\ scan[s].pc \in {"ask", "write", "delete"} =>
              scan[s].listed = {} /\ scan[s].cur \notin scan[s].todo

(* Where a subagent is when its files are there.                           *)
Lived ==
    \A r \in Subagents :
        /\ r \in requests => subagent[r].pc \in {"wait", "found", "killed"}
        /\ r \in expired => subagent[r].pc \in {"wait", "remove", "done", "killed"}
        /\ subagent[r].pc = "found" => responses[r] # "none"
        /\ subagent[r].pc \in {"make", "write"} => responses[r] = "none"
        /\ subagent[r].pc \in {"remove", "done"} /\ responses[r] # "none" => r \in expired

(* A scan will yet write a response for request r.                         *)
Pends(s, r) ==
    \/ r \in scan[s].listed \/ r \in scan[s].todo
    \/ scan[s].pc \in {"ask", "write"} /\ scan[s].cur = r

(* Nobody has written a response that the subagent could find.             *)
Unanswered(r) ==
    \/ responses[r] = "none" /\ subagent[r].pc \in {"wait", "killed"}
    \/ r \in expired

(* A request is answered once, unless it is too old: the scan that has     *)
(* answered it deletes it before another one lists it.                     *)
Fresh ==
    \A r \in Subagents :
        /\ \A s \in Scans : Pends(s, r) => Unanswered(r)
        /\ r \in requests /\ ~Unanswered(r) =>
              \E s \in Scans : scan[s].pc = "delete" /\ scan[s].cur = r

CleanInv == ScanInv /\ Orderly /\ Lived /\ Fresh

(* A step of a subagent that leaves the scans alone, and the response of   *)
(* every other request too.                                                *)
LEMMA OthersKept ==
    ASSUME CleanInv, TypeOK', NEW r \in Subagents, scan' = scan,
           \A q \in Subagents : q # r =>
               /\ subagent'[q] = subagent[q] /\ responses'[q] = responses[q]
               /\ q \in requests' <=> q \in requests
               /\ q \in expired' <=> q \in expired
    PROVE  \A q \in Subagents : q # r =>
               /\ q \in requests' => subagent'[q].pc \in {"wait", "found", "killed"}
               /\ q \in expired' => subagent'[q].pc \in {"wait", "remove", "done", "killed"}
               /\ subagent'[q].pc = "found" => responses'[q] # "none"
               /\ subagent'[q].pc \in {"make", "write"} => responses'[q] = "none"
               /\ subagent'[q].pc \in {"remove", "done"} /\ responses'[q] # "none" => q \in expired'
               /\ \A s \in Scans : Pends(s, q)' => Unanswered(q)'
               /\ q \in requests' /\ ~Unanswered(q)' =>
                     \E s \in Scans : scan'[s].pc = "delete" /\ scan'[s].cur = q
BY DEF CleanInv, Lived, Fresh, Pends, Unanswered

(* Every step of a subagent keeps the invariant.                           *)
LEMMA AskingIsClean ==
    ASSUME CleanInv, TypeOK', NEW r \in Subagents, Asks(r) \/ Expire(r) \/ Killed(r)
    PROVE  Orderly' /\ Lived' /\ Fresh'
<1>0. TypeOK
  BY DEF CleanInv, ScanInv
<1>1. scan' = scan
  BY DEF Asks, MakeDir, WriteRequest, Finds, Takes, GivesUp, RemoveDir, Expire, Killed, scanning
<1>2. Orderly'
  BY <1>1 DEF CleanInv, Orderly, ScanAt
<1>3. \A q \in Subagents : q # r =>
          /\ subagent'[q] = subagent[q] /\ responses'[q] = responses[q]
          /\ q \in requests' <=> q \in requests
          /\ q \in expired' <=> q \in expired
  <2>1. CASE MakeDir(r)
    BY <1>0, <2>1 DEF MakeDir, Goto, TypeOK
  <2>2. CASE WriteRequest(r)
    BY <1>0, <2>2 DEF WriteRequest, Goto, TypeOK
  <2>3. CASE Finds(r)
    BY <1>0, <2>3 DEF Finds, Goto, TypeOK, files
  <2>4. CASE Takes(r)
    BY <1>0, <2>4 DEF Takes, Goto, TypeOK
  <2>5. CASE GivesUp(r)
    BY <1>0, <2>5 DEF GivesUp, Goto, TypeOK
  <2>6. CASE RemoveDir(r)
    BY <1>0, <2>6 DEF RemoveDir, Goto, TypeOK
  <2>7. CASE Expire(r)
    BY <1>0, <2>7 DEF Expire, TypeOK, files
  <2>8. CASE Killed(r)
    BY <1>0, <2>8 DEF Killed, Goto, TypeOK, files
  <2> QED
    BY <2>1, <2>2, <2>3, <2>4, <2>5, <2>6, <2>7, <2>8 DEF Asks
<1>4. /\ r \in requests' => subagent'[r].pc \in {"wait", "found", "killed"}
      /\ r \in expired' => subagent'[r].pc \in {"wait", "remove", "done", "killed"}
      /\ subagent'[r].pc = "found" => responses'[r] # "none"
      /\ subagent'[r].pc \in {"make", "write"} => responses'[r] = "none"
      /\ subagent'[r].pc \in {"remove", "done"} /\ responses'[r] # "none" => r \in expired'
      /\ \A s \in Scans : Pends(s, r)' => Unanswered(r)'
      /\ r \in requests' /\ ~Unanswered(r)' =>
            \E s \in Scans : scan'[s].pc = "delete" /\ scan'[s].cur = r
  <2> USE <1>0, <1>1 DEF CleanInv, Lived, Fresh, Pends, Unanswered, TypeOK, At, Goto
  <2>0. subagent[r] \in SubagentStates
    OBVIOUS
  <2>1. CASE MakeDir(r)
    <3>1. /\ subagent[r].pc = "make" /\ subagent'[r].pc \in {"make", "write"}
          /\ responses' = responses /\ requests' = requests /\ expired' = expired
      BY <2>0, <2>1 DEF MakeDir, SubagentStates
    <3> QED
      BY <3>1
  <2>2. CASE WriteRequest(r)
    <3>1. /\ subagent[r].pc = "write" /\ responses' = responses /\ expired' = expired
          /\ \/ subagent'[r].pc = "wait" /\ requests' = requests \cup {r}
             \/ subagent'[r].pc = "done" /\ requests' = requests
      BY <2>2 DEF WriteRequest
    <3> QED
      BY <3>1
  <2>3. CASE Finds(r)
    <3>1. /\ subagent[r].pc = "wait" /\ subagent'[r].pc = "found" /\ responses[r] # "none"
          /\ r \notin expired
          /\ responses' = responses /\ requests' = requests /\ expired' = expired
      BY <2>3 DEF Finds, files
    <3> QED
      BY <3>1
  <2>4. CASE Takes(r)
    <3>1. /\ subagent[r].pc = "found" /\ subagent'[r].pc = "remove" /\ responses'[r] = "none"
          /\ requests' = requests \ {r} /\ expired' = expired
      BY <2>4 DEF Takes
    <3> QED
      BY <3>1
  <2>5. CASE GivesUp(r)
    <3>1. /\ subagent'[r].pc = "remove" /\ responses' = responses /\ r \in expired
          /\ requests' = requests \ {r} /\ expired' = expired
      BY <2>5 DEF GivesUp
    <3> QED
      BY <3>1
  <2>6. CASE RemoveDir(r)
    <3>1. /\ subagent[r].pc = "remove" /\ subagent'[r].pc \in {"remove", "done"}
          /\ responses' = responses /\ requests' = requests /\ expired' = expired
      BY <2>0, <2>6 DEF RemoveDir, SubagentStates
    <3> QED
      BY <3>1
  <2>7. CASE Expire(r)
    BY <2>7 DEF Expire, files
  <2>8. CASE Killed(r)
    <3>1. /\ subagent[r].pc = "wait" /\ subagent'[r].pc = "killed"
          /\ responses' = responses /\ requests' = requests
          /\ expired' = expired \/ expired' = expired \cup {r}
      BY <2>8 DEF Killed, files
    <3> QED
      BY <3>1
  <2> QED
    BY <2>1, <2>2, <2>3, <2>4, <2>5, <2>6, <2>7, <2>8 DEF Asks
<1>5. \A q \in Subagents :
         /\ q \in requests' => subagent'[q].pc \in {"wait", "found", "killed"}
         /\ q \in expired' => subagent'[q].pc \in {"wait", "remove", "done", "killed"}
         /\ subagent'[q].pc = "found" => responses'[q] # "none"
         /\ subagent'[q].pc \in {"make", "write"} => responses'[q] = "none"
         /\ subagent'[q].pc \in {"remove", "done"} /\ responses'[q] # "none" => q \in expired'
         /\ \A s \in Scans : Pends(s, q)' => Unanswered(q)'
         /\ q \in requests' /\ ~Unanswered(q)' =>
               \E s \in Scans : scan'[s].pc = "delete" /\ scan'[s].cur = q
  BY <1>1, <1>3, <1>4, OthersKept
<1> QED
  BY <1>2, <1>5 DEF Lived, Fresh

(* A step of a scan that only moves on, with less in hand than before.     *)
LEMMA ScanMovesOn ==
    ASSUME CleanInv, NEW s \in Scans,
           subagent' = subagent, responses' = responses, requests' \subseteq requests,
           expired' = expired,
           \A t \in Scans : t # s => scan'[t] = scan[t],
           \A r \in Subagents : Pends(s, r)' => Pends(s, r) \/ Unanswered(r),
           \A r \in requests' : scan[s].pc = "delete" /\ scan[s].cur = r => scan'[s] = scan[s]
    PROVE  Lived' /\ Fresh'
<1> USE DEF CleanInv, Lived, Fresh
<1>1. Lived'
  OBVIOUS
<1>2. \A r \in Subagents : Unanswered(r)' <=> Unanswered(r)
  BY DEF Unanswered
<1>3. \A r \in Subagents, t \in Scans : Pends(t, r)' => Pends(t, r) \/ Unanswered(r)
  BY DEF Pends
<1>4. \A r \in Subagents :
          r \in requests' /\ ~Unanswered(r) =>
              \E t \in Scans : scan'[t].pc = "delete" /\ scan'[t].cur = r
  OBVIOUS
<1> QED
  BY <1>1, <1>2, <1>3, <1>4

(* What is there to be listed when no scan goes on waits for its answer.   *)
LEMMA ScannedIsFresh ==
    ASSUME CleanInv, NEW s \in Scans, scan[s].pc # "delete",
           \A t \in Scans : t # s => ScanAt(t, "idle"),
           NEW new \in {Scanned, Idle}, scan' = [scan EXCEPT ![s] = new],
           UNCHANGED <<files, subagents>>
    PROVE  Orderly' /\ Lived' /\ Fresh'
<1>0. TypeOK
  BY DEF CleanInv, ScanInv
<1>1. /\ scan'[s] = new /\ \A t \in Scans : t # s => scan'[t] = scan[t]
  BY <1>0 DEF TypeOK
<1>2. /\ new.pc \in {"pick", "idle"} /\ new.todo = {} /\ new.listed \subseteq requests
      /\ new.pc = "idle" => new.listed = {}
  <2>1. Scanned.pc = "pick" /\ Scanned.todo = {} /\ Scanned.listed = requests
    BY DEF Scanned, Idle
  <2>2. Idle.pc = "idle" /\ Idle.todo = {} /\ Idle.listed = {}
    BY DEF Idle
  <2> QED
    BY <2>1, <2>2
<1>3. Orderly'
  BY <1>1, <1>2 DEF CleanInv, Orderly, ScanAt
<1>4. \A r \in Subagents : r \in requests => Unanswered(r)
  BY DEF CleanInv, Fresh, ScanAt
<1>5. \A r \in Subagents : Pends(s, r)' => Unanswered(r)
  BY <1>1, <1>2, <1>4 DEF Pends
<1>6. Lived' /\ Fresh'
  BY <1>1, <1>5, ScanMovesOn DEF files, subagents
<1> QED
  BY <1>3, <1>6

(* Every step of a scan keeps the invariant.                               *)
LEMMA ScanningIsClean ==
    ASSUME CleanInv, NEW s \in Scans,
           ScanDue(s) \/ ScanStep(s) \/ PromptTimesOut(s) \/ \E d \in Decisions : UserAnswers(s, d)
    PROVE  Orderly' /\ Lived' /\ Fresh'
<1>0. TypeOK /\ scan[s] \in ScanStates
  BY DEF CleanInv, ScanInv, TypeOK
<1>1. CASE ScanDue(s)
  <2>1. CASE processing
    BY <1>1, <2>1 DEF ScanDue, CleanInv, Orderly, Lived, Fresh, Pends, Unanswered, ScanAt,
                      files, subagents
  <2>2. CASE ~processing
    <3>1. /\ \A t \in Scans : scan[t].pc = "idle"
          /\ scan' = [scan EXCEPT ![s] = Scanned] /\ UNCHANGED <<files, subagents>>
      BY <1>1, <2>2 DEF ScanDue, CleanInv, ScanInv, Flagged, ScanAt
    <3> QED
      BY <3>1, ScannedIsFresh DEF ScanAt
  <2> QED
    BY <2>1, <2>2
<1>2. CASE ScanEnds(s)
  <2>1. /\ scan[s].pc = "pick" /\ UNCHANGED <<files, subagents>>
        /\ \E new \in {Scanned, Idle} : scan' = [scan EXCEPT ![s] = new]
    BY <1>2 DEF ScanEnds, ScanAt
  <2>2. \A t \in Scans : t # s => ScanAt(t, "idle")
    BY <2>1 DEF CleanInv, ScanInv, OneScan, ScanAt
  <2> QED
    BY <2>1, <2>2, ScannedIsFresh
<1>3. ASSUME NEW r \in Subagents, ScanReads(s, r) PROVE Orderly' /\ Lived' /\ Fresh'
  <2>1. /\ scan[s].pc = "pick" /\ scan'[s].pc = "pick" /\ r \in scan[s].listed
        /\ scan'[s].listed \subseteq scan[s].listed
        /\ scan'[s].todo \subseteq scan[s].todo \cup {r}
        /\ \A t \in Scans : t # s => scan'[t] = scan[t]
    BY <1>0, <1>3 DEF ScanReads, ScanAt, TypeOK, ScanStates
  <2>2. UNCHANGED <<files, subagents>>
    BY <1>3 DEF ScanReads
  <2>3. Orderly'
    BY <2>1 DEF CleanInv, Orderly, ScanAt
  <2>4. \A q \in Subagents : Pends(s, q)' => Pends(s, q)
    BY <2>1 DEF Pends
  <2> QED
    BY <2>1, <2>2, <2>3, <2>4, ScanMovesOn DEF files, subagents
<1>4. ASSUME NEW r \in Subagents, ScanPicks(s, r) PROVE Orderly' /\ Lived' /\ Fresh'
  <2>1. /\ scan[s].pc = "pick" /\ scan[s].listed = {} /\ r \in scan[s].todo
        /\ scan'[s].pc \in {"write", "ask"} /\ scan'[s].listed = {} /\ scan'[s].cur = r
        /\ scan'[s].todo = scan[s].todo \ {r}
        /\ \A t \in Scans : t # s => scan'[t] = scan[t]
    BY <1>0, <1>4 DEF ScanPicks, ScanAt, TypeOK, ScanStates
  <2>2. UNCHANGED <<files, subagents>>
    BY <1>4 DEF ScanPicks
  <2>3. Orderly'
    BY <2>1 DEF CleanInv, Orderly, ScanAt
  <2>4. \A q \in Subagents : Pends(s, q)' => Pends(s, q)
    BY <2>1 DEF Pends
  <2> QED
    BY <2>1, <2>2, <2>3, <2>4, ScanMovesOn DEF files, subagents
<1>5. CASE PromptTimesOut(s) \/ \E d \in Decisions : UserAnswers(s, d)
  <2>1. /\ scan[s].pc = "ask" /\ scan'[s].pc = "write" /\ scan'[s].listed = scan[s].listed
        /\ scan'[s].todo = scan[s].todo /\ scan'[s].cur = scan[s].cur
        /\ \A t \in Scans : t # s => scan'[t] = scan[t]
    BY <1>0, <1>5 DEF PromptTimesOut, UserAnswers, ScanAt, ScanGoto, TypeOK, ScanStates
  <2>2. UNCHANGED <<files, subagents>>
    BY <1>5 DEF PromptTimesOut, UserAnswers
  <2>3. Orderly'
    BY <2>1 DEF CleanInv, Orderly, ScanAt
  <2>4. \A q \in Subagents : Pends(s, q)' => Pends(s, q)
    BY <2>1 DEF Pends
  <2> QED
    BY <2>1, <2>2, <2>3, <2>4, ScanMovesOn DEF files, subagents
<1>6. CASE ScanDeletes(s)
  <2>1. /\ scan[s].pc = "delete" /\ scan'[s].pc = "pick" /\ scan'[s].listed = scan[s].listed
        /\ scan'[s].todo = scan[s].todo /\ requests' = requests \ {scan[s].cur}
        /\ \A t \in Scans : t # s => scan'[t] = scan[t]
    BY <1>0, <1>6 DEF ScanDeletes, ScanAt, ScanGoto, TypeOK, ScanStates
  <2>2. responses' = responses /\ UNCHANGED subagents
    BY <1>6 DEF ScanDeletes
  <2>3. Orderly'
    BY <2>1 DEF CleanInv, Orderly, ScanAt
  <2>4. \A q \in Subagents : Pends(s, q)' => Pends(s, q)
    BY <2>1 DEF Pends
  <2> QED
    BY <2>1, <2>2, <2>3, <2>4, ScanMovesOn DEF subagents
<1>7. CASE ScanWrites(s)
  <2>1. /\ scan[s].pc = "write" /\ scan'[s].listed = scan[s].listed
        /\ scan'[s].todo = scan[s].todo /\ scan'[s].cur = scan[s].cur
        /\ \/ scan'[s].pc = "pick" /\ responses' = responses
           \/ /\ scan'[s].pc = "delete"
              /\ responses' = [responses EXCEPT ![scan[s].cur] = scan[s].decision]
        /\ \A t \in Scans : t # s => scan'[t] = scan[t]
    BY <1>0, <1>7 DEF ScanWrites, ScanAt, ScanGoto, TypeOK, ScanStates
  <2>2. requests' = requests /\ UNCHANGED subagents
    BY <1>7 DEF ScanWrites
  <2>3. Orderly'
    BY <2>1 DEF CleanInv, Orderly, ScanAt
  <2>4. CASE responses' = responses
    <3>1. \A q \in Subagents : Pends(s, q)' => Pends(s, q)
      BY <2>1 DEF Pends
    <3> QED
      BY <2>1, <2>2, <2>3, <2>4, <3>1, ScanMovesOn DEF subagents
  <2>5. CASE scan'[s].pc = "delete" /\ responses' = [responses EXCEPT ![scan[s].cur] = scan[s].decision]
    <3> DEFINE r == scan[s].cur
    <3>1. \A q \in Subagents : q # r => responses'[q] = responses[q]
      BY <1>0, <2>5 DEF TypeOK
    <3>2. r \in Subagents => responses'[r] # "none"
      BY <1>0, <2>5 DEF TypeOK, ScanStates, Decisions
    <3>3. r \in Subagents => Unanswered(r)
      BY <2>1 DEF CleanInv, Fresh, Pends
    <3>4. \A q \in Subagents, t \in Scans : Pends(t, q)' => q # r
      <4>1. \A t \in Scans : t # s => scan[t].pc = "idle"
        BY <2>1 DEF CleanInv, ScanInv, OneScan, ScanAt
      <4> QED
        BY <2>1, <2>5, <4>1 DEF CleanInv, Orderly, Pends, ScanAt
    <3>5. \A q \in Subagents, t \in Scans : Pends(t, q)' => Pends(t, q)
      BY <2>1, <2>5 DEF Pends
    <3>6. Lived'
      BY <2>2, <3>1, <3>2, <3>3 DEF CleanInv, Lived, Unanswered, subagents
    <3>7. \A q \in Subagents : q # r => (Unanswered(q)' <=> Unanswered(q))
      BY <2>2, <3>1 DEF Unanswered, subagents
    <3>8. \A q \in Subagents, t \in Scans : Pends(t, q)' => Unanswered(q)'
      BY <3>4, <3>5, <3>7 DEF CleanInv, Fresh
    <3>9. ASSUME NEW q \in Subagents, q \in requests', ~Unanswered(q)'
          PROVE  \E t \in Scans : scan'[t].pc = "delete" /\ scan'[t].cur = q
      <4>1. CASE q = r
        BY <2>1, <2>5, <4>1
      <4>2. CASE q # r
        <5>1. ~Unanswered(q) /\ q \in requests
          BY <2>2, <3>7, <3>9, <4>2
        <5>2. PICK t \in Scans : scan[t].pc = "delete" /\ scan[t].cur = q
          BY <5>1 DEF CleanInv, Fresh
        <5> QED
          BY <2>1, <5>2
      <4> QED
        BY <4>1, <4>2
    <3> QED
      BY <2>3, <3>6, <3>8, <3>9 DEF Fresh
  <2> QED
    BY <2>1, <2>4, <2>5
<1> QED
  BY <1>1, <1>2, <1>3, <1>4, <1>5, <1>6, <1>7 DEF ScanStep

(* The invariant is inductive.                                             *)
LEMMA CleanStep == CleanInv /\ [Next]_vars => CleanInv'
<1> SUFFICES ASSUME CleanInv, [Next]_vars PROVE CleanInv'
  OBVIOUS
<1>0. ScanInv' /\ TypeOK'
  BY ScanInvStep DEF CleanInv, ScanInv
<1>1. ASSUME NEW r \in Subagents, Asks(r) \/ Expire(r) \/ Killed(r) PROVE CleanInv'
  BY <1>0, <1>1, AskingIsClean DEF CleanInv
<1>2. ASSUME NEW s \in Scans,
             ScanDue(s) \/ ScanStep(s) \/ PromptTimesOut(s) \/ \E d \in Decisions : UserAnswers(s, d)
      PROVE  CleanInv'
  BY <1>0, <1>2, ScanningIsClean DEF CleanInv
<1>3. CASE Listen \/ Close \/ UNCHANGED vars
  <2>1. /\ requests' = requests /\ responses' = responses /\ subagent' = subagent
        /\ expired' = expired /\ scan' = scan
    BY <1>3 DEF Listen, Close, vars, files, subagents, scanning
  <2> QED
    BY <1>0, <2>1 DEF CleanInv, Orderly, Lived, Fresh, Pends, Unanswered, ScanAt
<1> QED
  BY <1>1, <1>2, <1>3 DEF Next

LEMMA CleanInit == Init => CleanInv
BY ScanInvInit DEF Init, CleanInv, Orderly, Lived, Fresh, Pends, Unanswered, ScanAt, Idle

(* A subagent that is done leaves no request, and no response but one that *)
(* came after its deadline: with any number of subagents and scans, and    *)
(* although directories, files and scans of the others come in between.    *)
THEOREM NothingIsLeft == Spec => []DoneLeavesNothing
<1>1. CleanInv => DoneLeavesNothing
  BY DEF CleanInv, Lived, DoneLeavesNothing, At
<1> QED
  BY <1>1, CleanInit, CleanStep, PTL DEF Spec
=============================================================================
