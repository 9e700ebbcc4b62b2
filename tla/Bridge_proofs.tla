---------------------------- MODULE Bridge_proofs ----------------------------
(***************************************************************************)
(* Proofs about the parts of the Discord bridge.  CoordinatorHandoff: every *)
(* stage from the run on lies behind an accept report that was tried.      *)
(* ChannelAdmission: the future of an event is owned by exactly the task    *)
(* that asked, and every answer on its way is a binding the channel had     *)
(* since the event.  DirectSession: under the daemon's lock at most one     *)
(* scope is active, and a request resumes what that scope holds.  Together  *)
(* they are about the suite of MCBridge, whose parts do not disturb each    *)
(* other.                                                                   *)
(***************************************************************************)
EXTENDS MCBridge, TLAPS

\* From the run on an accept report was tried; a handler that is over tried one
\* or a blocker.
Reported ==
  \A m \in Handoffs :
    /\ hMsg[m].pc \in {"run", "respond"} \/ hJob[m].status # "none" => "accept" \in hTried[m]
    /\ hMsg[m].pc = "over" => hTried[m] \cap {"accept", "blocker"} # {}

\* A run starts behind the announcement only.
RunFollows ==
  \A m \in Handoffs :
    hMsg[m].pc \in {"none", "gated", "accept", "bootstrap", "announce"} => hJob[m].status = "none"

HandoffInv == HandoffTypeOK /\ Reported /\ RunFollows /\ FinishedRunReports

\* The invariant holds initially.
LEMMA HandoffInitially == HandoffInit => HandoffInv
BY DEF HandoffInit, HandoffInv, HandoffTypeOK, Reported, RunFollows, FinishedRunReports, At,
   Handler, HandoffJob, HandoffPc, AnswerTexts, JobStatus, Outcomes, Reports

\* A handler that goes on is a handler.
LEMMA GotoTypes ==
  ASSUME NEW m \in Handoffs, NEW pc \in HandoffPc, HandoffTypeOK, Goto(m, pc)
  PROVE  hMsg' \in [Handoffs -> Handler]
BY DEF HandoffTypeOK, Goto, Handler

\* And so is one with an answer.
LEMMA AnsweredTypes ==
  ASSUME NEW m \in Handoffs, NEW text \in AnswerTexts, NEW failed \in BOOLEAN,
         HandoffTypeOK, Answered(m, text, failed)
  PROVE  hMsg' \in [Handoffs -> Handler]
<1>1. ASSUME NEW h \in Handler
      PROVE  [h EXCEPT !.pc = "respond", !.text = text, !.failed = failed] \in Handler
  BY DEF Handler, HandoffPc
<1>2. hMsg[m] \in Handler
  BY DEF HandoffTypeOK
<1>3. hMsg' = [hMsg EXCEPT ![m] =
                 [hMsg[m] EXCEPT !.pc = "respond", !.text = text, !.failed = failed]]
  BY <1>2 DEF Answered, HandoffTypeOK, Handler
<1> QED BY <1>1, <1>2, <1>3 DEF HandoffTypeOK

\* Every step keeps the invariant.
LEMMA HandoffPreserved == HandoffInv /\ [HandoffNext]_handoffVars => HandoffInv'
<1> SUFFICES ASSUME HandoffInv, [HandoffNext]_handoffVars PROVE HandoffInv'
  OBVIOUS
<1> USE DEF HandoffInv, Handler, HandoffJob
<1>1. ASSUME NEW m \in Handoffs, NEW review \in BOOLEAN, NEW authorised \in BOOLEAN, TakeHandoff(m, review, authorised) PROVE HandoffInv'
  <2>1. HandoffTypeOK'
    <3> DEFINE next == IF hManaged /\ ~authorised THEN "gated"
                       ELSE IF review THEN "bootstrap" ELSE "accept"
               taken == [hMsg[m] EXCEPT !.review = review, !.pc = next]
    <3>1. next \in HandoffPc
      BY DEF HandoffPc
    <3>2. hMsg' = [hMsg EXCEPT ![m] = taken] /\ hMsg[m] \in Handler
      BY <1>1 DEF TakeHandoff, HandoffTypeOK
    <3> HIDE DEF next
    <3>3. taken \in Handler
      BY <3>1, <3>2
    <3> HIDE DEF taken
    <3>4. hMsg' \in [Handoffs -> Handler]
      BY <3>2, <3>3 DEF HandoffTypeOK
    <3>5. hCli' \in [Handoffs -> {"none", "running", "recorded", "ended"}]
      BY <1>1 DEF TakeHandoff, HandoffTypeOK
    <3> QED BY <1>1, <3>4, <3>5 DEF TakeHandoff, HandoffTypeOK
  <2>2. Reported'
    BY <1>1 DEF TakeHandoff, At, Reported, HandoffTypeOK, RunFollows
  <2>3. RunFollows'
    BY <1>1 DEF TakeHandoff, At, RunFollows, HandoffTypeOK
  <2>4. FinishedRunReports'
    BY <1>1 DEF TakeHandoff, FinishedRunReports, HandoffTypeOK, RunFollows, At, AnswerTexts
  <2> QED BY <2>1, <2>2, <2>3, <2>4
<1>2. ASSUME NEW m \in Handoffs, RecordAccept(m) PROVE HandoffInv'
  <2>1. HandoffTypeOK'
    BY <1>2 DEF RecordAccept, HandoffTypeOK, HandoffPc, AnswerTexts, JobStatus, Outcomes, Reports
  <2>2. Reported'
    BY <1>2 DEF RecordAccept, Reported, HandoffTypeOK, RunFollows
  <2>3. RunFollows'
    BY <1>2 DEF RecordAccept, RunFollows, HandoffTypeOK
  <2>4. FinishedRunReports'
    BY <1>2 DEF RecordAccept, FinishedRunReports, HandoffTypeOK, RunFollows, At, AnswerTexts
  <2> QED BY <2>1, <2>2, <2>3, <2>4
<1>3. ASSUME NEW m \in Handoffs, AcceptFails(m) PROVE HandoffInv'
  <2>1. HandoffTypeOK'
    BY <1>3 DEF AcceptFails, HandoffTypeOK, HandoffPc, AnswerTexts, JobStatus, Outcomes, Reports
  <2>2. Reported'
    BY <1>3 DEF AcceptFails, Reported, HandoffTypeOK, RunFollows
  <2>3. RunFollows'
    BY <1>3 DEF AcceptFails, RunFollows, HandoffTypeOK
  <2>4. FinishedRunReports'
    BY <1>3 DEF AcceptFails, FinishedRunReports, HandoffTypeOK, RunFollows, At, AnswerTexts
  <2> QED BY <2>1, <2>2, <2>3, <2>4
<1>4. ASSUME NEW m \in Handoffs, AcceptSucceeded(m) PROVE HandoffInv'
  <2>1. HandoffTypeOK'
    <3>1. Goto(m, "bootstrap") /\ "bootstrap" \in HandoffPc
      BY <1>4 DEF AcceptSucceeded, HandoffPc
    <3>2. hMsg' \in [Handoffs -> Handler]
      BY <3>1, GotoTypes
    <3> QED BY <1>4, <3>2 DEF AcceptSucceeded, HandoffTypeOK
  <2>2. Reported'
    BY <1>4 DEF AcceptSucceeded, At, Goto, Reported, HandoffTypeOK, RunFollows
  <2>3. RunFollows'
    BY <1>4 DEF AcceptSucceeded, At, Goto, RunFollows, HandoffTypeOK
  <2>4. FinishedRunReports'
    BY <1>4 DEF AcceptSucceeded, Goto, FinishedRunReports, HandoffTypeOK, RunFollows, At,
           AnswerTexts
  <2> QED BY <2>1, <2>2, <2>3, <2>4
<1>5. ASSUME NEW m \in Handoffs, AcceptFailed(m) PROVE HandoffInv'
  <2>1. HandoffTypeOK'
    BY <1>5 DEF AcceptFailed, At, Goto, HandoffTypeOK, HandoffPc, AnswerTexts, JobStatus,
           Outcomes, Reports
  <2>2. Reported'
    BY <1>5 DEF AcceptFailed, At, Goto, Reported, HandoffTypeOK, RunFollows
  <2>3. RunFollows'
    BY <1>5 DEF AcceptFailed, At, Goto, RunFollows, HandoffTypeOK
  <2>4. FinishedRunReports'
    BY <1>5 DEF AcceptFailed, Goto, FinishedRunReports, HandoffTypeOK, RunFollows, At, AnswerTexts
  <2> QED BY <2>1, <2>2, <2>3, <2>4
<1>6. ASSUME NEW m \in Handoffs, NEW found \in BOOLEAN, ReadBootstrap(m, found) PROVE HandoffInv'
  <2>1. HandoffTypeOK'
    BY <1>6 DEF ReadBootstrap, AfterBootstrap, At, Goto, HandoffTypeOK, HandoffPc, AnswerTexts,
           JobStatus, Outcomes, Reports
  <2>2. Reported'
    BY <1>6 DEF ReadBootstrap, AfterBootstrap, At, Goto, Reported, HandoffTypeOK, RunFollows
  <2>3. RunFollows'
    BY <1>6 DEF ReadBootstrap, AfterBootstrap, At, Goto, RunFollows, HandoffTypeOK
  <2>4. FinishedRunReports'
    BY <1>6 DEF ReadBootstrap, AfterBootstrap, Goto, FinishedRunReports, HandoffTypeOK,
           RunFollows, At, AnswerTexts
  <2> QED BY <2>1, <2>2, <2>3, <2>4
<1>7. ASSUME NEW m \in Handoffs, BootstrapUnreadable(m) PROVE HandoffInv'
  <2>1. HandoffTypeOK'
    <3>1. Goto(m, "raised") /\ "raised" \in HandoffPc
      BY <1>7 DEF BootstrapUnreadable, HandoffPc
    <3>2. hMsg' \in [Handoffs -> Handler]
      BY <3>1, GotoTypes
    <3> QED BY <1>7, <3>2 DEF BootstrapUnreadable, HandoffTypeOK
  <2>2. Reported'
    BY <1>7 DEF BootstrapUnreadable, At, Goto, Reported, HandoffTypeOK, RunFollows
  <2>3. RunFollows'
    BY <1>7 DEF BootstrapUnreadable, At, Goto, RunFollows, HandoffTypeOK
  <2>4. FinishedRunReports'
    BY <1>7 DEF BootstrapUnreadable, Goto, FinishedRunReports, HandoffTypeOK, RunFollows, At,
           AnswerTexts
  <2> QED BY <2>1, <2>2, <2>3, <2>4
<1>8. ASSUME NEW m \in Handoffs, NEW sent \in BOOLEAN, ReportBlocker(m, sent) PROVE HandoffInv'
  <2>1. HandoffTypeOK'
    BY <1>8, SMTT(30) DEF ReportBlocker, At, Goto, Try, HandoffTypeOK, HandoffPc, AnswerTexts,
         JobStatus, Outcomes, Reports
  <2>2. Reported'
    BY <1>8, ZenonT(60) DEF ReportBlocker, At, Goto, Try, Reported, HandoffTypeOK, RunFollows
  <2>3. RunFollows'
    BY <1>8 DEF ReportBlocker, At, Goto, Try, RunFollows, HandoffTypeOK
  <2>4. FinishedRunReports'
    BY <1>8 DEF ReportBlocker, Goto, Try, FinishedRunReports, HandoffTypeOK, RunFollows, At,
           AnswerTexts
  <2> QED BY <2>1, <2>2, <2>3, <2>4
<1>9. ASSUME NEW m \in Handoffs, NEW sent \in BOOLEAN, AnnounceAccept(m, sent) PROVE HandoffInv'
  <2>1. HandoffTypeOK'
    BY <1>9, SMTT(30) DEF AnnounceAccept, At, Goto, Try, HandoffTypeOK, HandoffPc,
         AnswerTexts, JobStatus, Outcomes, Reports
  <2>2. Reported'
    BY <1>9 DEF AnnounceAccept, At, Goto, Try, Reported, HandoffTypeOK, RunFollows
  <2>3. RunFollows'
    BY <1>9 DEF AnnounceAccept, At, Goto, Try, RunFollows, HandoffTypeOK
  <2>4. FinishedRunReports'
    BY <1>9 DEF AnnounceAccept, Goto, Try, FinishedRunReports, HandoffTypeOK, RunFollows, At,
           AnswerTexts
  <2> QED BY <2>1, <2>2, <2>3, <2>4
<1>10. ASSUME NEW m \in Handoffs, StartRun(m) PROVE HandoffInv'
  <2>1. HandoffTypeOK'
    BY <1>10, ZenonT(60) DEF StartRun, At, HandoffTypeOK, HandoffPc, AnswerTexts, JobStatus,
         Outcomes, Reports
  <2>2. Reported'
    BY <1>10 DEF StartRun, At, Reported, HandoffTypeOK, RunFollows
  <2>3. RunFollows'
    BY <1>10 DEF StartRun, At, RunFollows, HandoffTypeOK
  <2>4. FinishedRunReports'
    BY <1>10 DEF StartRun, FinishedRunReports, HandoffTypeOK, RunFollows, At, AnswerTexts
  <2> QED BY <2>1, <2>2, <2>3, <2>4
<1>11. ASSUME NEW m \in Handoffs, SubmitRefused(m) PROVE HandoffInv'
  <2>1. HandoffTypeOK'
    <3>1. Answered(m, "error", TRUE) /\ "error" \in AnswerTexts /\ TRUE \in BOOLEAN
      BY <1>11 DEF SubmitRefused, AnswerTexts
    <3>2. hMsg' \in [Handoffs -> Handler]
      BY <3>1, AnsweredTypes
    <3> QED BY <1>11, <3>2 DEF SubmitRefused, HandoffTypeOK
  <2>2. Reported'
    BY <1>11 DEF SubmitRefused, At, Answered, Reported, HandoffTypeOK, RunFollows
  <2>3. RunFollows'
    BY <1>11 DEF SubmitRefused, At, Answered, RunFollows, HandoffTypeOK
  <2>4. FinishedRunReports'
    BY <1>11 DEF SubmitRefused, Answered, FinishedRunReports, HandoffTypeOK, RunFollows, At,
           AnswerTexts
  <2> QED BY <2>1, <2>2, <2>3, <2>4
<1>12. ASSUME NEW m \in Handoffs, CallRaises(m) PROVE HandoffInv'
  <2>1. HandoffTypeOK'
    BY <1>12 DEF CallRaises, At, Goto, HandoffTypeOK, HandoffPc, AnswerTexts, JobStatus,
           Outcomes, Reports
  <2>2. Reported'
    BY <1>12 DEF CallRaises, At, Goto, Reported, HandoffTypeOK, RunFollows
  <2>3. RunFollows'
    BY <1>12 DEF CallRaises, At, Goto, RunFollows, HandoffTypeOK
  <2>4. FinishedRunReports'
    BY <1>12 DEF CallRaises, Goto, FinishedRunReports, HandoffTypeOK, RunFollows, At, AnswerTexts
  <2> QED BY <2>1, <2>2, <2>3, <2>4
<1>13. ASSUME NEW m \in Handoffs, ReadResult(m) PROVE HandoffInv'
  <2>1. HandoffTypeOK'
    <3>1. Answered(m, hJob[m].text, RunFailed(hJob[m])) /\ hJob[m].text \in AnswerTexts /\ RunFailed(hJob[m]) \in BOOLEAN
      BY <1>13 DEF ReadResult, AnswerTexts, HandoffTypeOK, RunFailed
    <3>2. hMsg' \in [Handoffs -> Handler]
      BY <3>1, AnsweredTypes
    <3> QED BY <1>13, <3>2 DEF ReadResult, HandoffTypeOK
  <2>2. Reported'
    BY <1>13 DEF ReadResult, At, Answered, RunFailed, Reported, HandoffTypeOK, RunFollows
  <2>3. RunFollows'
    BY <1>13 DEF ReadResult, At, Answered, RunFailed, RunFollows, HandoffTypeOK
  <2>4. FinishedRunReports'
    BY <1>13 DEF ReadResult, Answered, RunFailed, FinishedRunReports, HandoffTypeOK, RunFollows,
           At, AnswerTexts
  <2> QED BY <2>1, <2>2, <2>3, <2>4
<1>14. ASSUME NEW m \in Handoffs, WaitTimesOut(m) PROVE HandoffInv'
  <2>1. HandoffTypeOK'
    <3>1. Answered(m, "error", TRUE) /\ "error" \in AnswerTexts /\ TRUE \in BOOLEAN
      BY <1>14 DEF WaitTimesOut, AnswerTexts
    <3>2. hMsg' \in [Handoffs -> Handler]
      BY <3>1, AnsweredTypes
    <3> QED BY <1>14, <3>2 DEF WaitTimesOut, HandoffTypeOK
  <2>2. Reported'
    BY <1>14 DEF WaitTimesOut, At, Answered, Reported, HandoffTypeOK, RunFollows
  <2>3. RunFollows'
    BY <1>14 DEF WaitTimesOut, At, Answered, RunFollows, HandoffTypeOK
  <2>4. FinishedRunReports'
    BY <1>14 DEF WaitTimesOut, Answered, FinishedRunReports, HandoffTypeOK, RunFollows, At,
           AnswerTexts
  <2> QED BY <2>1, <2>2, <2>3, <2>4
<1>15. ASSUME NEW m \in Handoffs, NEW status \in {"done", "failed"}, NEW outcome \in Outcomes, NEW text \in AnswerTexts, EndRun(m, status, outcome, text) PROVE HandoffInv'
  <2>1. HandoffTypeOK'
    BY <1>15 DEF EndRun, HandoffTypeOK, HandoffPc, AnswerTexts, JobStatus, Outcomes, Reports
  <2>2. Reported'
    BY <1>15 DEF EndRun, Reported, HandoffTypeOK, RunFollows
  <2>3. RunFollows'
    BY <1>15 DEF EndRun, RunFollows, HandoffTypeOK
  <2>4. FinishedRunReports'
    BY <1>15 DEF EndRun, FinishedRunReports, HandoffTypeOK, RunFollows, At, AnswerTexts
  <2> QED BY <2>1, <2>2, <2>3, <2>4
<1>16. ASSUME NEW m \in Handoffs, Respond(m) PROVE HandoffInv'
  <2>1. HandoffTypeOK'
    BY <1>16 DEF Respond, At, Goto, Carried, Fallback, HasExecutionReport, HandoffTypeOK,
           HandoffPc, AnswerTexts, JobStatus, Outcomes, Reports
  <2>2. Reported'
    BY <1>16 DEF Respond, At, Goto, Carried, Fallback, HasExecutionReport, Reported,
           HandoffTypeOK, RunFollows
  <2>3. RunFollows'
    BY <1>16 DEF Respond, At, Goto, Carried, Fallback, HasExecutionReport, RunFollows,
           HandoffTypeOK
  <2>4. FinishedRunReports'
    BY <1>16 DEF Respond, Goto, Carried, Fallback, HasExecutionReport, FinishedRunReports,
           HandoffTypeOK, RunFollows, At, AnswerTexts
  <2> QED BY <2>1, <2>2, <2>3, <2>4
<1>17. ASSUME NEW m \in Handoffs, ResponseUnsent(m) PROVE HandoffInv'
  <2>1. HandoffTypeOK'
    <3>1. Goto(m, "raised") /\ "raised" \in HandoffPc
      BY <1>17 DEF ResponseUnsent, HandoffPc
    <3>2. hMsg' \in [Handoffs -> Handler]
      BY <3>1, GotoTypes
    <3> QED BY <1>17, <3>2 DEF ResponseUnsent, HandoffTypeOK
  <2>2. Reported'
    BY <1>17 DEF ResponseUnsent, At, Goto, Reported, HandoffTypeOK, RunFollows
  <2>3. RunFollows'
    BY <1>17 DEF ResponseUnsent, At, Goto, RunFollows, HandoffTypeOK
  <2>4. FinishedRunReports'
    BY <1>17 DEF ResponseUnsent, Goto, FinishedRunReports, HandoffTypeOK, RunFollows, At,
           AnswerTexts
  <2> QED BY <2>1, <2>2, <2>3, <2>4
<1>18. ASSUME HandoffCrash PROVE HandoffInv'
  <2>1. \A m \in Handoffs :
          /\ hMsg'[m] \in {hMsg[m], [hMsg[m] EXCEPT !.pc = "lost"]}
          /\ hJob'[m] \in {hJob[m], [hJob[m] EXCEPT !.status = "failed"]}
          /\ hJob'[m].status = "none" <=> hJob[m].status = "none"
          /\ hMsg'[m].pc \in {"none", "over"} => hMsg'[m] = hMsg[m]
          /\ hMsg'[m].pc \in {"none", "over", "raised", "lost"}
    BY <1>18 DEF HandoffCrash, HandoffTypeOK
  <2>2. UNCHANGED <<hManaged, hCli, hTried, hKept>>
    BY <1>18 DEF HandoffCrash
  <2>3. HandoffTypeOK'
    <3>1. ASSUME NEW m \in Handoffs PROVE hMsg'[m] \in Handler /\ hJob'[m] \in HandoffJob
      BY <2>1, ZenonT(60) DEF HandoffTypeOK, HandoffPc, JobStatus
    <3>2. hMsg' \in [Handoffs -> Handler] /\ hJob' \in [Handoffs -> HandoffJob]
      BY <1>18, <3>1 DEF HandoffCrash
    <3> QED BY <2>2, <3>2 DEF HandoffTypeOK
  <2>4. Reported' /\ RunFollows' /\ FinishedRunReports'
    BY <2>1, <2>2 DEF Reported, RunFollows, FinishedRunReports, At
  <2> QED BY <2>3, <2>4
<1>19. ASSUME UNCHANGED handoffVars PROVE HandoffInv'
  BY <1>19 DEF handoffVars, HandoffTypeOK, Reported, RunFollows, FinishedRunReports, At
<1> HIDE DEF HandoffInv
<1> QED BY <1>1, <1>2, <1>3, <1>4, <1>5, <1>6, <1>7, <1>8, <1>9, <1>10, <1>11, <1>12, <1>13,
       <1>14, <1>15, <1>16, <1>17, <1>18, <1>19 DEF HandoffNext

\* The invariant holds in every behaviour of the handoffs.
LEMMA HandoffInvariant == HandoffSpec => []HandoffInv
BY HandoffInitially, HandoffPreserved, PTL DEF HandoffSpec

\* The state of the handoffs always has its type.
THEOREM HandoffTypes == HandoffSpec => []HandoffTypeOK
BY HandoffInvariant, PTL DEF HandoffInv

\* Whatever times out or is missing, a handler that returns has answered the
\* coordinator: AfterBootstrap, the gates and the accept of CoordinatorHandoff.
THEOREM NoHandoffIsSilent == HandoffSpec => []NoSilentHandoff
<1>1. HandoffInv => NoSilentHandoff
  BY DEF HandoffInv, Reported, NoSilentHandoff, At
<1> QED BY <1>1, HandoffInvariant, PTL

\* In direct mode every run whose answer was shown is reported: the report lines
\* of the answer or _send_missing_report_fallback.
THEOREM RunsAreReported == HandoffSpec => []FinishedRunReports
BY HandoffInvariant, PTL DEF HandoffInv

\* From the bootstrap on the handoff has its owner, unless it is a review.
Owned(m) == hCli[m] = "recorded" \/ hMsg[m].review
OwnedBehindAccept ==
  \A m \in Handoffs :
    hMsg[m].pc \in {"bootstrap", "announce", "run", "respond"} => Owned(m)

\* Nothing runs for a handoff whose owner Coordinate has not recorded: an accept
\* command that failed, timed out or was killed before it recorded the owner starts
\* no run.  A review has no owner to record.
RunsAreOwned == \A m \in Handoffs : hJob[m].status # "none" => Owned(m)

\* Every step keeps the owners.
LEMMA OwnersPreserved ==
  HandoffInv /\ OwnedBehindAccept /\ RunsAreOwned /\ [HandoffNext]_handoffVars
    => OwnedBehindAccept' /\ RunsAreOwned'
<1> SUFFICES ASSUME HandoffInv, OwnedBehindAccept, RunsAreOwned, [HandoffNext]_handoffVars
             PROVE  OwnedBehindAccept' /\ RunsAreOwned'
  OBVIOUS
<1> USE DEF HandoffInv, HandoffTypeOK, Handler, HandoffJob, OwnedBehindAccept, RunsAreOwned, Owned,
            At, Goto
<1>1. ASSUME NEW m \in Handoffs, NEW review \in BOOLEAN, NEW authorised \in BOOLEAN, TakeHandoff(m, review, authorised)
      PROVE  OwnedBehindAccept' /\ RunsAreOwned'
  BY <1>1 DEF TakeHandoff, RunFollows
<1>2. ASSUME NEW m \in Handoffs, RecordAccept(m)
      PROVE  OwnedBehindAccept' /\ RunsAreOwned'
  BY <1>2 DEF RecordAccept
<1>3. ASSUME NEW m \in Handoffs, AcceptFails(m)
      PROVE  OwnedBehindAccept' /\ RunsAreOwned'
  BY <1>3 DEF AcceptFails
<1>4. ASSUME NEW m \in Handoffs, AcceptSucceeded(m)
      PROVE  OwnedBehindAccept' /\ RunsAreOwned'
  BY <1>4 DEF AcceptSucceeded
<1>5. ASSUME NEW m \in Handoffs, AcceptFailed(m)
      PROVE  OwnedBehindAccept' /\ RunsAreOwned'
  BY <1>5 DEF AcceptFailed
<1>6. ASSUME NEW m \in Handoffs, NEW found \in BOOLEAN, ReadBootstrap(m, found)
      PROVE  OwnedBehindAccept' /\ RunsAreOwned'
  BY <1>6 DEF ReadBootstrap, AfterBootstrap
<1>7. ASSUME NEW m \in Handoffs, BootstrapUnreadable(m)
      PROVE  OwnedBehindAccept' /\ RunsAreOwned'
  BY <1>7 DEF BootstrapUnreadable
<1>8. ASSUME NEW m \in Handoffs, NEW sent \in BOOLEAN, ReportBlocker(m, sent)
      PROVE  OwnedBehindAccept' /\ RunsAreOwned'
  BY <1>8 DEF ReportBlocker
<1>9. ASSUME NEW m \in Handoffs, NEW sent \in BOOLEAN, AnnounceAccept(m, sent)
      PROVE  OwnedBehindAccept' /\ RunsAreOwned'
  BY <1>9 DEF AnnounceAccept
<1>10. ASSUME NEW m \in Handoffs, StartRun(m)
      PROVE  OwnedBehindAccept' /\ RunsAreOwned'
  BY <1>10 DEF StartRun
<1>11. ASSUME NEW m \in Handoffs, SubmitRefused(m)
      PROVE  OwnedBehindAccept' /\ RunsAreOwned'
  BY <1>11 DEF SubmitRefused, Answered
<1>12. ASSUME NEW m \in Handoffs, CallRaises(m)
      PROVE  OwnedBehindAccept' /\ RunsAreOwned'
  BY <1>12 DEF CallRaises
<1>13. ASSUME NEW m \in Handoffs, ReadResult(m)
      PROVE  OwnedBehindAccept' /\ RunsAreOwned'
  BY <1>13 DEF ReadResult, Answered
<1>14. ASSUME NEW m \in Handoffs, WaitTimesOut(m)
      PROVE  OwnedBehindAccept' /\ RunsAreOwned'
  BY <1>14 DEF WaitTimesOut, Answered
<1>15. ASSUME NEW m \in Handoffs, NEW status \in {"done", "failed"}, NEW outcome \in Outcomes, NEW text \in AnswerTexts, EndRun(m, status, outcome, text)
      PROVE  OwnedBehindAccept' /\ RunsAreOwned'
  BY <1>15 DEF EndRun
<1>16. ASSUME NEW m \in Handoffs, Respond(m)
      PROVE  OwnedBehindAccept' /\ RunsAreOwned'
  BY <1>16 DEF Respond
<1>17. ASSUME NEW m \in Handoffs, ResponseUnsent(m)
      PROVE  OwnedBehindAccept' /\ RunsAreOwned'
  BY <1>17 DEF ResponseUnsent
<1>18. ASSUME HandoffCrash PROVE OwnedBehindAccept' /\ RunsAreOwned'
  BY <1>18 DEF HandoffCrash
<1>19. ASSUME UNCHANGED handoffVars PROVE OwnedBehindAccept' /\ RunsAreOwned'
  BY <1>19 DEF handoffVars
<1> QED BY <1>1, <1>2, <1>3, <1>4, <1>5, <1>6, <1>7, <1>8, <1>9, <1>10, <1>11, <1>12, <1>13,
       <1>14, <1>15, <1>16, <1>17, <1>18, <1>19 DEF HandoffNext

\* No run without an owner, whatever crashes or times out: _try_coordinator_handoff
\* goes on only behind execute_assignment_accept.
THEOREM NoUnownedRun == HandoffSpec => []RunsAreOwned
<1>1. HandoffInit => OwnedBehindAccept /\ RunsAreOwned
  BY DEF HandoffInit, OwnedBehindAccept, RunsAreOwned
<1> QED BY <1>1, OwnersPreserved, HandoffInvariant, PTL DEF HandoffSpec

-----------------------------------------------------------------------------
\* The task of an event that asks owns the future, and only it.
OwnerAsks ==
  \A c \in Clients, e \in Events : cTask[c][e].pc = "lookup" <=> cFuture[KeyOf(c, e)] = c

\* The owner of a future is one of its clients.
OwnerShares == \A k \in Keys : cFuture[k] \in Clients => Authority[cFuture[k]] = k[1]

WaitsForFuture ==
  \A c \in Clients, e \in Events :
    cTask[c][e].pc = "waiting" => cFuture[KeyOf(c, e)] # NoFuture

\* What was bound since an event includes what is bound now, from the first client on.
SinceCurrent ==
  /\ \A e \in Events : cSince[e] # {} => cBinding \in cSince[e]
  /\ \A c \in Clients, e \in Events : cTask[c][e].pc # "none" => cSince[e] # {}

AdmissionInv ==
  /\ AdmissionTypeOK /\ OwnerAsks /\ OwnerShares /\ WaitsForFuture
  /\ SinceCurrent /\ BindingNotOlderThanEvent

\* Keys name their event.
LEMMA KeysNameEvents ==
  /\ \A c \in Clients, e \in Events : KeyOf(c, e) \in Keys
  /\ \A c, d \in Clients, e, f \in Events :
       KeyOf(c, e) = KeyOf(d, f) <=> e = f /\ Authority[c] = Authority[d]
  /\ \A k \in Keys, c \in Clients :
       Authority[c] = k[1] => \E e \in Events : k = KeyOf(c, e)
BY DEF Keys, KeyOf

\* The invariant holds initially.
LEMMA AdmissionInitially == AdmissionInit => AdmissionInv
<1> SUFFICES ASSUME AdmissionInit PROVE AdmissionInv
  OBVIOUS
<1>1. AdmissionTypeOK
  BY DEF AdmissionInit, AdmissionTypeOK, Task, AdmissionPc, Answers
<1>2. NoFuture \notin Clients /\ "none" \notin Bindings
  BY AdmissionConstants DEF NoFuture, Bindings
<1>3. OwnerAsks /\ OwnerShares /\ WaitsForFuture /\ SinceCurrent /\ BindingNotOlderThanEvent
  BY <1>2, KeysNameEvents DEF AdmissionInit, OwnerAsks, OwnerShares, WaitsForFuture, SinceCurrent,
     BindingNotOlderThanEvent
<1> QED BY <1>1, <1>3 DEF AdmissionInv

\* A task that is over is a task.
LEMMA SettleTypes ==
  ASSUME NEW t \in Task, NEW pc \in AdmissionPc
  PROVE  /\ Settle(t, pc) \in Task /\ Settle(t, pc).pc = pc
         /\ Settle(t, pc).answer \in {t.answer, "none"}
BY DEF Settle, Task, Answers

LEMMA OutcomeTypes ==
  ASSUME NEW t, NEW answer
  PROVE  Outcome(t, answer) \in {"handled", "recorded", "notified", "dropped"}
BY DEF Outcome

\* Completing a future keeps the invariant, whatever its owner got.
LEMMA CompleteKeeps ==
  ASSUME AdmissionInv, NEW c \in Clients, NEW e \in Events,
         NEW answer \in (Answers \ {"none"}) \cup {"cancelled"},
         NEW pc \in {"handled", "recorded", "notified", "dropped", "cancelled"},
         cTask[c][e].pc = "lookup",
         answer = cTask[c][e].answer \/ answer = "cancelled",
         Complete(c, e, answer, pc), UNCHANGED <<cBinding, cSince>>
  PROVE  AdmissionInv'
<1> USE DEF AdmissionInv
<1>1. ASSUME NEW d \in Clients, NEW f \in Events
      PROVE  LET t == cTask[d][f]
                 u == cTask'[d][f]
             IN IF d = c /\ f = e
                THEN u.pc = pc /\ u.answer \in {t.answer, "none"} /\ u \in Task
                ELSE IF Awaits(c, e, d, f)
                THEN /\ u.pc \in {"cancelled", "resolved"} /\ u.answer \in {answer, "none", t.answer}
                     /\ u.answer \in Answers /\ u \in Task
                     /\ u.answer = "cancelled" => FALSE
                ELSE u = t
  <2>1. cTask[c][e] \in Task /\ cTask[d][f] \in Task /\ pc \in AdmissionPc
    BY DEF AdmissionTypeOK, AdmissionPc
  <2>2. cTask'[d][f] =
          IF d = c /\ f = e THEN Settle(cTask[c][e], pc)
          ELSE IF Awaits(c, e, d, f) /\ Woken(answer)
          THEN IF answer = "cancelled" THEN Settle(cTask[d][f], "cancelled")
               ELSE [cTask[d][f] EXCEPT !.pc = "resolved", !.answer = answer]
          ELSE cTask[d][f]
    BY DEF Complete
  <2>3. CASE d = c /\ f = e
    BY <2>1, <2>2, <2>3, SettleTypes
  <2>4. CASE ~(d = c /\ f = e) /\ Awaits(c, e, d, f) /\ answer = "cancelled"
    <3>1. cTask'[d][f] = Settle(cTask[d][f], "cancelled")
      BY <2>2, <2>4 DEF Woken
    <3>2. "cancelled" \in AdmissionPc /\ "none" \in Answers /\ cTask[d][f].answer \in Answers
      BY <2>1 DEF AdmissionPc, Answers, Task
    <3>3. cTask'[d][f].answer = "none"
      BY <3>1 DEF Settle
    <3> QED BY <2>1, <2>4, <3>1, <3>2, <3>3, SettleTypes
  <2>5. CASE ~(d = c /\ f = e) /\ Awaits(c, e, d, f) /\ answer # "cancelled"
    <3>1. cTask'[d][f] = [cTask[d][f] EXCEPT !.pc = "resolved", !.answer = answer]
      BY <2>2, <2>5 DEF Woken
    <3>2. answer \in Answers
      BY <2>5
    <3> QED BY <2>1, <2>5, <3>1, <3>2 DEF Task, AdmissionPc
  <2>6. CASE ~(d = c /\ f = e) /\ ~Awaits(c, e, d, f)
    BY <2>2, <2>6
  <2> QED BY <2>3, <2>4, <2>5, <2>6
<1>2. /\ DOMAIN cTask' = Clients /\ \A d \in Clients : DOMAIN cTask'[d] = Events
      /\ cTask' = [d \in Clients |-> [f \in Events |-> cTask'[d][f]]]
  BY DEF Complete
<1>3. cFuture' = [cFuture EXCEPT ![KeyOf(c, e)] = NoFuture] /\ KeyOf(c, e) \in Keys
      /\ cFuture \in [Keys -> Clients \cup {NoFuture}] /\ NoFuture \notin Clients
  BY KeysNameEvents, AdmissionConstants DEF Complete, AdmissionTypeOK, NoFuture
<1>4. cFuture[KeyOf(c, e)] = c
  BY DEF OwnerAsks
<1>5. AdmissionTypeOK'
  <2>1. \A d \in Clients, f \in Events : cTask'[d][f] \in Task
    BY <1>1 DEF AdmissionTypeOK
  <2> QED BY <2>1, <1>2, <1>3 DEF AdmissionTypeOK
<1>6. OwnerAsks'
  <2> SUFFICES ASSUME NEW d \in Clients, NEW f \in Events
               PROVE  cTask'[d][f].pc = "lookup" <=> cFuture'[KeyOf(d, f)] = d
    BY DEF OwnerAsks, KeyOf
  <2>1. KeyOf(d, f) \in Keys /\ (KeyOf(d, f) = KeyOf(c, e) => f = e)
    BY KeysNameEvents
  <2>2. CASE d = c /\ f = e
    BY <1>1, <1>3, <2>2
  <2>3. CASE ~(d = c /\ f = e) /\ Awaits(c, e, d, f)
    BY <1>1, <1>3, <2>3 DEF Awaits
  <2>4. CASE ~(d = c /\ f = e) /\ ~Awaits(c, e, d, f)
    <3>1. cTask'[d][f] = cTask[d][f]
      BY <1>1, <2>4
    <3>2. CASE KeyOf(d, f) = KeyOf(c, e)
      BY <1>3, <1>4, <2>1, <2>4, <3>1, <3>2 DEF OwnerAsks
    <3>3. CASE KeyOf(d, f) # KeyOf(c, e)
      BY <1>3, <2>1, <3>1, <3>3 DEF OwnerAsks
    <3> QED BY <3>2, <3>3
  <2> QED BY <2>2, <2>3, <2>4
<1>7. OwnerShares'
  BY <1>3 DEF OwnerShares
<1>8. WaitsForFuture'
  <2> SUFFICES ASSUME NEW d \in Clients, NEW f \in Events, cTask'[d][f].pc = "waiting"
               PROVE  cFuture'[KeyOf(d, f)] # NoFuture
    BY DEF WaitsForFuture, KeyOf
  <2>1. cTask'[d][f] = cTask[d][f] /\ ~Awaits(c, e, d, f)
    BY <1>1
  <2>2. KeyOf(d, f) \in Keys /\ KeyOf(d, f) # KeyOf(c, e)
    BY <2>1, KeysNameEvents DEF Awaits
  <2> QED BY <1>3, <2>1, <2>2 DEF WaitsForFuture
<1>9. SinceCurrent'
  <2>1. ASSUME NEW d \in Clients, NEW f \in Events, cTask'[d][f].pc # "none"
        PROVE  cSince[f] # {}
    BY <1>1, <2>1 DEF SinceCurrent, Awaits
  <2> QED BY <2>1 DEF SinceCurrent
<1>10. BindingNotOlderThanEvent'
  <2> SUFFICES ASSUME NEW d \in Clients, NEW f \in Events, cTask'[d][f].answer \in Bindings
               PROVE  cTask'[d][f].answer \in cSince[f]
    BY DEF BindingNotOlderThanEvent
  <2>1. "none" \notin Bindings
    BY AdmissionConstants DEF Bindings
  <2>2. CASE Awaits(c, e, d, f) /\ ~(d = c /\ f = e)
    <3>1. f = e
      BY <2>2, KeysNameEvents DEF Awaits
    <3>2. cTask'[d][f].answer \in {cTask[c][e].answer, cTask[d][f].answer}
      BY <1>1, <2>1, <2>2
    <3> QED BY <3>1, <3>2 DEF BindingNotOlderThanEvent
  <2>3. CASE ~Awaits(c, e, d, f) \/ (d = c /\ f = e)
    BY <1>1, <2>1, <2>3 DEF BindingNotOlderThanEvent
  <2> QED BY <2>2, <2>3
<1> QED BY <1>5, <1>6, <1>7, <1>8, <1>9, <1>10

\* A step that changes one task, and no future, keeps the invariant.
LEMMA TaskKeeps ==
  ASSUME AdmissionInv, NEW c \in Clients, NEW e \in Events, NEW t \in Task,
         cTask' = [cTask EXCEPT ![c][e] = t],
         cTask[c][e].pc # "none", t.pc = "lookup" <=> cTask[c][e].pc = "lookup",
         t.pc # "waiting", t.answer \in {cTask[c][e].answer, "none", "error", cBinding},
         UNCHANGED <<cBinding, cSince, cFuture>>
  PROVE  AdmissionInv'
<1> USE DEF AdmissionInv
<1>1. ASSUME NEW d \in Clients, NEW f \in Events
      PROVE  cTask'[d][f] = IF d = c /\ f = e THEN t ELSE cTask[d][f]
  BY DEF AdmissionTypeOK
<1>2. AdmissionTypeOK'
  BY DEF AdmissionTypeOK
<1>3. OwnerAsks'
  BY <1>1 DEF OwnerAsks, KeyOf
<1>4. OwnerShares'
  BY DEF OwnerShares
<1>5. WaitsForFuture'
  BY <1>1 DEF WaitsForFuture, KeyOf
<1>6. SinceCurrent'
  BY <1>1 DEF SinceCurrent
<1>7. BindingNotOlderThanEvent'
  <2>1. "none" \notin Bindings /\ "error" \notin Bindings /\ cBinding \in cSince[e]
    BY AdmissionConstants DEF Bindings, SinceCurrent
  <2>2. ASSUME NEW d \in Clients, NEW f \in Events, cTask'[d][f].answer \in Bindings
        PROVE  cTask'[d][f].answer \in cSince[f]
    BY <1>1, <2>1, <2>2 DEF BindingNotOlderThanEvent
  <2> QED BY <2>2 DEF BindingNotOlderThanEvent
<1> QED BY <1>2, <1>3, <1>4, <1>5, <1>6, <1>7

\* A client that asks takes a free future, and one that joins finds its owner.
LEMMA ObserveKeeps ==
  ASSUME AdmissionInv, NEW c \in Clients, NEW e \in Events, NEW m \in Messages,
         NEW edited \in BOOLEAN, Observe(c, e, m, edited)
  PROVE  AdmissionInv'
<1> USE DEF AdmissionInv
<1> DEFINE joins == cFuture[KeyOf(c, e)] # NoFuture
           t == [pc |-> IF joins THEN "waiting" ELSE "lookup",
                 addressed |-> m.addressed, answer |-> "none"]
<1>1. /\ cTask' = [cTask EXCEPT ![c][e] = t]
      /\ cFuture' = IF joins THEN cFuture ELSE [cFuture EXCEPT ![KeyOf(c, e)] = c]
      /\ cSince' = [cSince EXCEPT ![e] = @ \cup {cBinding}] /\ cBinding' = cBinding
      /\ cTask[c][e].pc # "lookup"
  BY DEF Observe, Handling
<1>2. t \in Task
  BY DEF Task, AdmissionPc, Answers, Messages
<1>3. KeyOf(c, e) \in Keys /\ NoFuture \notin Clients /\ "none" \notin Bindings
  BY KeysNameEvents, AdmissionConstants DEF NoFuture, Bindings
<1>4. ASSUME NEW d \in Clients, NEW f \in Events
      PROVE  cTask'[d][f] = IF d = c /\ f = e THEN t ELSE cTask[d][f]
  BY <1>1 DEF AdmissionTypeOK
<1>5. AdmissionTypeOK'
  BY <1>1, <1>2, <1>3 DEF AdmissionTypeOK
<1>6. cFuture[KeyOf(c, e)] # c
  BY <1>1 DEF OwnerAsks
<1>7. OwnerAsks'
  <2> SUFFICES ASSUME NEW d \in Clients, NEW f \in Events
               PROVE  cTask'[d][f].pc = "lookup" <=> cFuture'[KeyOf(d, f)] = d
    BY DEF OwnerAsks, KeyOf
  <2>1. KeyOf(d, f) \in Keys /\ (KeyOf(d, f) = KeyOf(c, e) => f = e)
    BY KeysNameEvents
  <2>2. CASE d = c /\ f = e
    BY <1>1, <1>3, <1>4, <1>6, <2>2 DEF AdmissionTypeOK
  <2>3. CASE ~(d = c /\ f = e)
    <3>1. cTask'[d][f] = cTask[d][f]
      BY <1>4, <2>3
    <3>2. cFuture'[KeyOf(d, f)] = IF KeyOf(d, f) = KeyOf(c, e) /\ ~joins THEN c ELSE cFuture[KeyOf(d, f)]
      BY <1>1, <2>1 DEF AdmissionTypeOK
    <3> QED BY <1>3, <2>1, <2>3, <3>1, <3>2 DEF OwnerAsks
  <2> QED BY <2>2, <2>3
<1>8. OwnerShares'
  <2>1. KeyOf(c, e)[1] = Authority[c]
    BY DEF KeyOf
  <2> QED BY <1>1, <2>1 DEF OwnerShares, AdmissionTypeOK
<1>9. WaitsForFuture'
  <2> SUFFICES ASSUME NEW d \in Clients, NEW f \in Events, cTask'[d][f].pc = "waiting"
               PROVE  cFuture'[KeyOf(d, f)] # NoFuture
    BY DEF WaitsForFuture, KeyOf
  <2>1. KeyOf(d, f) \in Keys
    BY KeysNameEvents
  <2>2. CASE d = c /\ f = e
    BY <1>1, <1>4, <2>2
  <2>3. CASE ~(d = c /\ f = e)
    BY <1>1, <1>3, <1>4, <2>1, <2>3 DEF WaitsForFuture, AdmissionTypeOK
  <2> QED BY <2>2, <2>3
<1>10. SinceCurrent'
  <2>1. \A f \in Events : cSince'[f] = IF f = e THEN cSince[f] \cup {cBinding} ELSE cSince[f]
    BY <1>1 DEF AdmissionTypeOK
  <2>2. \A f \in Events : cSince'[f] # {} => cBinding' \in cSince'[f]
    BY <1>1, <2>1 DEF SinceCurrent
  <2>3. ASSUME NEW d \in Clients, NEW f \in Events, cTask'[d][f].pc # "none"
        PROVE  cSince'[f] # {}
    BY <1>4, <2>1, <2>3, ZenonT(60) DEF SinceCurrent
  <2> QED BY <2>2, <2>3 DEF SinceCurrent
<1>11. BindingNotOlderThanEvent'
  <2>1. \A f \in Events : cSince[f] \subseteq cSince'[f]
    BY <1>1 DEF AdmissionTypeOK
  <2>2. ASSUME NEW d \in Clients, NEW f \in Events, cTask'[d][f].answer \in Bindings
        PROVE  cTask'[d][f].answer \in cSince'[f]
    BY <1>3, <1>4, <2>1, <2>2 DEF BindingNotOlderThanEvent
  <2> QED BY <2>2 DEF BindingNotOlderThanEvent
<1> QED BY <1>5, <1>7, <1>8, <1>9, <1>10, <1>11

\* Every step keeps the invariant.
LEMMA AdmissionPreserved == AdmissionInv /\ [AdmissionNext]_admissionVars => AdmissionInv'
<1> SUFFICES ASSUME AdmissionInv, [AdmissionNext]_admissionVars PROVE AdmissionInv'
  OBVIOUS
<1>1. ASSUME NEW b \in Bindings, Rebind(b) PROVE AdmissionInv'
  <2>1. \A e \in Events : /\ cSince'[e] = (IF cSince[e] = {} THEN {} ELSE cSince[e] \cup {b})
                          /\ cSince[e] \subseteq cSince'[e]
    BY <1>1 DEF Rebind
  <2>2. AdmissionTypeOK'
    BY <1>1 DEF AdmissionInv, AdmissionTypeOK, Rebind
  <2>3. OwnerAsks' /\ OwnerShares' /\ WaitsForFuture'
    BY <1>1 DEF AdmissionInv, Rebind, OwnerAsks, OwnerShares, WaitsForFuture, KeyOf
  <2>4. SinceCurrent' /\ BindingNotOlderThanEvent'
    BY <1>1, <2>1 DEF AdmissionInv, Rebind, SinceCurrent, BindingNotOlderThanEvent
  <2> QED BY <2>2, <2>3, <2>4 DEF AdmissionInv
<1>2. ASSUME NEW c \in Clients, NEW e \in Events, NEW m \in Messages, NEW edited \in BOOLEAN,
             Observe(c, e, m, edited)
      PROVE  AdmissionInv'
  BY <1>2, ObserveKeeps
<1>3. ASSUME NEW c \in Clients, NEW e \in Events PROVE cTask[c][e] \in Task
  BY <1>3 DEF AdmissionInv, AdmissionTypeOK
<1>4. ASSUME NEW c \in Clients, NEW e \in Events, ServeLookup(c, e) PROVE AdmissionInv'
  <2>1. PICK a \in {cBinding, "error"} : cTask' = [cTask EXCEPT ![c][e].answer = a]
    BY <1>4 DEF ServeLookup
  <2> DEFINE t == [cTask[c][e] EXCEPT !.answer = a]
  <2>2. a \in Answers
    BY DEF AdmissionInv, AdmissionTypeOK, Answers
  <2>3. t \in Task /\ t.pc = "lookup" /\ t.answer = a
    BY <1>3, <1>4, <2>2 DEF Task, ServeLookup
  <2>4. cTask' = [cTask EXCEPT ![c][e] = t]
    BY <2>1 DEF AdmissionInv, AdmissionTypeOK
  <2> HIDE DEF t
  <2> QED BY <1>4, <2>3, <2>4, TaskKeeps DEF ServeLookup
<1>5. ASSUME NEW c \in Clients, NEW e \in Events, ReturnLookup(c, e) PROVE AdmissionInv'
  <2>1. cTask[c][e].answer \in Answers \ {"none"}
    BY <1>3, <1>5 DEF ReturnLookup, Task
  <2>2. Outcome(cTask[c][e], cTask[c][e].answer) \in {"handled", "recorded", "notified", "dropped"}
    BY OutcomeTypes
  <2> QED BY <1>5, <2>1, <2>2, CompleteKeeps DEF ReturnLookup
<1>6. ASSUME NEW c \in Clients, NEW e \in Events, CancelOwner(c, e) PROVE AdmissionInv'
  BY <1>6, CompleteKeeps DEF CancelOwner
<1>7. ASSUME NEW c \in Clients, NEW e \in Events, CancelWaiter(c, e) PROVE AdmissionInv'
  <2> DEFINE t == Settle(cTask[c][e], "cancelled")
  <2>1. t \in Task /\ t.pc = "cancelled" /\ t.answer \in {cTask[c][e].answer, "none"}
    BY <1>3, SettleTypes DEF AdmissionPc
  <2>2. cTask' = [cTask EXCEPT ![c][e] = t] /\ cTask[c][e].pc = "waiting"
    BY <1>7 DEF CancelWaiter, AdmissionInv, AdmissionTypeOK
  <2> HIDE DEF t
  <2> QED BY <1>7, <2>1, <2>2, TaskKeeps DEF CancelWaiter
<1>8. ASSUME NEW c \in Clients, NEW e \in Events, Resume(c, e) PROVE AdmissionInv'
  <2> DEFINE o == Outcome(cTask[c][e], cTask[c][e].answer)
             t == Settle(cTask[c][e], o)
  <2>1. o \in {"handled", "recorded", "notified", "dropped"}
    BY OutcomeTypes
  <2>2. t \in Task /\ t.pc = o /\ t.answer \in {cTask[c][e].answer, "none"}
    BY <1>3, <2>1, SettleTypes DEF AdmissionPc
  <2>3. cTask' = [cTask EXCEPT ![c][e] = t] /\ cTask[c][e].pc = "resolved"
    BY <1>8 DEF Resume, AdmissionInv, AdmissionTypeOK
  <2> HIDE DEF t, o
  <2> QED BY <1>8, <2>1, <2>2, <2>3, TaskKeeps DEF Resume
<1>9. ASSUME UNCHANGED admissionVars PROVE AdmissionInv'
  BY <1>9 DEF admissionVars, AdmissionInv, AdmissionTypeOK, OwnerAsks, OwnerShares,
     WaitsForFuture, SinceCurrent, BindingNotOlderThanEvent, KeyOf
<1> QED BY <1>1, <1>2, <1>4, <1>5, <1>6, <1>7, <1>8, <1>9 DEF AdmissionNext

\* The invariant holds in every behaviour of the admission.
LEMMA AdmissionInvariant == AdmissionSpec => []AdmissionInv
BY AdmissionInitially, AdmissionPreserved, PTL DEF AdmissionSpec

\* The state of the admission always has its type.
THEOREM AdmissionTypes == AdmissionSpec => []AdmissionTypeOK
BY AdmissionInvariant, PTL DEF AdmissionInv

\* No client waits for a channel resolution that nobody makes, whoever failed or
\* was cancelled: the future of _channel_resolve_inflight has one owner.
THEOREM NoWaiterIsForgotten == AdmissionSpec => []WaiterHasOwner
<1>1. AdmissionInv => WaiterHasOwner
  <2> SUFFICES ASSUME AdmissionInv, NEW c \in Clients, NEW e \in Events,
                      cTask[c][e].pc = "waiting"
               PROVE  /\ cFuture[KeyOf(c, e)] # NoFuture
                      /\ \E d \in Clients, f \in Events :
                           cTask[d][f].pc = "lookup" /\ KeyOf(d, f) = KeyOf(c, e)
    BY DEF WaiterHasOwner
  <2>1. KeyOf(c, e) \in Keys /\ cFuture[KeyOf(c, e)] # NoFuture
    BY KeysNameEvents DEF AdmissionInv, WaitsForFuture
  <2>2. PICK d \in Clients : d = cFuture[KeyOf(c, e)]
    BY <2>1 DEF AdmissionInv, AdmissionTypeOK
  <2>3. Authority[d] = Authority[c]
    BY <2>1, <2>2 DEF AdmissionInv, OwnerShares, KeyOf
  <2>4. KeyOf(d, e) = KeyOf(c, e)
    BY <2>3 DEF KeyOf
  <2>5. cTask[d][e].pc = "lookup"
    BY <2>2, <2>4 DEF AdmissionInv, OwnerAsks
  <2> QED BY <2>1, <2>4, <2>5
<1> QED BY <1>1, AdmissionInvariant, PTL

\* No message is handled under a binding the channel had lost before any client
\* saw it: the futures are keyed by the event and removed when completed.
THEOREM NoStaleBinding == AdmissionSpec => []BindingNotOlderThanEvent
BY AdmissionInvariant, PTL DEF AdmissionInv

-----------------------------------------------------------------------------
Busy(r) == dReq[r].pc \in {"resume", "call"}

\* No session is newer than the last one the provider opened.
SessionsOpened ==
  /\ \A s \in DirectScopes : dRow[s].sess <= dOpened
  /\ \A r \in DirectRequests : dReq[r].sess <= dOpened
  /\ \A x \in dDead : x <= dOpened

\* The daemon's lock.
OneBusy == dSerial => \A q, r \in DirectRequests : Busy(q) /\ Busy(r) => q = r

\* In the daemon at most one scope is active; a request resumes the session that
\* scope holds, and calls afresh when there is none.
OneScope ==
  dSerial /\ ~dTorn =>
    /\ ~(dRow["channel"].active /\ dRow["legacy"].active)
    /\ \A r \in DirectRequests :
         /\ dReq[r].pc = "call" => \A s \in DirectScopes : ~dRow[s].active
         /\ dReq[r].pc = "resume" =>
              dRow[dReq[r].scope].active /\ dRow[dReq[r].scope].sess = dReq[r].sess

DirectInv == DirectTypeOK /\ SessionsOpened /\ OneBusy /\ OneScope /\ DeadNotResumed

\* The invariant holds initially.
LEMMA DirectInitially == DirectInit => DirectInv
<1> SUFFICES ASSUME DirectInit PROVE DirectInv
  OBVIOUS
<1> USE DEF DirectInit, DirectScopes
<1>1. dRow \in [DirectScopes -> DirectRow]
  BY DEF DirectRow, NoSession
<1>2. dReq \in [DirectRequests -> DirectRequest]
  BY DEF DirectRequest, DirectPc, NoSession
<1>3. DirectTypeOK
  <2>1. dOpened \in 0..DirectSessions
    BY DirectConstants
  <2>2. dSerial \in BOOLEAN /\ dDir \in DirectDirs /\ dTorn \in BOOLEAN
    OBVIOUS
  <2>3. dDead \in SUBSET Nat /\ dReset \in SUBSET Nat
    OBVIOUS
  <2> QED BY <1>1, <1>2, <2>1, <2>2, <2>3 DEF DirectTypeOK
<1>4. SessionsOpened
  BY DEF SessionsOpened, NoSession
<1>5. OneBusy
  BY DEF OneBusy, Busy
<1>6. OneScope /\ DeadNotResumed
  <2>1. ~dRow["channel"].active
    <3>1. PICK d \in DirectDirs, upgraded \in BOOLEAN :
            dRow = [s \in DirectScopes |->
                      [sess |-> IF s = "legacy" /\ upgraded THEN 1 ELSE NoSession,
                       dir |-> d, active |-> s = "legacy" /\ upgraded]]
      BY Zenon
    <3>2. dRow["channel"].active = ("channel" = "legacy" /\ upgraded)
      BY <3>1, Zenon
    <3> QED BY <3>2
  <2>2. \A r \in DirectRequests : dReq[r].pc = "idle"
    OBVIOUS
  <2>3. dDead = {}
    OBVIOUS
  <2> QED BY <2>1, <2>2, <2>3 DEF OneScope, DeadNotResumed
<1> QED BY <1>3, <1>4, <1>5, <1>6 DEF DirectInv

\* Retiring or replacing a row leaves rows.
LEMMA RowsTypes ==
  ASSUME NEW rows \in [DirectScopes -> DirectRow], NEW s \in DirectScopes,
         NEW sess \in Nat, NEW d \in DirectDirs
  PROVE  /\ MarkedStale(rows, s) \in [DirectScopes -> DirectRow]
         /\ Upserted(rows, sess, d) \in [DirectScopes -> DirectRow]
<1>1. [rows[s] EXCEPT !.active = FALSE] \in DirectRow
  BY DEF DirectRow
<1>2. [sess |-> sess, dir |-> d, active |-> TRUE] \in DirectRow
  BY DEF DirectRow
<1>3. MarkedStale(rows, s) = [rows EXCEPT ![s] = [rows[s] EXCEPT !.active = FALSE]]
  BY DEF MarkedStale, DirectRow
<1> QED BY <1>1, <1>2, <1>3 DEF Upserted

\* Every step keeps the invariant.
LEMMA DirectPreserved == DirectInv /\ [DirectNext]_directVars => DirectInv'
<1> SUFFICES ASSUME DirectInv, [DirectNext]_directVars PROVE DirectInv'
  OBVIOUS
<1> USE DirectConstants DEF DirectInv, DirectScopes
<1>1. ASSUME NEW r \in DirectRequests, NEW d \in DirectDirs, DirectBegin(r, d) PROVE DirectInv'
  <2>1. DirectTypeOK'
    <3>1. CurrentScope \in DirectScopes
      BY DEF CurrentScope
    <3>2. dRow[CurrentScope] \in DirectRow
      BY <3>1 DEF DirectTypeOK
    <3>3. dRow' \in [DirectScopes -> DirectRow]
      <4>1. dRow' \in {MarkedStale(dRow, CurrentScope), dRow}
        BY <1>1 DEF DirectBegin
      <4>2. dRow \in [DirectScopes -> DirectRow] /\ 0 \in Nat
        BY DEF DirectTypeOK
      <4> HIDE DEF DirectInv, DirectScopes
      <4> QED BY <3>1, <4>1, <4>2, RowsTypes
    <3>4. dReq' \in [DirectRequests -> DirectRequest]
      <4>1. PICK fits \in BOOLEAN :
              dReq' = [dReq EXCEPT ![r] =
                [pc |-> IF fits THEN "resume" ELSE "call",
                 sess |-> IF fits THEN dRow[CurrentScope].sess ELSE NoSession,
                 scope |-> CurrentScope, dir |-> d, resets |-> dReset]]
        BY <1>1 DEF DirectBegin
      <4> QED BY <4>1, <3>1, <3>2 DEF DirectTypeOK, DirectRow, DirectRequest, DirectPc, NoSession
    <3> QED BY <1>1, <3>3, <3>4 DEF DirectBegin, DirectTypeOK
  <2>2. SessionsOpened'
    BY <1>1 DEF DirectBegin, MayBegin, HasSession, CurrentScope, MarkedStale, DirectTypeOK,
           SessionsOpened, DirectRow, DirectRequest, NoSession
  <2>3. OneBusy'
    BY <1>1 DEF DirectBegin, MayBegin, HasSession, CurrentScope, MarkedStale, DirectTypeOK,
           OneBusy, Busy
  <2>4. OneScope'
    BY <1>1 DEF DirectBegin, MayBegin, HasSession, CurrentScope, MarkedStale, DirectTypeOK,
           OneScope, OneBusy, Busy, DirectRow, DirectRequest
  <2>5. DeadNotResumed'
    BY <1>1 DEF DirectBegin, MayBegin, HasSession, CurrentScope, MarkedStale, DirectTypeOK,
           SessionsOpened, OneScope, DeadNotResumed, DirectRow, DirectRequest
  <2> QED BY <2>1, <2>2, <2>3, <2>4, <2>5
<1>2. ASSUME NEW r \in DirectRequests, DirectResumed(r) PROVE DirectInv'
  <2>1. DirectTypeOK'
    <3>1. dReq[r] \in DirectRequest /\ dRow \in [DirectScopes -> DirectRow]
      BY DEF DirectTypeOK
    <3>2. dReq[r].sess \in Nat /\ dReq[r].scope \in DirectScopes /\ dReq[r].dir \in DirectDirs
      BY <3>1 DEF DirectRequest
    <3>3. dRow' \in [DirectScopes -> DirectRow]
      <4> HIDE DEF DirectInv, DirectScopes
      <4> QED BY <1>2, <3>1, <3>2, RowsTypes DEF DirectResumed, SavedRow
    <3> QED BY <1>2, <3>3 DEF DirectResumed, Settled, DirectTypeOK, DirectRequest, DirectPc
  <2>2. SessionsOpened'
    BY <1>2 DEF DirectResumed, Settled, SavedRow, Upserted, MarkedStale, DirectTypeOK,
           SessionsOpened, DirectRow, DirectRequest, NoSession
  <2>3. OneBusy'
    BY <1>2 DEF DirectResumed, Settled, SavedRow, Upserted, MarkedStale, DirectTypeOK, OneBusy,
           Busy
  <2>4. OneScope'
    <3>1. ASSUME dSerial, NEW q \in DirectRequests
          PROVE  dReq'[q].pc \notin {"call", "resume"}
      BY <1>2, <3>1 DEF DirectResumed, Settled, DirectTypeOK, OneBusy, Busy
    <3>2. ASSUME dSerial, ~dTorn
          PROVE  ~(dRow'["channel"].active /\ dRow'["legacy"].active)
      <4>1. dRow[dReq[r].scope].active /\ ~(dRow["channel"].active /\ dRow["legacy"].active)
        BY <1>2, <3>2 DEF DirectResumed, OneScope
      <4>2. CASE dReq[r].scope = "channel"
        BY <1>2, <4>1, <4>2 DEF DirectResumed, SavedRow, Upserted, DirectTypeOK
      <4>3. CASE dReq[r].scope # "channel"
        <5>1. dReq[r].scope = "legacy"
          BY <4>3 DEF DirectTypeOK, DirectRequest, DirectScopes
        <5> QED BY <1>2, <4>3, <5>1
               DEF DirectResumed, SavedRow, Upserted, MarkedStale, DirectTypeOK, DirectScopes, DirectRow
      <4> QED BY <4>2, <4>3
    <3>3. dSerial' = dSerial /\ dTorn' = dTorn
      BY <1>2 DEF DirectResumed
    <3> QED BY <3>1, <3>2, <3>3 DEF OneScope
  <2>5. DeadNotResumed'
    BY <1>2 DEF DirectResumed, Settled, SavedRow, Upserted, MarkedStale, DirectTypeOK,
           SessionsOpened, OneScope, DeadNotResumed, DirectRow, DirectRequest
  <2> QED BY <2>1, <2>2, <2>3, <2>4, <2>5
<1>3. ASSUME NEW r \in DirectRequests, NEW fallback \in BOOLEAN, DirectResumeFailed(r, fallback) PROVE DirectInv'
  <2>1. DirectTypeOK'
    <3>1. dReq[r] \in DirectRequest /\ dRow \in [DirectScopes -> DirectRow] /\ 0 \in Nat
      BY DEF DirectTypeOK
    <3>2. dReq[r].sess \in Nat /\ dReq[r].scope \in DirectScopes /\ dReq[r].dir \in DirectDirs
      BY <3>1 DEF DirectRequest
    <3>3. dRow' \in [DirectScopes -> DirectRow]
      <4> HIDE DEF DirectInv, DirectScopes
      <4> QED BY <1>3, <3>1, <3>2, RowsTypes DEF DirectResumeFailed, RowAfterFailure
    <3>4. dDead' \in SUBSET Nat
      BY <1>3, <3>2 DEF DirectResumeFailed, DirectTypeOK
    <3> QED BY <1>3, <3>3, <3>4 DEF DirectResumeFailed, DirectTypeOK, DirectRequest, DirectPc
  <2>2. SessionsOpened'
    BY <1>3 DEF DirectResumeFailed, RowAfterFailure, MarkedStale, DirectTypeOK, SessionsOpened,
           DirectRow, DirectRequest, NoSession
  <2>3. OneBusy'
    BY <1>3 DEF DirectResumeFailed, RowAfterFailure, MarkedStale, DirectTypeOK, OneBusy, Busy
  <2>4. OneScope'
    BY <1>3 DEF DirectResumeFailed, RowAfterFailure, MarkedStale, DirectTypeOK, OneScope,
           OneBusy, Busy, DirectRow, DirectRequest
  <2>5. DeadNotResumed'
    BY <1>3 DEF DirectResumeFailed, RowAfterFailure, MarkedStale, DirectTypeOK, SessionsOpened,
           OneScope, DeadNotResumed, DirectRow, DirectRequest
  <2> QED BY <2>1, <2>2, <2>3, <2>4, <2>5
<1>4. ASSUME NEW r \in DirectRequests, DirectCalled(r) PROVE DirectInv'
  <2>1. DirectTypeOK'
    BY <1>4 DEF DirectCalled, Settled, SavedRow, Upserted, MarkedStale, DirectTypeOK, DirectRow,
           DirectRequest, DirectPc, NoSession
  <2>2. SessionsOpened'
    BY <1>4 DEF DirectCalled, Settled, SavedRow, Upserted, MarkedStale, DirectTypeOK,
           SessionsOpened, DirectRow, DirectRequest, NoSession
  <2>3. OneBusy'
    BY <1>4 DEF DirectCalled, Settled, SavedRow, Upserted, MarkedStale, DirectTypeOK, OneBusy,
           Busy
  <2>4. OneScope'
    BY <1>4 DEF DirectCalled, Settled, SavedRow, Upserted, MarkedStale, DirectTypeOK, OneScope,
           OneBusy, Busy, DirectRow, DirectRequest
  <2>5. DeadNotResumed'
    BY <1>4 DEF DirectCalled, Settled, SavedRow, Upserted, MarkedStale, DirectTypeOK,
           SessionsOpened, OneScope, DeadNotResumed, DirectRow, DirectRequest
  <2> QED BY <2>1, <2>2, <2>3, <2>4, <2>5
<1>5. ASSUME NEW r \in DirectRequests, DirectNoResult(r) PROVE DirectInv'
  <2>1. DirectTypeOK'
    BY <1>5 DEF DirectNoResult, Settled, DirectTypeOK, DirectRow, DirectRequest, DirectPc,
           NoSession
  <2>2. SessionsOpened'
    BY <1>5 DEF DirectNoResult, Settled, DirectTypeOK, SessionsOpened, DirectRow, DirectRequest,
           NoSession
  <2>3. OneBusy'
    BY <1>5 DEF DirectNoResult, Settled, DirectTypeOK, OneBusy, Busy
  <2>4. OneScope'
    BY <1>5 DEF DirectNoResult, Settled, DirectTypeOK, OneScope, OneBusy, Busy, DirectRow,
           DirectRequest
  <2>5. DeadNotResumed'
    BY <1>5 DEF DirectNoResult, Settled, DirectTypeOK, SessionsOpened, OneScope, DeadNotResumed,
           DirectRow, DirectRequest
  <2> QED BY <2>1, <2>2, <2>3, <2>4, <2>5
<1>6. ASSUME NEW r \in DirectRequests, DirectTornSave(r) PROVE DirectInv'
  <2>1. DirectTypeOK'
    BY <1>6 DEF DirectTornSave, Upserted, DirectTypeOK, DirectRow, DirectRequest, DirectPc,
           NoSession
  <2>2. SessionsOpened'
    BY <1>6 DEF DirectTornSave, Upserted, DirectTypeOK, SessionsOpened, DirectRow,
           DirectRequest, NoSession
  <2>3. OneBusy'
    BY <1>6 DEF DirectTornSave, Upserted, DirectTypeOK, OneBusy, Busy
  <2>4. OneScope'
    BY <1>6 DEF DirectTornSave, Upserted, DirectTypeOK, OneScope, OneBusy, Busy, DirectRow,
           DirectRequest
  <2>5. DeadNotResumed'
    BY <1>6 DEF DirectTornSave, Upserted, DirectTypeOK, SessionsOpened, OneScope,
           DeadNotResumed, DirectRow, DirectRequest
  <2> QED BY <2>1, <2>2, <2>3, <2>4, <2>5
<1>7. ASSUME DirectReset PROVE DirectInv'
  <2>1. DirectTypeOK'
    <3>1. CurrentScope \in DirectScopes /\ dRow \in [DirectScopes -> DirectRow]
      BY DEF CurrentScope, DirectTypeOK
    <3>2. dRow[CurrentScope].sess \in Nat
      BY <3>1 DEF DirectRow
    <3>3. PICK d \in DirectDirs : TRUE
      BY DEF DirectTypeOK
    <3>4. dRow' \in [DirectScopes -> DirectRow]
      <4> HIDE DEF DirectInv, DirectScopes
      <4> QED BY <1>7, <3>1, <3>2, <3>3, RowsTypes DEF DirectReset
    <3> QED BY <1>7, <3>2, <3>4 DEF DirectReset, DirectTypeOK
  <2>2. SessionsOpened'
    BY <1>7 DEF DirectReset, HasSession, CurrentScope, MarkedStale, DirectTypeOK,
           SessionsOpened, DirectRow, DirectRequest, NoSession
  <2>3. OneBusy'
    BY <1>7 DEF DirectReset, HasSession, CurrentScope, MarkedStale, DirectTypeOK, OneBusy, Busy
  <2>4. OneScope'
    BY <1>7 DEF DirectReset, HasSession, CurrentScope, MarkedStale, DirectTypeOK, OneScope,
           OneBusy, Busy, DirectRow, DirectRequest
  <2>5. DeadNotResumed'
    BY <1>7 DEF DirectReset, HasSession, CurrentScope, MarkedStale, DirectTypeOK,
           SessionsOpened, OneScope, DeadNotResumed, DirectRow, DirectRequest
  <2> QED BY <2>1, <2>2, <2>3, <2>4, <2>5
<1>8. ASSUME NEW d \in DirectDirs, DirectCrash(d) PROVE DirectInv'
  <2>1. DirectTypeOK'
    BY <1>8 DEF DirectCrash, DirectTypeOK, DirectRow, DirectRequest, DirectPc, NoSession
  <2>2. SessionsOpened'
    BY <1>8 DEF DirectCrash, DirectTypeOK, SessionsOpened, DirectRow, DirectRequest, NoSession
  <2>3. OneBusy'
    BY <1>8 DEF DirectCrash, DirectTypeOK, OneBusy, Busy
  <2>4. OneScope'
    BY <1>8 DEF DirectCrash, DirectTypeOK, OneScope, OneBusy, Busy, DirectRow, DirectRequest
  <2>5. DeadNotResumed'
    BY <1>8 DEF DirectCrash, DirectTypeOK, SessionsOpened, OneScope, DeadNotResumed, DirectRow,
           DirectRequest
  <2> QED BY <2>1, <2>2, <2>3, <2>4, <2>5
<1>9. ASSUME UNCHANGED directVars PROVE DirectInv'
  BY <1>9 DEF directVars, DirectTypeOK, SessionsOpened, OneBusy, Busy, OneScope, DeadNotResumed
<1> QED BY <1>1, <1>2, <1>3, <1>4, <1>5, <1>6, <1>7, <1>8, <1>9 DEF DirectNext

\* The invariant holds in every behaviour.
LEMMA DirectInvariant == DirectSpec => []DirectInv
BY DirectInitially, DirectPreserved, PTL DEF DirectSpec

\* The state of the direct modes always has its type.
THEOREM DirectTypes == DirectSpec => []DirectTypeOK
BY DirectInvariant, PTL DEF DirectInv

\* The daemon never resumes a session whose resume failed, however many requests,
\* directories and restarts there are: AgentDaemon._run_adapter under its lock.
THEOREM DeadStaysDead == DirectSpec => []DeadNotResumed
BY DirectInvariant, PTL DEF DirectInv

\* An upgraded store's session stays the only one until it is saved under the
\* channel: then the legacy scope is never active again.
LegacyFirst ==
  ~dTorn /\ dRow["legacy"].active =>
    /\ ~dRow["channel"].active
    /\ \A r \in DirectRequests :
         dReq[r].pc # "call" /\ (dReq[r].pc = "resume" => dReq[r].scope = "legacy")

\* A session that was reset is in no active row and no request resumes it.
ResetsForgotten ==
  /\ \A x \in dReset : x <= dOpened
  /\ ~dTorn => /\ \A s \in DirectScopes : dRow[s].active => dRow[s].sess \notin dReset
               /\ \A r \in DirectRequests :
                    dReq[r].pc = "resume" => dReq[r].sess \notin dReset
  /\ \A r \in DirectRequests : dReq[r].resets \subseteq dReset

ResetInv == LegacyFirst /\ ResetsForgotten

\* The operator resets while no request resumes the session.
QuietReset ==
  DirectReset => \A r \in DirectRequests :
                   dReq[r].pc = "resume" => dReq[r].sess # dRow[CurrentScope].sess

\* Every step keeps them, if the resets are quiet.
LEMMA ResetPreserved ==
  DirectInv /\ ResetInv /\ [DirectNext]_directVars /\ [QuietReset]_directVars => ResetInv'
<1> SUFFICES ASSUME DirectInv, ResetInv, [DirectNext]_directVars, [QuietReset]_directVars
             PROVE  ResetInv'
  OBVIOUS
<1> USE DirectConstants DEF DirectInv, DirectScopes, DirectTypeOK, DirectRow, DirectRequest, ResetInv
<1>1. ASSUME NEW r \in DirectRequests, NEW d \in DirectDirs, DirectBegin(r, d) PROVE ResetInv'
  <2>1. LegacyFirst'
    BY <1>1 DEF DirectBegin, HasSession, CurrentScope, MarkedStale, LegacyFirst
  <2>2. ResetsForgotten'
    BY <1>1 DEF DirectBegin, HasSession, CurrentScope, MarkedStale, ResetsForgotten
  <2> QED BY <2>1, <2>2
<1>2. ASSUME NEW r \in DirectRequests, DirectResumed(r) PROVE ResetInv'
  <2>1. LegacyFirst'
    BY <1>2 DEF DirectResumed, SavedRow, Upserted, MarkedStale, LegacyFirst
  <2>2. ResetsForgotten'
    BY <1>2 DEF DirectResumed, SavedRow, Upserted, MarkedStale, Settled, ResetsForgotten
  <2> QED BY <2>1, <2>2
<1>3. ASSUME NEW r \in DirectRequests, NEW fallback \in BOOLEAN, DirectResumeFailed(r, fallback) PROVE ResetInv'
  <2>1. LegacyFirst'
    BY <1>3 DEF DirectResumeFailed, RowAfterFailure, MarkedStale, LegacyFirst
  <2>2. ResetsForgotten'
    BY <1>3 DEF DirectResumeFailed, RowAfterFailure, MarkedStale, ResetsForgotten
  <2> QED BY <2>1, <2>2
<1>4. ASSUME NEW r \in DirectRequests, DirectCalled(r) PROVE ResetInv'
  <2>1. LegacyFirst'
    BY <1>4 DEF DirectCalled, SavedRow, Upserted, LegacyFirst
  <2>2. ResetsForgotten'
    BY <1>4 DEF DirectCalled, SavedRow, Upserted, Settled, ResetsForgotten
  <2> QED BY <2>1, <2>2
<1>5. ASSUME NEW r \in DirectRequests, DirectNoResult(r) PROVE ResetInv'
  <2>1. LegacyFirst'
    BY <1>5 DEF DirectNoResult, Settled, LegacyFirst
  <2>2. ResetsForgotten'
    BY <1>5 DEF DirectNoResult, Settled, ResetsForgotten
  <2> QED BY <2>1, <2>2
<1>6. ASSUME NEW r \in DirectRequests, DirectTornSave(r) PROVE ResetInv'
  <2>1. LegacyFirst'
    BY <1>6 DEF DirectTornSave, LegacyFirst
  <2>2. ResetsForgotten'
    BY <1>6 DEF DirectTornSave, ResetsForgotten
  <2> QED BY <2>1, <2>2
<1>7. ASSUME DirectReset PROVE ResetInv'
  <2>1. LegacyFirst'
    BY <1>7 DEF DirectReset, MarkedStale, LegacyFirst
  <2>2. ResetsForgotten'
    BY <1>7 DEF DirectReset, CurrentScope, MarkedStale, QuietReset, directVars, LegacyFirst,
           ResetsForgotten, SessionsOpened
  <2> QED BY <2>1, <2>2
<1>8. ASSUME NEW d \in DirectDirs, DirectCrash(d) PROVE ResetInv'
  <2>1. LegacyFirst'
    BY <1>8 DEF DirectCrash, LegacyFirst
  <2>2. ResetsForgotten'
    BY <1>8 DEF DirectCrash, ResetsForgotten
  <2> QED BY <2>1, <2>2
<1>9. ASSUME UNCHANGED directVars PROVE ResetInv'
  BY <1>9 DEF directVars, LegacyFirst, ResetsForgotten
<1> QED BY <1>1, <1>2, <1>3, <1>4, <1>5, <1>6, <1>7, <1>8, <1>9 DEF DirectNext

\* What the reset command answers is true whenever no request resumes the session
\* at that moment: a request in flight is the only way the run direct_reset finds
\* for a session to come back (_run_adapter_for_scope saves without a check).
THEOREM QuietResetHolds ==
  DirectSpec /\ [][QuietReset]_directVars => []ResetStartsFresh
<1>1. DirectInit => ResetInv
  <2> SUFFICES ASSUME DirectInit PROVE ResetInv
    OBVIOUS
  <2>1. \A r \in DirectRequests : dReq[r].pc = "idle" /\ dReq[r].resets = {}
    BY DEF DirectInit
  <2>2. ~dRow["channel"].active
    <3>1. PICK d \in DirectDirs, upgraded \in BOOLEAN :
            dRow = [s \in DirectScopes |->
                      [sess |-> IF s = "legacy" /\ upgraded THEN 1 ELSE NoSession,
                       dir |-> d, active |-> s = "legacy" /\ upgraded]]
      BY Zenon DEF DirectInit
    <3>2. "channel" \in DirectScopes
      BY DEF DirectScopes
    <3>3. dRow["channel"].active = ("channel" = "legacy" /\ upgraded)
      BY <3>1, <3>2, Zenon
    <3> QED BY <3>3
  <2>3. dReset = {}
    BY DEF DirectInit
  <2> QED BY <2>1, <2>2, <2>3 DEF ResetInv, LegacyFirst, ResetsForgotten
<1>2. ResetInv => ResetStartsFresh
  BY DEF ResetInv, ResetsForgotten, ResetStartsFresh
<1> QED BY <1>1, <1>2, ResetPreserved, DirectInvariant, PTL DEF DirectSpec

----------------------------------------------------------------------------
\* The suite of the run `bridge` is what its parts are: it moves one of them at a
\* time and none of their steps depends on another part.
THEOREM BridgeParts == BridgeSpec => DirectSpec /\ AdmissionSpec /\ HandoffSpec
<1>1. BridgeInit => DirectInit /\ AdmissionInit /\ HandoffInit
  BY DEF BridgeInit
<1>2. [BridgeNext]_bridgeVars =>
        /\ [DirectNext]_directVars
        /\ [AdmissionNext]_admissionVars
        /\ [HandoffNext]_handoffVars
  BY DEF BridgeNext, bridgeVars, DirectStep, AdmissionStep, HandoffStep
<1> QED
  BY <1>1, <1>2, PTL DEF BridgeSpec, DirectSpec, AdmissionSpec, HandoffSpec

\* The state of the bridge's parts always has its type.
THEOREM BridgeTypes == BridgeSpec => []BridgeTypeOK
<1>1. DirectTypeOK /\ AdmissionTypeOK /\ HandoffTypeOK => BridgeTypeOK
  BY DEF BridgeTypeOK
<1> QED
  BY <1>1, BridgeParts, DirectTypes, AdmissionTypes, HandoffTypes, PTL

=============================================================================
