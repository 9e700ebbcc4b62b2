------------------------- MODULE CoordinatorHandoff -------------------------
(***************************************************************************)
(* How the bridge takes a handoff of the coordinator: the gates of managed *)
(* mode, the accept through the Coordinate command line in a thread, the   *)
(* run (a job of Coordinate in managed mode, the adapter in direct mode),  *)
(* the response and the reports the coordinator reads in the channel.      *)
(* Every message is handled in a task of its own; a send may fail.         *)
(***************************************************************************)
EXTENDS Naturals

CONSTANTS Handoffs   \* handoff messages addressed to this agent

VARIABLES
  hManaged,  \* agentd mode
  hMsg,      \* the handler of each message
  hCli,      \* the accept command of each message, a process of its own
  hJob,      \* the run of each message: a Coordinate job or an adapter call
  hTried,    \* agent reports the handler of each message tried to send
  hKept      \* messages whose response entered the channel context

handoffVars == <<hManaged, hMsg, hCli, hJob, hTried, hKept>>

HandoffPc == {"none", "gated", "accept", "bootstrap", "announce", "run", "respond",
              "over", "raised", "lost"}
Reports == {"accept", "blocker", "execution"}
\* What the answer carries: an execution report, only an accept report, none;
\* the text of an error is one of the texts without a report.
AnswerTexts == {"execution", "accept", "plain", "error"}
JobStatus == {"none", "open", "done", "failed"}
Outcomes == {"success", "failure", "absent"}

Handler == [pc : HandoffPc, review : BOOLEAN, text : AnswerTexts, failed : BOOLEAN]
HandoffJob == [status : JobStatus, outcome : Outcomes, text : AnswerTexts]

HandoffTypeOK ==
  /\ hManaged \in BOOLEAN
  /\ hMsg \in [Handoffs -> Handler]
  /\ hCli \in [Handoffs -> {"none", "running", "recorded", "ended"}]
  /\ hJob \in [Handoffs -> HandoffJob]
  /\ hTried \in [Handoffs -> SUBSET Reports]
  /\ hKept \in SUBSET Handoffs

HandoffInit ==
  /\ hManaged \in BOOLEAN
  /\ hMsg = [m \in Handoffs |->
               [pc |-> "none", review |-> FALSE, text |-> "plain", failed |-> FALSE]]
  /\ hCli = [m \in Handoffs |-> "none"]
  /\ hJob = [m \in Handoffs |-> [status |-> "none", outcome |-> "absent", text |-> "plain"]]
  /\ hTried = [m \in Handoffs |-> {}]
  /\ hKept = {}

At(m, pc) == hMsg[m].pc = pc
Goto(m, pc) == hMsg' = [hMsg EXCEPT ![m].pc = pc]
Answered(m, text, failed) ==
  hMsg' = [hMsg EXCEPT ![m] = [@ EXCEPT !.pc = "respond", !.text = text, !.failed = failed]]
Try(m, report) == hTried' = [hTried EXCEPT ![m] = @ \cup {report}]

\* _try_coordinator_handoff up to the gates: in managed mode the handoff needs
\* a complete v1 authority and the workspace the channel is bound to.
TakeHandoff(m, review, authorised) ==
  /\ At(m, "none")
  /\ hMsg' = [hMsg EXCEPT ![m] = [@ EXCEPT
               !.review = review,
               !.pc = IF hManaged /\ ~authorised THEN "gated"
                      ELSE IF review THEN "bootstrap" ELSE "accept"]]
  /\ hCli' = IF (hManaged => authorised) /\ ~review
             THEN [hCli EXCEPT ![m] = "running"] ELSE hCli
  /\ UNCHANGED <<hManaged, hJob, hTried, hKept>>

\* The blocker of a gate; a send that fails raises, and the handler ends too.
ReportBlocker(m, sent) ==
  /\ At(m, "gated")
  /\ Goto(m, IF sent THEN "over" ELSE "raised") /\ Try(m, "blocker")
  /\ UNCHANGED <<hManaged, hCli, hJob, hKept>>

\* The accept command records the agent as the owner of the task, whether or not
\* the bridge still waits for it.
RecordAccept(m) ==
  /\ hCli[m] = "running"
  /\ hCli' = [hCli EXCEPT ![m] = "recorded"]
  /\ UNCHANGED <<hManaged, hMsg, hJob, hTried, hKept>>

\* The command ends without recording: refused, not configured, or killed by the
\* crash of the host.
AcceptFails(m) ==
  /\ hCli[m] = "running"
  /\ hCli' = [hCli EXCEPT ![m] = "ended"]
  /\ UNCHANGED <<hManaged, hMsg, hJob, hTried, hKept>>

\* execute_assignment_accept returns.
AcceptSucceeded(m) ==
  /\ At(m, "accept") /\ hCli[m] = "recorded"
  /\ Goto(m, "bootstrap")
  /\ UNCHANGED <<hManaged, hCli, hJob, hTried, hKept>>

\* A failure, or the 30 s are over: the command is killed, perhaps after it
\* recorded the owner.
AcceptFailed(m) ==
  /\ At(m, "accept")
  /\ hCli' = IF hCli[m] = "running" THEN [hCli EXCEPT ![m] = "ended"] ELSE hCli
  /\ Goto(m, "gated")
  /\ UNCHANGED <<hManaged, hJob, hTried, hKept>>

\* Mutant: managed mode drops a handoff without a bootstrap silently.
AfterBootstrap_Silent(found) == IF hManaged /\ ~found THEN "over" ELSE "announce"

\* Managed mode needs a bootstrap, from the accept's output or the workspace.
AfterBootstrap(found) == IF hManaged /\ ~found THEN "gated" ELSE "announce"

ReadBootstrap(m, found) ==
  /\ At(m, "bootstrap")
  /\ Goto(m, AfterBootstrap(found))
  /\ UNCHANGED <<hManaged, hCli, hJob, hTried, hKept>>

\* A bootstrap file that is no text raises: only a missing or forbidden file is
\* caught.
BootstrapUnreadable(m) ==
  /\ At(m, "bootstrap")
  /\ Goto(m, "raised")
  /\ UNCHANGED <<hManaged, hCli, hJob, hTried, hKept>>

\* The accept report; a failed send raises before anything runs.
AnnounceAccept(m, sent) ==
  /\ At(m, "announce")
  /\ Goto(m, IF sent THEN "run" ELSE "raised")
  /\ Try(m, "accept")
  /\ UNCHANGED <<hManaged, hCli, hJob, hKept>>

\* _run_handoff_via_agentd: submit_request, the job under a key of the message;
\* or the adapter is called.
StartRun(m) ==
  /\ At(m, "run") /\ hJob[m].status = "none"
  /\ hJob' = [hJob EXCEPT ![m].status = "open"]
  /\ UNCHANGED <<hManaged, hMsg, hCli, hTried, hKept>>

\* Coordinate answers without a job.
SubmitRefused(m) ==
  /\ At(m, "run") /\ hManaged /\ hJob[m].status = "none"
  /\ Answered(m, "error", TRUE)
  /\ UNCHANGED <<hManaged, hCli, hJob, hTried, hKept>>

\* submit_request or the wait raises when Coordinate stays out of reach: nothing
\* catches it here, and a job that was created runs unattended.
CallRaises(m) ==
  /\ At(m, "run") /\ hManaged
  /\ Goto(m, "raised")
  /\ UNCHANGED <<hManaged, hCli, hJob, hTried, hKept>>

\* The run ends.  A job that is not done may still carry an outcome and a text,
\* and a done one of an older worker carries no outcome.
EndRun(m, status, outcome, text) ==
  /\ hJob[m].status = "open"
  /\ ~hManaged => (status = "done" <=> outcome = "success") /\ outcome # "absent"
  /\ hJob' = [hJob EXCEPT ![m] = [status |-> status, outcome |-> outcome, text |-> text]]
  /\ UNCHANGED <<hManaged, hMsg, hCli, hTried, hKept>>

\* The job's status comes first, then the outcome, then the look of the text.
RunFailed(j) ==
  \/ j.status # "done"
  \/ IF j.outcome = "absent" THEN j.text = "error" ELSE j.outcome # "success"

\* wait_for_job_result, or the adapter, returns.
ReadResult(m) ==
  /\ At(m, "run") /\ hJob[m].status \in {"done", "failed"}
  /\ Answered(m, hJob[m].text, RunFailed(hJob[m]))
  /\ UNCHANGED <<hManaged, hCli, hJob, hTried, hKept>>

\* wait_for_job_result gives up: the job goes on without a reader.
WaitTimesOut(m) ==
  /\ At(m, "run") /\ hManaged /\ hJob[m].status # "none"
  /\ Answered(m, "error", TRUE)
  /\ UNCHANGED <<hManaged, hCli, hJob, hTried, hKept>>

\* The reports the answer itself carries, split_agent_report_lines.
Carried(text) == {text} \cap {"execution", "accept"}

\* Mutant: any report line of the answer counts, also the accept.
HasExecutionReport_Any(text) == text \in {"execution", "accept"}

\* contains_execution_agent_report.
HasExecutionReport(text) == text = "execution"

\* _send_missing_report_fallback.
Fallback(m) == IF HasExecutionReport(hMsg[m].text) THEN {}
               ELSE {IF hMsg[m].failed THEN "blocker" ELSE "execution"}

\* The response is shown; then, in direct mode only, the answer's report lines
\* and the fallback.  A failure of these sends is skipped.
Respond(m) ==
  /\ At(m, "respond")
  /\ Goto(m, "over")
  /\ hKept' = IF hMsg[m].failed THEN hKept ELSE hKept \cup {m}
  /\ hTried' = IF hManaged THEN hTried
               ELSE [hTried EXCEPT ![m] = @ \cup Carried(hMsg[m].text) \cup Fallback(m)]
  /\ UNCHANGED <<hManaged, hCli, hJob>>

\* The first chunk of the response can be sent neither as an edit nor as a
\* message: that send raises, and no report follows.
ResponseUnsent(m) ==
  /\ At(m, "respond")
  /\ Goto(m, "raised")
  /\ UNCHANGED <<hManaged, hCli, hJob, hTried, hKept>>

\* The bridge dies: nobody comes back to a handoff it was working on.  An
\* adapter dies with it, a job and an accept command do not.
HandoffCrash ==
  /\ hMsg' = [m \in Handoffs |-> IF hMsg[m].pc \in {"none", "over", "raised"} THEN hMsg[m]
                                 ELSE [hMsg[m] EXCEPT !.pc = "lost"]]
  /\ hJob' = [m \in Handoffs |-> IF ~hManaged /\ hJob[m].status = "open"
                                 THEN [hJob[m] EXCEPT !.status = "failed"] ELSE hJob[m]]
  /\ UNCHANGED <<hManaged, hCli, hTried, hKept>>

HandoffNext ==
  \/ \E m \in Handoffs :
       \/ \E review, authorised \in BOOLEAN : TakeHandoff(m, review, authorised)
       \/ RecordAccept(m) \/ AcceptFails(m) \/ AcceptSucceeded(m) \/ AcceptFailed(m)
       \/ \E found \in BOOLEAN : ReadBootstrap(m, found)
       \/ BootstrapUnreadable(m)
       \/ \E sent \in BOOLEAN : ReportBlocker(m, sent) \/ AnnounceAccept(m, sent)
       \/ StartRun(m) \/ SubmitRefused(m) \/ CallRaises(m)
       \/ ReadResult(m) \/ WaitTimesOut(m)
       \/ \E status \in {"done", "failed"}, outcome \in Outcomes, text \in AnswerTexts :
            EndRun(m, status, outcome, text)
       \/ Respond(m) \/ ResponseUnsent(m)
  \/ HandoffCrash

HandoffSpec == HandoffInit /\ [][HandoffNext]_handoffVars

----------------------------------------------------------------------------
\* A handler that returns has answered the coordinator with an accept or a
\* blocker, and so has one that stopped once the run could start: an owner that
\* Coordinate recorded behind a timeout or a missing bootstrap is never left
\* without a report, unless the bootstrap is unreadable or the bridge dies.
NoSilentHandoff ==
  \A m \in Handoffs :
    At(m, "over") \/ hJob[m].status # "none" => hTried[m] \cap {"accept", "blocker"} # {}

\* In direct mode the coordinator is sent an execution report or a blocker for
\* every run whose answer was shown, whatever report lines that answer had.
FinishedRunReports ==
  \A m \in Handoffs :
    ~hManaged /\ At(m, "over") /\ hJob[m].status # "none" =>
      hTried[m] \cap {"execution", "blocker"} # {}
=============================================================================
