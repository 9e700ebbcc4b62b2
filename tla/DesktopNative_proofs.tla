----------------------- MODULE DesktopNative_proofs -----------------------
(***************************************************************************)
(* Proofs about DesktopNative, for every set of jobs and texts and every    *)
(* bound.  Only a first attempt may call the queue, there is one first       *)
(* attempt of a job in all its life, and it records its progress before the *)
(* call: NativeInv says how far that attempt has come.  The last part is    *)
(* the refinement of NativeDelivery and what it brings.                     *)
(***************************************************************************)
EXTENDS DesktopNative, TLAPS

\* The steps of the first attempt, up to the queue call and after it.
FirstSteps == {"preflight", "endpoint", "latch", "register", "recheck", "answer", "await"}
BeforeQueue == {"validate", "preflight", "endpoint", "latch", "register", "recheck", "answer"}
BeforeEndpoint == {"validate", "preflight", "endpoint"}
BehindLatch == {"register", "recheck", "answer", "await"}
EndpointSteps == BehindLatch \cup {"latch"}

\* The job of an execution is at its attempt and was not reported.
RunHolds ==
  nRun.pc # "idle" =>
    /\ nRun.token = nJob[nRun.job].attempt /\ nRun.token # 0
    /\ nJob[nRun.job].status \notin {"done", "failed", "timed_out"}

FirstAttemptOnly == nRun.pc \in FirstSteps => nRun.token = 1 /\ nRun.seen = 0

\* The desktop knows nothing of a job before its first attempt comes to the call.
NotCalledYet ==
  /\ \A j \in NativeJobs : nJob[j].attempt = 0 => ~NativeCalled(j)
  /\ nRun.pc \in BeforeQueue /\ nRun.token = 1 => ~NativeCalled(nRun.job)

LatchedFirst == nRun.pc \in BehindLatch => nRun.latched /\ nJob[nRun.job].progress # 0

RejectedUncalled ==
  nRun.result = "failed" => nRun.pc \in {"close", "report"} /\ ~NativeCalled(nRun.job)

\* Only a first attempt latches, it does so before its call, and an execution knows
\* of no record but that one.
EvidenceSeen ==
  /\ \A j \in NativeJobs : nJob[j].progress \in {0, 1} /\ nJob[j].evidence \in {0, 1}
  /\ nRun.pc # "idle" =>
       /\ nRun.seen \in {0, nJob[nRun.job].progress}
       /\ nRun.latched => nRun.token = 1
       /\ NativeCalled(nRun.job) /\ nRun.token = 1 => nRun.latched
  /\ nRun.result = "done" => nRun.latched

QueueInv ==
  /\ RunHolds /\ FirstAttemptOnly /\ NotCalledYet /\ LatchedFirst
  /\ RejectedUncalled /\ EvidenceSeen /\ AtMostOneEnqueue /\ EnqueueIsTraceable

\* The text went to the channel for the job, or is about to.
Told(j, t) == t \in nAsked[j] \/ \E s \in nSends : s.job = j /\ s.text = t

EndpointOpen ==
  /\ nReply.active => nRun.pc \in EndpointSteps \cup {"close"}
  /\ nRun.pc \in EndpointSteps => nReply.active

\* An endpoint is opened once for a job, and all its texts are the digest's.
NoTextYet ==
  /\ \A j \in NativeJobs : nJob[j].attempt = 0 => \A t \in ReplyTexts : ~Told(j, t)
  /\ nRun.pc \in BeforeEndpoint /\ nRun.token = 1 =>
       \A t \in ReplyTexts : ~Told(nRun.job, t)

TextIsDigest == nReply.active => \A t \in ReplyTexts : Told(nRun.job, t) => t = nReply.digest

OneText == \A j \in NativeJobs : \A t, u \in ReplyTexts : Told(j, t) /\ Told(j, u) => t = u

SentWasAsked == \A s \in nSends : s.sent => s.text \in nAsked[s.job]

RepliedBefore ==
  /\ nReply.active /\ nReply.acknowledged => nAsked[nRun.job] # {}
  /\ nRun.result = "done" => nRun.pc \in {"close", "report"} /\ nAsked[nRun.job] # {}
  /\ \A j \in NativeJobs : nJob[j].status = "done" => nAsked[j] # {}

ReplyInv ==
  /\ EndpointOpen /\ NoTextYet /\ TextIsDigest /\ OneText /\ SentWasAsked /\ RepliedBefore

\* What Coordinate said of the lease is still so, or the lease was renewed.
LeaseOutlives ==
  /\ \A j \in NativeJobs : nJob[j].expires <= nClock + NativeTTL
  /\ nRun.pc = "answer" => nRun.started <= nClock
  /\ nRun.pc = "answer" /\ nRun.current => nRun.started + nRun.left <= nJob[nRun.job].expires

NativeInv == NativeTypeOK /\ QueueInv /\ ReplyInv /\ LeaseOutlives

\* Taking the execution one step on changes nothing else of it.
LEMMA StepFacts ==
  ASSUME NativeTypeOK, NEW pc \in NativePc, Step(pc)
  PROVE  /\ nRun' \in NativeExecution /\ nRun'.pc = pc /\ nRun'.result = nRun.result
         /\ nRun'.job = nRun.job /\ nRun'.token = nRun.token /\ nRun'.seen = nRun.seen
         /\ nRun'.latched = nRun.latched
BY DEF NativeTypeOK, NativeExecution, Step

\* And ending it only sets its result.
LEMMA FinishFacts ==
  ASSUME NativeTypeOK, NEW result \in NativeStatus, Finish(result)
  PROVE  /\ nRun' \in NativeExecution /\ nRun'.pc = "close" /\ nRun'.result = result
         /\ nRun'.job = nRun.job /\ nRun'.token = nRun.token /\ nRun'.seen = nRun.seen
         /\ nRun'.latched = nRun.latched
<1>1. nRun \in NativeExecution /\ "close" \in NativePc
  BY DEF NativeTypeOK, NativePc
<1>2. nRun' = [nRun EXCEPT !.pc = "close", !.result = result]
  BY DEF Finish
<1> QED BY <1>1, <1>2 DEF NativeExecution

\* What names an execution.
SameRun ==
  /\ nRun'.job = nRun.job /\ nRun'.token = nRun.token /\ nRun'.seen = nRun.seen
  /\ nRun'.latched = nRun.latched

\* Where the steps of an attempt lead.
LEMMA MoveFacts ==
  ASSUME NativeTypeOK
  PROVE  /\ NativeAttempt =>
              nRun' \in NativeExecution /\ SameRun /\ nRun'.pc \in {"close", "preflight"}
         /\ NativePreflight =>
              nRun' \in NativeExecution /\ SameRun /\ nRun'.pc \in {"close", "endpoint"}
         /\ NativeOpenEndpoint =>
              /\ nRun' \in NativeExecution /\ SameRun
              /\ \/ nRun'.pc = "close" /\ nReply' = nReply
                 \/ nRun'.pc = "latch" /\ nReply' = [NoEndpoint EXCEPT !.active = TRUE]
         /\ NativeRegister =>
              nRun' \in NativeExecution /\ SameRun /\ nRun'.pc \in {"close", "recheck"}
         /\ NativeQueueCall =>
              nRun' \in NativeExecution /\ SameRun /\ nRun'.pc \in {"close", "await"}
         /\ NativeAwaitAck =>
              nRun' \in NativeExecution /\ SameRun /\ nRun'.pc = "close"
<1>1. {"preflight", "endpoint", "latch", "recheck", "await", "close"} \subseteq NativePc
      /\ {"timed_out", "failed", "done"} \subseteq NativeStatus
  BY DEF NativePc, NativeStatus
<1>2. NativeAttempt =>
        nRun' \in NativeExecution /\ SameRun /\ nRun'.pc \in {"close", "preflight"}
  BY <1>1, StepFacts, FinishFacts DEF NativeAttempt, SameRun
<1>3. NativePreflight =>
        nRun' \in NativeExecution /\ SameRun /\ nRun'.pc \in {"close", "endpoint"}
  BY <1>1, StepFacts, FinishFacts DEF NativePreflight, SameRun
<1>4. NativeOpenEndpoint =>
        /\ nRun' \in NativeExecution /\ SameRun
        /\ \/ nRun'.pc = "close" /\ nReply' = nReply
           \/ nRun'.pc = "latch" /\ nReply' = [NoEndpoint EXCEPT !.active = TRUE]
  BY <1>1, StepFacts, FinishFacts DEF NativeOpenEndpoint, SameRun
<1>5. NativeRegister =>
        nRun' \in NativeExecution /\ SameRun /\ nRun'.pc \in {"close", "recheck"}
  BY <1>1, StepFacts, FinishFacts DEF NativeRegister, SameRun
<1>6. NativeQueueCall =>
        nRun' \in NativeExecution /\ SameRun /\ nRun'.pc \in {"close", "await"}
  <2>1. ASSUME nRun' = [nRun EXCEPT !.pc = "close", !.lost = TRUE]
        PROVE  nRun' \in NativeExecution /\ SameRun /\ nRun'.pc = "close"
    BY <1>1, <2>1 DEF NativeTypeOK, NativeExecution, SameRun
  <2> QED BY <1>1, <2>1, StepFacts DEF NativeQueueCall, SameRun
<1>7. NativeAwaitAck => nRun' \in NativeExecution /\ SameRun /\ nRun'.pc = "close"
  BY <1>1, FinishFacts DEF NativeAwaitAck, SameRun
<1> QED BY <1>2, <1>3, <1>4, <1>5, <1>6, <1>7

\* No execution, the scope of one and the sends of its endpoint have their types.
LEMMA PartTypes ==
  ASSUME NativeTypeOK
  PROVE  /\ \A j \in NativeJobs : NoExecution(j) \in NativeExecution
         /\ NativeScope \in NativeCall
         /\ NoEndpoint \in NativeEndpoint /\ [NoEndpoint EXCEPT !.active = TRUE] \in NativeEndpoint
         /\ nRun.job \in NativeJobs /\ nRun.token \in Nat
         /\ \A t \in ReplyTexts, sent \in BOOLEAN :
              [job |-> nRun.job, text |-> t, sent |-> sent] \in NativeSend
         /\ \A s \in NativeSend : [s EXCEPT !.sent = TRUE] \in NativeSend
<1>1. \A j \in NativeJobs : NoExecution(j) \in NativeExecution
  BY DEF NoExecution, NativeExecution, NativePc, NativeStatus
<1>2. nRun.job \in NativeJobs /\ nRun.token \in Nat
  BY DEF NativeTypeOK, NativeExecution
<1>3. NativeScope \in NativeCall
  BY <1>2 DEF NativeScope, NativeCall
<1>4. NoEndpoint \in NativeEndpoint /\ [NoEndpoint EXCEPT !.active = TRUE] \in NativeEndpoint
  BY DEF NoEndpoint, NativeEndpoint
<1>5. \A t \in ReplyTexts, sent \in BOOLEAN :
        [job |-> nRun.job, text |-> t, sent |-> sent] \in NativeSend
  BY <1>2 DEF NativeSend
<1>6. \A s \in NativeSend : [s EXCEPT !.sent = TRUE] \in NativeSend
  BY DEF NativeSend
<1> QED BY <1>1, <1>2, <1>3, <1>4, <1>5, <1>6

\* The row a claim writes and the execution that starts with it.
LEMMA ClaimedRow ==
  ASSUME NativeTypeOK, NEW j \in NativeJobs, NativeClaim(j)
  PROVE  /\ nJob' \in [NativeJobs -> NativeRow]
         /\ \A k \in NativeJobs : k # j => nJob'[k] = nJob[k]
         /\ nJob'[j].status = "running" /\ nJob'[j].attempt = nJob[j].attempt + 1
         /\ nJob'[j].expires = nClock + NativeTTL
         /\ nJob'[j].progress = nJob[j].progress /\ nJob'[j].evidence = nJob[j].evidence
         /\ nRun' \in NativeExecution
         /\ nRun'.pc = "validate" /\ nRun'.job = j /\ nRun'.token = nJob[j].attempt + 1
         /\ nRun'.result = "pending"
<1> DEFINE row == [nJob[j] EXCEPT !.status = "running", !.attempt = nJob[j].attempt + 1,
                              !.expires = nClock + NativeTTL]
<1>1. nJob' = [nJob EXCEPT ![j] = row]
  BY DEF NativeClaim
<1>2. nJob[j] \in NativeRow /\ nClock \in Nat /\ nJob \in [NativeJobs -> NativeRow]
  BY DEF NativeTypeOK
<1>3. /\ row \in NativeRow
      /\ row.status = "running" /\ row.attempt = nJob[j].attempt + 1
      /\ row.expires = nClock + NativeTTL
      /\ row.progress = nJob[j].progress /\ row.evidence = nJob[j].evidence
  <2> DEFINE attempt == nJob[j].attempt + 1
             expires == nClock + NativeTTL
             before == nJob[j]
  <2>1. attempt \in Nat /\ expires \in Nat /\ before \in NativeRow /\ "running" \in NativeStatus
    BY <1>2, NativeConstants DEF NativeRow, NativeStatus
  <2>2. row = [before EXCEPT !.status = "running", !.attempt = attempt, !.expires = expires]
    OBVIOUS
  <2> HIDE DEF attempt, expires, before, row
  <2>3. /\ row \in NativeRow
        /\ row.status = "running" /\ row.attempt = attempt /\ row.expires = expires
        /\ row.progress = before.progress /\ row.evidence = before.evidence
    BY <2>1, <2>2 DEF NativeRow
  <2> QED BY <2>3 DEF attempt, expires, before
<1> HIDE DEF row
<1>4. /\ nJob' \in [NativeJobs -> NativeRow] /\ nJob'[j] = row
      /\ \A k \in NativeJobs : k # j => nJob'[k] = nJob[k]
  BY <1>1, <1>2, <1>3
<1>5. /\ nRun' \in NativeExecution
      /\ nRun'.pc = "validate" /\ nRun'.job = j /\ nRun'.token = nJob[j].attempt + 1
      /\ nRun'.result = "pending"
  <2> DEFINE token == nJob[j].attempt + 1
             seen == nJob[j].progress
  <2>1. token \in Nat /\ seen \in Nat
    BY <1>2 DEF NativeRow
  <2>2. nRun' = [NoExecution(j) EXCEPT !.pc = "validate", !.token = token, !.seen = seen]
    BY DEF NativeClaim, PriorProgress
  <2> HIDE DEF token, seen
  <2>3. /\ NoExecution(j) \in NativeExecution /\ "validate" \in NativePc
        /\ NoExecution(j).job = j /\ NoExecution(j).result = "pending"
    BY DEF NoExecution, NativeExecution, NativePc, NativeStatus
  <2>4. /\ nRun' \in NativeExecution /\ nRun'.pc = "validate" /\ nRun'.job = j
        /\ nRun'.token = token /\ nRun'.result = "pending"
    BY <2>1, <2>2, <2>3 DEF NativeExecution
  <2> QED BY <2>4 DEF token
<1> QED BY <1>3, <1>4, <1>5

\* The row a report leaves behind, whether its call arrives or not.
LEMMA ReportedRow ==
  ASSUME NativeTypeOK, NativeReport
  PROVE  /\ nJob' \in [NativeJobs -> NativeRow]
         /\ \A k \in NativeJobs : k # nRun.job => nJob'[k] = nJob[k]
         /\ nJob'[nRun.job].status \in {nJob[nRun.job].status, nRun.result}
         /\ nJob'[nRun.job].attempt = nJob[nRun.job].attempt
         /\ nJob'[nRun.job].expires = nJob[nRun.job].expires
         /\ nJob'[nRun.job].progress = nJob[nRun.job].progress
         /\ nJob'[nRun.job].evidence \in {nJob[nRun.job].evidence, ReportedEvidence}
         /\ nRun' \in NativeExecution
         /\ nRun'.pc = "idle" /\ nRun'.job = nRun.job /\ nRun'.token = 0
         /\ nRun'.result = "pending"
<1> DEFINE row == [nJob[nRun.job] EXCEPT !.status = nRun.result, !.evidence = ReportedEvidence]
<1>1. nJob' = [nJob EXCEPT ![nRun.job] = row] \/ nJob' = nJob
  BY DEF NativeReport
<1>2. /\ nRun.job \in NativeJobs /\ nRun.result \in NativeStatus
      /\ nJob[nRun.job] \in NativeRow /\ nJob \in [NativeJobs -> NativeRow]
  BY DEF NativeTypeOK, NativeExecution
<1>3. ReportedEvidence \in Nat
  BY DEF NativeTypeOK, NativeExecution, ReportedEvidence
<1>4. /\ row \in NativeRow
      /\ row.status = nRun.result /\ row.attempt = nJob[nRun.job].attempt
      /\ row.expires = nJob[nRun.job].expires /\ row.progress = nJob[nRun.job].progress
      /\ row.evidence = ReportedEvidence
  BY <1>2, <1>3 DEF NativeRow
<1> HIDE DEF row
<1>5. /\ nRun' \in NativeExecution
      /\ nRun'.pc = "idle" /\ nRun'.job = nRun.job /\ nRun'.token = 0
      /\ nRun'.result = "pending"
  BY <1>2 DEF NativeReport, NoExecution, NativeExecution, NativePc, NativeStatus
<1>6. /\ nJob' \in [NativeJobs -> NativeRow]
      /\ \A k \in NativeJobs : k # nRun.job => nJob'[k] = nJob[k]
      /\ nJob'[nRun.job].status \in {nJob[nRun.job].status, nRun.result}
      /\ nJob'[nRun.job].attempt = nJob[nRun.job].attempt
      /\ nJob'[nRun.job].expires = nJob[nRun.job].expires
      /\ nJob'[nRun.job].progress = nJob[nRun.job].progress
      /\ nJob'[nRun.job].evidence \in {nJob[nRun.job].evidence, ReportedEvidence}
  <2>1. CASE nJob' = nJob BY <1>2, <2>1
  <2>2. CASE nJob' = [nJob EXCEPT ![nRun.job] = row] BY <1>2, <1>4, <2>2
  <2> QED BY <1>1, <2>1, <2>2
<1> QED BY <1>5, <1>6

\* Every step keeps the types.
LEMMA NativeTypeStep == NativeInv /\ [NativeNext]_nativeVars => NativeTypeOK'
<1> SUFFICES ASSUME NativeInv, [NativeNext]_nativeVars PROVE NativeTypeOK'
  OBVIOUS
<1> USE NativeConstants DEF NativeInv, nativeWorld, nativeDesktop, nativeReply
<1>1. ASSUME NEW j \in NativeJobs, NativeExpire(j) PROVE NativeTypeOK'
  BY <1>1 DEF NativeExpire, NativeLive, NativeTypeOK, NativeRow, NativeExecution,
     NativeEndpoint, NativeCall, NativeSend, NativePc, NativeStatus
<1>2. ASSUME NEW j \in NativeJobs, NativeCancel(j) PROVE NativeTypeOK'
  BY <1>2 DEF NativeCancel, NativeTypeOK, NativeRow, NativeExecution, NativeEndpoint,
     NativeCall, NativeSend, NativePc, NativeStatus
<1>3. ASSUME NEW j \in NativeJobs, NativeClaim(j) PROVE NativeTypeOK'
  BY <1>3, ClaimedRow DEF NativeClaim, NativeTypeOK
<1>4. ASSUME NativeTick PROVE NativeTypeOK'
  BY <1>4 DEF NativeTick, NativeTypeOK
<1>5. ASSUME NativeEditProfile PROVE NativeTypeOK'
  BY <1>5 DEF NativeEditProfile, NativeTypeOK
<1>6. ASSUME NativeCrash PROVE NativeTypeOK'
  BY <1>6, PartTypes DEF NativeCrash, NativeTypeOK
<1>7. ASSUME NativeStart PROVE NativeTypeOK'
  BY <1>7 DEF NativeStart, NativeTypeOK
<1>8. ASSUME NativeReject PROVE NativeTypeOK'
  <2>1. PICK original \in OriginalEvidence :
          nRun' = [nRun EXCEPT !.pc = "report", !.result = ValidationResult, !.seen = original]
    BY <1>8 DEF NativeReject
  <2>2. original \in Nat /\ ValidationResult \in NativeStatus /\ "report" \in NativePc
    BY DEF OriginalEvidence, NativeTypeOK, NativeExecution, ValidationResult, NativeStatus,
           NativePc
  <2>3. nRun' \in NativeExecution
    BY <2>1, <2>2 DEF NativeTypeOK, NativeExecution
  <2> QED BY <1>8, <2>3 DEF NativeReject, NativeTypeOK
<1>9. ASSUME NativeObserve PROVE NativeTypeOK'
  <2>1. nRun' \in NativeExecution
    <3>1. PICK original \in OriginalEvidence :
            nRun' = [nRun EXCEPT !.pc = "report", !.result = "timed_out", !.seen = original]
      BY <1>9 DEF NativeObserve
    <3>2. original \in Nat /\ "timed_out" \in NativeStatus /\ "report" \in NativePc
      BY DEF OriginalEvidence, NativeTypeOK, NativeExecution, NativeStatus, NativePc
    <3> QED BY <3>1, <3>2 DEF NativeTypeOK, NativeExecution
  <2> QED BY <1>9, <2>1, PartTypes DEF NativeObserve, NativeTypeOK
<1>10. ASSUME NativeAttempt PROVE NativeTypeOK'
  BY <1>10, MoveFacts, PartTypes DEF NativeAttempt, NativeTypeOK
<1>11. ASSUME NativePreflight PROVE NativeTypeOK'
  BY <1>11, MoveFacts DEF NativePreflight, NativeTypeOK
<1>12. ASSUME NativeOpenEndpoint PROVE NativeTypeOK'
  BY <1>12, MoveFacts, PartTypes DEF NativeOpenEndpoint, NativeTypeOK
<1>13. ASSUME NativeRecordProgress PROVE NativeTypeOK'
  <2>1. nRun' \in NativeExecution
    <3>1. PICK pc \in {"register", "recheck", "close"} :
            nRun' = [nRun EXCEPT !.latched = TRUE, !.pc = pc, !.result = "timed_out"]
      BY <1>13 DEF NativeRecordProgress
    <3>2. pc \in NativePc /\ "timed_out" \in NativeStatus /\ nRun \in NativeExecution
      BY DEF NativeTypeOK, NativePc, NativeStatus
    <3> QED BY <3>1, <3>2 DEF NativeExecution
  <2>2. \A j \in NativeJobs : [nJob[j] EXCEPT !.progress = nRun.token] \in NativeRow
    BY PartTypes DEF NativeTypeOK, NativeRow
  <2>3. nJob' \in [NativeJobs -> NativeRow]
    <3>1. \/ nJob' = nJob
          \/ nJob' = [nJob EXCEPT ![nRun.job] = [nJob[nRun.job] EXCEPT !.progress = nRun.token]]
      BY <1>13 DEF NativeRecordProgress
    <3> QED BY <2>2, <3>1, PartTypes DEF NativeTypeOK
  <2> QED BY <1>13, <2>1, <2>3 DEF NativeRecordProgress, NativeTypeOK
<1>14. ASSUME NativeRegister PROVE NativeTypeOK'
  BY <1>14, MoveFacts, PartTypes DEF NativeRegister, NativeTypeOK
<1>15. ASSUME NativeRecheck PROVE NativeTypeOK'
  BY <1>15 DEF NativeRecheck, NativeTypeOK, NativeRow, NativeExecution, NativeEndpoint,
     NativeCall, NativeSend, NativePc, NativeStatus
<1>16. ASSUME NativeReconcile PROVE NativeTypeOK'
  <2>1. nJob[nRun.job].expires - nClock \in Int
    BY PartTypes DEF NativeTypeOK, NativeRow
  <2>2. nRun' \in NativeExecution
    BY <1>16, <2>1 DEF NativeReconcile, NativeTypeOK, NativeExecution
  <2> QED BY <1>16, <2>2 DEF NativeReconcile, NativeTypeOK
<1>17. ASSUME NativeQueueCall PROVE NativeTypeOK'
  BY <1>17, MoveFacts, PartTypes DEF NativeQueueCall, NativeTypeOK
<1>18. ASSUME NativeAwaitAck PROVE NativeTypeOK'
  BY <1>18, MoveFacts DEF NativeAwaitAck, NativeTypeOK
<1>19. ASSUME NativeClose PROVE NativeTypeOK'
  BY <1>19 DEF NativeClose, CloseEverything, Step, NativeScope, NativeTypeOK, NativeRow,
     NativeExecution, NativeEndpoint, NativeCall, NativeSend, NativePc, NativeStatus
<1>20. ASSUME NativeReport PROVE NativeTypeOK'
  BY <1>20, ReportedRow DEF NativeReport, NativeTypeOK
<1>21. ASSUME NativeRenew PROVE NativeTypeOK'
  <2>1. [nRun EXCEPT !.lost = TRUE] \in NativeExecution
    BY DEF NativeTypeOK, NativeExecution
  <2>2. [nJob[nRun.job] EXCEPT !.expires = nClock + NativeTTL] \in NativeRow
    BY PartTypes DEF NativeTypeOK, NativeRow
  <2>3. \/ nJob' = nJob /\ nRun' = [nRun EXCEPT !.lost = TRUE]
        \/ /\ nJob' = [nJob EXCEPT ![nRun.job] =
                         [nJob[nRun.job] EXCEPT !.expires = nClock + NativeTTL]]
           /\ nRun' = nRun
    BY <1>21 DEF NativeRenew, NativeTypeOK
  <2>4. nJob' \in [NativeJobs -> NativeRow] /\ nRun' \in NativeExecution
    BY <2>1, <2>2, <2>3, PartTypes DEF NativeTypeOK
  <2> QED BY <1>21, <2>4 DEF NativeRenew, NativeTypeOK
<1>22. ASSUME NativeAbort PROVE NativeTypeOK'
  <2>1. nReply' \in NativeEndpoint
    BY <1>22 DEF NativeAbort, CloseEverything, NativeTypeOK, NativeEndpoint
  <2> QED BY <1>22, <2>1, PartTypes DEF NativeAbort, CloseEverything, NativeTypeOK
<1>23. ASSUME NEW c \in nCalls, NativeEnqueue(c) PROVE NativeTypeOK'
  BY <1>23 DEF NativeEnqueue, NativeTypeOK
<1>24. ASSUME NativeHostRestart PROVE NativeTypeOK'
  BY <1>24 DEF NativeHostRestart, NativeTypeOK
<1>25. ASSUME NEW t \in ReplyTexts, NativeReplyAsk(t) PROVE NativeTypeOK'
  <2>1. nReply' \in NativeEndpoint
    BY <1>25 DEF NativeReplyAsk, NativeTypeOK, NativeEndpoint
  <2>2. nSends' \in SUBSET NativeSend
    BY <1>25, PartTypes DEF NativeReplyAsk, NativeTypeOK
  <2> QED BY <1>25, <2>1, <2>2 DEF NativeReplyAsk, NativeTypeOK
<1>26. ASSUME NEW s \in nSends, NativeReplySend(s) PROVE NativeTypeOK'
  <2>1. s \in NativeSend
    BY DEF NativeTypeOK
  <2>2. nSends' \in SUBSET NativeSend
    BY <1>26, <2>1, PartTypes DEF NativeReplySend, NativeTypeOK
  <2>3. nAsked' \in [NativeJobs -> SUBSET ReplyTexts]
    BY <1>26, <2>1 DEF NativeReplySend, NativeTypeOK, NativeSend
  <2> QED BY <1>26, <2>2, <2>3 DEF NativeReplySend, NativeTypeOK
<1>27. ASSUME NEW s \in nSends, NativeReplySettle(s) PROVE NativeTypeOK'
  <2>1. [nReply EXCEPT !.acknowledged = TRUE] \in NativeEndpoint
    BY DEF NativeTypeOK, NativeEndpoint
  <2>2. nReply' \in NativeEndpoint
    BY <1>27, <2>1 DEF NativeReplySettle, NativeTypeOK
  <2> QED BY <1>27, <2>2 DEF NativeReplySettle, NativeTypeOK
<1>28. ASSUME UNCHANGED nativeVars PROVE NativeTypeOK'
  BY <1>28 DEF nativeVars, NativeTypeOK, NativeRow, NativeExecution, NativeEndpoint, NativeCall,
     NativeSend, NativePc, NativeStatus
<1> QED BY <1>1, <1>2, <1>3, <1>4, <1>5, <1>6, <1>7, <1>8, <1>9, <1>10, <1>11, <1>12, <1>13,
   <1>14, <1>15, <1>16, <1>17, <1>18, <1>19, <1>20, <1>21, <1>22, <1>23, <1>24, <1>25, <1>26,
   <1>27, <1>28 DEF NativeNext, NativeExecute

\* Every step keeps what the queue call needs.
LEMMA QueueStep == NativeInv /\ [NativeNext]_nativeVars => QueueInv'
<1> SUFFICES ASSUME NativeInv, [NativeNext]_nativeVars PROVE QueueInv'
  OBVIOUS
<1> USE NativeConstants DEF NativeInv, nativeWorld, nativeDesktop, nativeReply
<1>1. ASSUME NEW j \in NativeJobs, NativeExpire(j) PROVE QueueInv'
  <2>1. RunHolds'
    BY <1>1 DEF NativeExpire, QueueInv, RunHolds
  <2>2. FirstAttemptOnly'
    BY <1>1 DEF NativeExpire, QueueInv, FirstAttemptOnly
  <2>3. NotCalledYet'
    BY <1>1 DEF NativeExpire, NativeLive, QueueInv, NotCalledYet, NativeCalled, BeforeQueue,
       RunHolds, NativeTypeOK
  <2>4. LatchedFirst'
    BY <1>1 DEF NativeExpire, QueueInv, LatchedFirst
  <2>5. RejectedUncalled'
    BY <1>1 DEF NativeExpire, NativeLive, QueueInv, RejectedUncalled, NativeCalled,
       NotCalledYet, BeforeQueue, FirstAttemptOnly, FirstSteps, NativeTypeOK
  <2>6. EvidenceSeen'
    BY <1>1 DEF NativeExpire, NativeLive, QueueInv, EvidenceSeen, NativeCalled, NotCalledYet,
       LatchedFirst, BehindLatch, EnqueueIsTraceable, NativeTypeOK
  <2>7. AtMostOneEnqueue'
    BY <1>1 DEF NativeExpire, QueueInv, AtMostOneEnqueue
  <2>8. EnqueueIsTraceable'
    BY <1>1 DEF NativeExpire, NativeLive, QueueInv, EnqueueIsTraceable, NativeCalled,
       LatchedFirst, BehindLatch, RejectedUncalled, EvidenceSeen, RunHolds, NativeTypeOK
  <2> QED BY <2>1, <2>2, <2>3, <2>4, <2>5, <2>6, <2>7, <2>8 DEF QueueInv
<1>2. ASSUME NEW j \in NativeJobs, NativeCancel(j) PROVE QueueInv'
  <2>1. RunHolds'
    BY <1>2 DEF NativeCancel, QueueInv, RunHolds
  <2>2. FirstAttemptOnly'
    BY <1>2 DEF NativeCancel, QueueInv, FirstAttemptOnly
  <2>3. NotCalledYet'
    BY <1>2 DEF NativeCancel, QueueInv, NotCalledYet, NativeCalled, BeforeQueue, RunHolds,
       NativeTypeOK
  <2>4. LatchedFirst'
    BY <1>2 DEF NativeCancel, QueueInv, LatchedFirst
  <2>5. RejectedUncalled'
    BY <1>2 DEF NativeCancel, QueueInv, RejectedUncalled, NativeCalled, NotCalledYet,
       BeforeQueue, FirstAttemptOnly, FirstSteps, NativeTypeOK
  <2>6. EvidenceSeen'
    BY <1>2 DEF NativeCancel, QueueInv, EvidenceSeen, NativeCalled, NotCalledYet, LatchedFirst,
       BehindLatch, EnqueueIsTraceable, NativeTypeOK
  <2>7. AtMostOneEnqueue'
    BY <1>2 DEF NativeCancel, QueueInv, AtMostOneEnqueue
  <2>8. EnqueueIsTraceable'
    BY <1>2 DEF NativeCancel, QueueInv, EnqueueIsTraceable, NativeCalled, LatchedFirst,
       BehindLatch, RejectedUncalled, EvidenceSeen, RunHolds, NativeTypeOK
  <2> QED BY <2>1, <2>2, <2>3, <2>4, <2>5, <2>6, <2>7, <2>8 DEF QueueInv
<1>3. ASSUME NEW j \in NativeJobs, NativeClaim(j) PROVE QueueInv'
  <2>1. RunHolds'
    BY <1>3, ClaimedRow DEF RunHolds, NativeTypeOK, NativeRow
  <2>2. FirstAttemptOnly'
    BY <1>3 DEF NativeClaim, NoExecution, PriorProgress, QueueInv, FirstAttemptOnly, FirstSteps,
       NativeTypeOK
  <2>3. NotCalledYet'
    <3>1. \A k \in NativeJobs : nJob'[k].attempt = 0 => nJob[k].attempt = 0
      BY <1>3, ClaimedRow DEF NativeTypeOK, NativeRow
    <3>2. nRun'.job = j /\ (nRun'.token = 1 => nJob[j].attempt = 0)
      BY <1>3, ClaimedRow DEF NativeTypeOK, NativeRow
    <3>3. nRun'.job \in NativeJobs /\ \A k \in NativeJobs : NativeCalled(k)' <=> NativeCalled(k)
      BY <1>3, ClaimedRow DEF NativeClaim, NativeCalled
    <3> QED BY <3>1, <3>2, <3>3, ClaimedRow DEF QueueInv, NotCalledYet, NativeCalled
  <2>4. LatchedFirst'
    BY <1>3 DEF NativeClaim, NoExecution, PriorProgress, QueueInv, LatchedFirst, BehindLatch,
       FirstAttemptOnly, FirstSteps, RunHolds, NativeTypeOK
  <2>5. RejectedUncalled'
    BY <1>3 DEF NativeClaim, NoExecution, PriorProgress, QueueInv, RejectedUncalled
  <2>6. EvidenceSeen'
    <3>1. nRun'.latched = FALSE /\ nRun'.seen = nJob[j].progress
      BY <1>3 DEF NativeClaim, NoExecution, PriorProgress
    <3>2. nJob[j].status = "pending" /\ nCalls' = nCalls /\ nQueued' = nQueued
      BY <1>3 DEF NativeClaim
    <3>3. nRun'.token = 1 => ~NativeCalled(j)
      BY <1>3, ClaimedRow DEF QueueInv, NotCalledYet, NativeTypeOK, NativeRow
    <3>4. NativeCalled(j)' = NativeCalled(j)
      BY <3>2 DEF NativeCalled
    <3> QED BY <1>3, <3>1, <3>2, <3>3, <3>4, ClaimedRow DEF QueueInv, EvidenceSeen
  <2>7. AtMostOneEnqueue'
    BY <1>3 DEF NativeClaim, QueueInv, AtMostOneEnqueue
  <2>8. EnqueueIsTraceable'
    BY <1>3 DEF NativeClaim, NoExecution, PriorProgress, QueueInv, EnqueueIsTraceable,
       NativeCalled, LatchedFirst, BehindLatch, RejectedUncalled, EvidenceSeen, RunHolds,
       NativeTypeOK
  <2> QED BY <2>1, <2>2, <2>3, <2>4, <2>5, <2>6, <2>7, <2>8 DEF QueueInv
<1>4. ASSUME NativeTick PROVE QueueInv'
  <2>1. RunHolds'
    BY <1>4 DEF NativeTick, QueueInv, RunHolds
  <2>2. FirstAttemptOnly'
    BY <1>4 DEF NativeTick, QueueInv, FirstAttemptOnly
  <2>3. NotCalledYet'
    BY <1>4 DEF NativeTick, QueueInv, NotCalledYet, NativeCalled, BeforeQueue, RunHolds,
       NativeTypeOK
  <2>4. LatchedFirst'
    BY <1>4 DEF NativeTick, QueueInv, LatchedFirst
  <2>5. RejectedUncalled'
    BY <1>4 DEF NativeTick, QueueInv, RejectedUncalled, NativeCalled, NotCalledYet, BeforeQueue,
       FirstAttemptOnly, FirstSteps, NativeTypeOK
  <2>6. EvidenceSeen'
    BY <1>4 DEF NativeTick, QueueInv, EvidenceSeen, NativeCalled, NotCalledYet, LatchedFirst,
       BehindLatch, EnqueueIsTraceable, NativeTypeOK
  <2>7. AtMostOneEnqueue'
    BY <1>4 DEF NativeTick, QueueInv, AtMostOneEnqueue
  <2>8. EnqueueIsTraceable'
    BY <1>4 DEF NativeTick, QueueInv, EnqueueIsTraceable, NativeCalled, LatchedFirst,
       BehindLatch, RejectedUncalled, EvidenceSeen, RunHolds, NativeTypeOK
  <2> QED BY <2>1, <2>2, <2>3, <2>4, <2>5, <2>6, <2>7, <2>8 DEF QueueInv
<1>5. ASSUME NativeEditProfile PROVE QueueInv'
  <2>1. RunHolds'
    BY <1>5 DEF NativeEditProfile, QueueInv, RunHolds
  <2>2. FirstAttemptOnly'
    BY <1>5 DEF NativeEditProfile, QueueInv, FirstAttemptOnly
  <2>3. NotCalledYet'
    BY <1>5 DEF NativeEditProfile, QueueInv, NotCalledYet, NativeCalled, BeforeQueue, RunHolds,
       NativeTypeOK
  <2>4. LatchedFirst'
    BY <1>5 DEF NativeEditProfile, QueueInv, LatchedFirst
  <2>5. RejectedUncalled'
    BY <1>5 DEF NativeEditProfile, QueueInv, RejectedUncalled, NativeCalled, NotCalledYet,
       BeforeQueue, FirstAttemptOnly, FirstSteps, NativeTypeOK
  <2>6. EvidenceSeen'
    BY <1>5 DEF NativeEditProfile, QueueInv, EvidenceSeen, NativeCalled, NotCalledYet,
       LatchedFirst, BehindLatch, EnqueueIsTraceable, NativeTypeOK
  <2>7. AtMostOneEnqueue'
    BY <1>5 DEF NativeEditProfile, QueueInv, AtMostOneEnqueue
  <2>8. EnqueueIsTraceable'
    BY <1>5 DEF NativeEditProfile, QueueInv, EnqueueIsTraceable, NativeCalled, LatchedFirst,
       BehindLatch, RejectedUncalled, EvidenceSeen, RunHolds, NativeTypeOK
  <2> QED BY <2>1, <2>2, <2>3, <2>4, <2>5, <2>6, <2>7, <2>8 DEF QueueInv
<1>6. ASSUME NativeCrash PROVE QueueInv'
  <2>1. RunHolds'
    BY <1>6 DEF NativeCrash, NoExecution, NoEndpoint, QueueInv, RunHolds
  <2>2. FirstAttemptOnly'
    BY <1>6 DEF NativeCrash, NoExecution, NoEndpoint, QueueInv, FirstAttemptOnly, FirstSteps,
       NativeTypeOK
  <2>3. NotCalledYet'
    BY <1>6 DEF NativeCrash, NoExecution, NoEndpoint, QueueInv, NotCalledYet, NativeCalled,
       BeforeQueue, RunHolds, NativeTypeOK
  <2>4. LatchedFirst'
    BY <1>6 DEF NativeCrash, NoExecution, NoEndpoint, QueueInv, LatchedFirst, BehindLatch,
       FirstAttemptOnly, FirstSteps, RunHolds, NativeTypeOK
  <2>5. RejectedUncalled'
    BY <1>6 DEF NativeCrash, NoExecution, NoEndpoint, QueueInv, RejectedUncalled
  <2>6. EvidenceSeen'
    BY <1>6 DEF NativeCrash, NoExecution, NoEndpoint, QueueInv, EvidenceSeen
  <2>7. AtMostOneEnqueue'
    BY <1>6 DEF NativeCrash, QueueInv, AtMostOneEnqueue
  <2>8. EnqueueIsTraceable'
    BY <1>6 DEF NativeCrash, NoExecution, NoEndpoint, QueueInv, EnqueueIsTraceable,
       NativeCalled, LatchedFirst, BehindLatch, RejectedUncalled, EvidenceSeen, RunHolds,
       NativeTypeOK
  <2> QED BY <2>1, <2>2, <2>3, <2>4, <2>5, <2>6, <2>7, <2>8 DEF QueueInv
<1>7. ASSUME NativeStart PROVE QueueInv'
  <2>1. RunHolds'
    BY <1>7 DEF NativeStart, QueueInv, RunHolds
  <2>2. FirstAttemptOnly'
    BY <1>7 DEF NativeStart, QueueInv, FirstAttemptOnly
  <2>3. NotCalledYet'
    BY <1>7 DEF NativeStart, QueueInv, NotCalledYet, NativeCalled, BeforeQueue, RunHolds,
       NativeTypeOK
  <2>4. LatchedFirst'
    BY <1>7 DEF NativeStart, QueueInv, LatchedFirst
  <2>5. RejectedUncalled'
    BY <1>7 DEF NativeStart, QueueInv, RejectedUncalled, NativeCalled, NotCalledYet,
       BeforeQueue, FirstAttemptOnly, FirstSteps, NativeTypeOK
  <2>6. EvidenceSeen'
    BY <1>7 DEF NativeStart, QueueInv, EvidenceSeen, NativeCalled, NotCalledYet, LatchedFirst,
       BehindLatch, EnqueueIsTraceable, NativeTypeOK
  <2>7. AtMostOneEnqueue'
    BY <1>7 DEF NativeStart, QueueInv, AtMostOneEnqueue
  <2>8. EnqueueIsTraceable'
    BY <1>7 DEF NativeStart, QueueInv, EnqueueIsTraceable, NativeCalled, LatchedFirst,
       BehindLatch, RejectedUncalled, EvidenceSeen, RunHolds, NativeTypeOK
  <2> QED BY <2>1, <2>2, <2>3, <2>4, <2>5, <2>6, <2>7, <2>8 DEF QueueInv
<1>8. ASSUME NativeReject PROVE QueueInv'
  <2>1. RunHolds'
    BY <1>8 DEF NativeReject, QueueInv, RunHolds
  <2>2. FirstAttemptOnly'
    BY <1>8 DEF NativeReject, ValidationResult, HasAttemptEvidence, QueueInv, FirstAttemptOnly,
       FirstSteps, NativeTypeOK
  <2>3. NotCalledYet'
    BY <1>8 DEF NativeReject, ValidationResult, HasAttemptEvidence, QueueInv, NotCalledYet,
       NativeCalled, BeforeQueue, RunHolds, NativeTypeOK
  <2>4. LatchedFirst'
    BY <1>8 DEF NativeReject, ValidationResult, HasAttemptEvidence, QueueInv, LatchedFirst,
       BehindLatch, FirstAttemptOnly, FirstSteps, RunHolds, NativeTypeOK
  <2>5. RejectedUncalled'
    BY <1>8 DEF NativeReject, ValidationResult, HasAttemptEvidence, QueueInv, RejectedUncalled,
       NativeCalled, NotCalledYet, BeforeQueue, FirstAttemptOnly, FirstSteps, NativeTypeOK
  <2>6. EvidenceSeen'
    BY <1>8 DEF NativeReject, OriginalEvidence, ValidationResult, HasAttemptEvidence, QueueInv,
       EvidenceSeen,
       NativeCalled, NotCalledYet, LatchedFirst, BehindLatch, EnqueueIsTraceable, NativeTypeOK
  <2>7. AtMostOneEnqueue'
    BY <1>8 DEF NativeReject, QueueInv, AtMostOneEnqueue
  <2>8. EnqueueIsTraceable'
    BY <1>8 DEF NativeReject, ValidationResult, HasAttemptEvidence, QueueInv,
       EnqueueIsTraceable, NativeCalled, LatchedFirst, BehindLatch, RejectedUncalled,
       EvidenceSeen, RunHolds, NativeTypeOK
  <2> QED BY <2>1, <2>2, <2>3, <2>4, <2>5, <2>6, <2>7, <2>8 DEF QueueInv
<1>9. ASSUME NativeObserve PROVE QueueInv'
  <2>1. RunHolds'
    BY <1>9 DEF NativeObserve, QueueInv, RunHolds
  <2>2. FirstAttemptOnly'
    BY <1>9 DEF NativeObserve, NativeScope, QueueInv, FirstAttemptOnly, FirstSteps, NativeTypeOK
  <2>3. NotCalledYet'
    BY <1>9 DEF NativeObserve, NativeScope, QueueInv, NotCalledYet, NativeCalled, BeforeQueue,
       RunHolds, NativeTypeOK
  <2>4. LatchedFirst'
    BY <1>9 DEF NativeObserve, NativeScope, QueueInv, LatchedFirst, BehindLatch,
       FirstAttemptOnly, FirstSteps, RunHolds, NativeTypeOK
  <2>5. RejectedUncalled'
    BY <1>9 DEF NativeObserve, QueueInv, RejectedUncalled
  <2>6. EvidenceSeen'
    BY <1>9 DEF NativeObserve, OriginalEvidence, NativeScope, QueueInv, EvidenceSeen,
           NativeCalled, NotCalledYet,
       LatchedFirst, BehindLatch, EnqueueIsTraceable, NativeTypeOK
  <2>7. AtMostOneEnqueue'
    BY <1>9 DEF NativeObserve, QueueInv, AtMostOneEnqueue
  <2>8. EnqueueIsTraceable'
    BY <1>9 DEF NativeObserve, NativeScope, QueueInv, EnqueueIsTraceable, NativeCalled,
       LatchedFirst, BehindLatch, RejectedUncalled, EvidenceSeen, RunHolds, NativeTypeOK
  <2> QED BY <2>1, <2>2, <2>3, <2>4, <2>5, <2>6, <2>7, <2>8 DEF QueueInv
<1>10. ASSUME NativeAttempt PROVE QueueInv'
  <2>1. RunHolds'
    BY <1>10, ZenonT(60) DEF NativeAttempt, HasAttemptEvidence, Finish, Step, QueueInv,
         RunHolds, NativeTypeOK, NativeRow, NativeExecution, NativeCall
  <2>2. FirstAttemptOnly'
    BY <1>10, ZenonT(60) DEF NativeAttempt, HasAttemptEvidence, Finish, Step, QueueInv,
         FirstAttemptOnly, FirstSteps, NativeTypeOK, NativeRow, NativeExecution, NativeCall
  <2>3. NotCalledYet'
    BY <1>10, ZenonT(60) DEF NativeAttempt, HasAttemptEvidence, Finish, Step, QueueInv,
         NotCalledYet, NativeCalled, BeforeQueue, RunHolds, NativeTypeOK, NativeRow,
         NativeExecution, NativeCall
  <2>4. LatchedFirst'
    BY <1>10 DEF NativeAttempt, HasAttemptEvidence, Finish, Step, QueueInv, LatchedFirst,
       BehindLatch, FirstAttemptOnly, FirstSteps, RunHolds, NativeTypeOK, NativeRow,
       NativeExecution, NativeCall
  <2>5. RejectedUncalled'
    BY <1>10, ZenonT(60) DEF NativeAttempt, HasAttemptEvidence, Finish, Step, QueueInv,
         RejectedUncalled, NativeCalled, NotCalledYet, BeforeQueue, FirstAttemptOnly,
         FirstSteps, NativeTypeOK, NativeRow, NativeExecution, NativeCall
  <2>6. EvidenceSeen'
    BY <1>10, ZenonT(60) DEF NativeAttempt, HasAttemptEvidence, Finish, Step, QueueInv,
         EvidenceSeen, NativeCalled, NotCalledYet, LatchedFirst, BehindLatch,
         EnqueueIsTraceable, NativeTypeOK, NativeRow, NativeExecution, NativeCall
  <2>7. AtMostOneEnqueue'
    BY <1>10 DEF NativeAttempt, QueueInv, AtMostOneEnqueue
  <2>8. EnqueueIsTraceable'
    BY <1>10 DEF NativeAttempt, HasAttemptEvidence, Finish, Step, QueueInv, EnqueueIsTraceable,
       NativeCalled, LatchedFirst, BehindLatch, RejectedUncalled, EvidenceSeen, RunHolds,
       NativeTypeOK
  <2> QED BY <2>1, <2>2, <2>3, <2>4, <2>5, <2>6, <2>7, <2>8 DEF QueueInv
<1>11. ASSUME NativePreflight PROVE QueueInv'
  <2>1. RunHolds'
    BY <1>11, ZenonT(60) DEF NativePreflight, Finish, Step, QueueInv, RunHolds, NativeTypeOK,
         NativeRow, NativeExecution, NativeCall
  <2>2. FirstAttemptOnly'
    BY <1>11, ZenonT(60) DEF NativePreflight, Finish, Step, QueueInv, FirstAttemptOnly,
         FirstSteps, NativeTypeOK, NativeRow, NativeExecution, NativeCall
  <2>3. NotCalledYet'
    BY <1>11, MoveFacts DEF NativePreflight, SameRun, QueueInv, NotCalledYet, NativeCalled,
       BeforeQueue
  <2>4. LatchedFirst'
    BY <1>11, ZenonT(60) DEF NativePreflight, Finish, Step, QueueInv, LatchedFirst,
         BehindLatch, FirstAttemptOnly, FirstSteps, RunHolds, NativeTypeOK, NativeRow,
         NativeExecution, NativeCall
  <2>5. RejectedUncalled'
    BY <1>11, ZenonT(60) DEF NativePreflight, Finish, Step, QueueInv, RejectedUncalled,
         NativeCalled, NotCalledYet, BeforeQueue, FirstAttemptOnly, FirstSteps, NativeTypeOK,
         NativeRow, NativeExecution, NativeCall
  <2>6. EvidenceSeen'
    BY <1>11, ZenonT(60) DEF NativePreflight, Finish, Step, QueueInv, EvidenceSeen,
         NativeCalled, NotCalledYet, LatchedFirst, BehindLatch, EnqueueIsTraceable,
         NativeTypeOK, NativeRow, NativeExecution, NativeCall
  <2>7. AtMostOneEnqueue'
    BY <1>11 DEF NativePreflight, QueueInv, AtMostOneEnqueue
  <2>8. EnqueueIsTraceable'
    BY <1>11 DEF NativePreflight, Finish, Step, QueueInv, EnqueueIsTraceable, NativeCalled,
       LatchedFirst, BehindLatch, RejectedUncalled, EvidenceSeen, RunHolds, NativeTypeOK
  <2> QED BY <2>1, <2>2, <2>3, <2>4, <2>5, <2>6, <2>7, <2>8 DEF QueueInv
<1>12. ASSUME NativeOpenEndpoint PROVE QueueInv'
  <2>1. RunHolds'
    BY <1>12, ZenonT(60) DEF NativeOpenEndpoint, Finish, Step, NoEndpoint, QueueInv, RunHolds,
         NativeTypeOK, NativeRow, NativeExecution, NativeCall
  <2>2. FirstAttemptOnly'
    BY <1>12 DEF NativeOpenEndpoint, Finish, Step, NoEndpoint, QueueInv, FirstAttemptOnly,
       FirstSteps, NativeTypeOK, NativeRow, NativeExecution, NativeCall
  <2>3. NotCalledYet'
    BY <1>12, ZenonT(60) DEF NativeOpenEndpoint, Finish, Step, NoEndpoint, QueueInv,
         NotCalledYet, NativeCalled, BeforeQueue, RunHolds, NativeTypeOK, NativeRow,
         NativeExecution, NativeCall
  <2>4. LatchedFirst'
    BY <1>12, ZenonT(60) DEF NativeOpenEndpoint, Finish, Step, NoEndpoint, QueueInv,
         LatchedFirst, BehindLatch, FirstAttemptOnly, FirstSteps, RunHolds, NativeTypeOK,
         NativeRow, NativeExecution, NativeCall
  <2>5. RejectedUncalled'
    BY <1>12 DEF NativeOpenEndpoint, Finish, Step, NoEndpoint, QueueInv, RejectedUncalled,
       NativeCalled, NotCalledYet, BeforeQueue, FirstAttemptOnly, FirstSteps, NativeTypeOK,
       NativeRow, NativeExecution, NativeCall
  <2>6. EvidenceSeen'
    BY <1>12, ZenonT(60) DEF NativeOpenEndpoint, Finish, Step, NoEndpoint, QueueInv,
         EvidenceSeen, NativeCalled, NotCalledYet, LatchedFirst, BehindLatch,
         EnqueueIsTraceable, NativeTypeOK, NativeRow, NativeExecution, NativeCall
  <2>7. AtMostOneEnqueue'
    BY <1>12 DEF NativeOpenEndpoint, QueueInv, AtMostOneEnqueue
  <2>8. EnqueueIsTraceable'
    BY <1>12 DEF NativeOpenEndpoint, Finish, Step, NoEndpoint, QueueInv, EnqueueIsTraceable,
       NativeCalled, LatchedFirst, BehindLatch, RejectedUncalled, EvidenceSeen, RunHolds,
       NativeTypeOK
  <2> QED BY <2>1, <2>2, <2>3, <2>4, <2>5, <2>6, <2>7, <2>8 DEF QueueInv
<1>13. ASSUME NativeRecordProgress PROVE QueueInv'
  <2>1. RunHolds'
    BY <1>13 DEF NativeRecordProgress, QueueInv, RunHolds
  <2>2. FirstAttemptOnly'
    BY <1>13 DEF NativeRecordProgress, Latched, NativeFenced, NativeLive, QueueInv,
       FirstAttemptOnly, FirstSteps, NativeTypeOK
  <2>3. NotCalledYet'
    BY <1>13 DEF NativeRecordProgress, Latched, NativeFenced, NativeLive, QueueInv,
       NotCalledYet, NativeCalled, BeforeQueue, RunHolds, NativeTypeOK
  <2>4. LatchedFirst'
    BY <1>13 DEF NativeRecordProgress, Latched, NativeFenced, NativeLive, QueueInv,
       LatchedFirst, BehindLatch, FirstAttemptOnly, FirstSteps, RunHolds, NativeTypeOK,
       NativeRow, NativeExecution, NativeCall
  <2>5. RejectedUncalled'
    BY <1>13 DEF NativeRecordProgress, QueueInv, RejectedUncalled
  <2>6. EvidenceSeen'
    <3>1. nRun.token = 1 /\ nRun.seen = 0 /\ nRun.job \in NativeJobs
      BY <1>13 DEF NativeRecordProgress, QueueInv, FirstAttemptOnly, FirstSteps, NativeTypeOK,
         NativeExecution
    <3>2. /\ nRun'.token = 1 /\ nRun'.seen = 0 /\ nRun'.latched /\ nRun'.job = nRun.job
          /\ nRun'.result = "timed_out"
      BY <1>13, <3>1 DEF NativeRecordProgress, NativeTypeOK, NativeExecution
    <3>3. \A j \in NativeJobs :
            /\ nJob'[j].progress \in {nJob[j].progress, 1}
            /\ nJob'[j].status = nJob[j].status /\ nJob'[j].evidence = nJob[j].evidence
      BY <1>13, <3>1 DEF NativeRecordProgress, NativeTypeOK, NativeRow
    <3> QED BY <3>1, <3>2, <3>3 DEF QueueInv, EvidenceSeen
  <2>7. AtMostOneEnqueue'
    BY <1>13 DEF NativeRecordProgress, QueueInv, AtMostOneEnqueue
  <2>8. EnqueueIsTraceable'
    <3>1. nRun.job \in NativeJobs /\ ~NativeCalled(nRun.job)
      BY <1>13 DEF NativeRecordProgress, QueueInv, FirstAttemptOnly, NotCalledYet, FirstSteps,
         BeforeQueue, NativeTypeOK, NativeExecution
    <3>2. nCalls' = nCalls /\ nQueued' = nQueued
      BY <1>13 DEF NativeRecordProgress
    <3>3. \A j \in NativeJobs : j # nRun.job => nJob'[j] = nJob[j]
      BY <1>13 DEF NativeRecordProgress, NativeTypeOK
    <3> QED BY <3>1, <3>2, <3>3 DEF QueueInv, EnqueueIsTraceable, NativeCalled
  <2> QED BY <2>1, <2>2, <2>3, <2>4, <2>5, <2>6, <2>7, <2>8 DEF QueueInv
<1>14. ASSUME NativeRegister PROVE QueueInv'
  <2>1. RunHolds'
    BY <1>14 DEF NativeRegister, Finish, Step, NativeScope, QueueInv, RunHolds, NativeTypeOK,
       NativeRow, NativeExecution, NativeCall
  <2>2. FirstAttemptOnly'
    BY <1>14 DEF NativeRegister, Finish, Step, NativeScope, QueueInv, FirstAttemptOnly,
       FirstSteps, NativeTypeOK, NativeRow, NativeExecution, NativeCall
  <2>3. NotCalledYet'
    BY <1>14, ZenonT(60) DEF NativeRegister, Finish, Step, NativeScope, QueueInv,
         NotCalledYet, NativeCalled, BeforeQueue, RunHolds, NativeTypeOK, NativeRow,
         NativeExecution, NativeCall
  <2>4. LatchedFirst'
    BY <1>14 DEF NativeRegister, Finish, Step, NativeScope, QueueInv, LatchedFirst, BehindLatch,
       FirstAttemptOnly, FirstSteps, RunHolds, NativeTypeOK, NativeRow, NativeExecution,
       NativeCall
  <2>5. RejectedUncalled'
    BY <1>14 DEF NativeRegister, Finish, Step, NativeScope, QueueInv, RejectedUncalled,
       NativeCalled, NotCalledYet, BeforeQueue, FirstAttemptOnly, FirstSteps, NativeTypeOK,
       NativeRow, NativeExecution, NativeCall
  <2>6. EvidenceSeen'
    BY <1>14 DEF NativeRegister, Finish, Step, NativeScope, QueueInv, EvidenceSeen,
       NativeCalled, NotCalledYet, LatchedFirst, BehindLatch, EnqueueIsTraceable, NativeTypeOK,
       NativeRow, NativeExecution, NativeCall
  <2>7. AtMostOneEnqueue'
    BY <1>14 DEF NativeRegister, QueueInv, AtMostOneEnqueue
  <2>8. EnqueueIsTraceable'
    BY <1>14 DEF NativeRegister, Finish, Step, NativeScope, QueueInv, EnqueueIsTraceable,
       NativeCalled, LatchedFirst, BehindLatch, RejectedUncalled, EvidenceSeen, RunHolds,
       NativeTypeOK
  <2> QED BY <2>1, <2>2, <2>3, <2>4, <2>5, <2>6, <2>7, <2>8 DEF QueueInv
<1>15. ASSUME NativeRecheck PROVE QueueInv'
  <2>1. RunHolds'
    BY <1>15 DEF NativeRecheck, QueueInv, RunHolds
  <2>2. FirstAttemptOnly'
    BY <1>15 DEF NativeRecheck, QueueInv, FirstAttemptOnly, FirstSteps, NativeTypeOK
  <2>3. NotCalledYet'
    BY <1>15 DEF NativeRecheck, QueueInv, NotCalledYet, NativeCalled, BeforeQueue, RunHolds,
       NativeTypeOK
  <2>4. LatchedFirst'
    BY <1>15 DEF NativeRecheck, QueueInv, LatchedFirst, BehindLatch, FirstAttemptOnly,
       FirstSteps, RunHolds, NativeTypeOK
  <2>5. RejectedUncalled'
    BY <1>15 DEF NativeRecheck, QueueInv, RejectedUncalled
  <2>6. EvidenceSeen'
    BY <1>15 DEF NativeRecheck, QueueInv, EvidenceSeen, NativeCalled, NotCalledYet,
       LatchedFirst, BehindLatch, EnqueueIsTraceable, NativeTypeOK
  <2>7. AtMostOneEnqueue'
    BY <1>15 DEF NativeRecheck, QueueInv, AtMostOneEnqueue
  <2>8. EnqueueIsTraceable'
    BY <1>15 DEF NativeRecheck, QueueInv, EnqueueIsTraceable, NativeCalled, LatchedFirst,
       BehindLatch, RejectedUncalled, EvidenceSeen, RunHolds, NativeTypeOK
  <2> QED BY <2>1, <2>2, <2>3, <2>4, <2>5, <2>6, <2>7, <2>8 DEF QueueInv
<1>16. ASSUME NativeReconcile PROVE QueueInv'
  <2>1. RunHolds'
    BY <1>16 DEF NativeReconcile, QueueInv, RunHolds
  <2>2. FirstAttemptOnly'
    BY <1>16 DEF NativeReconcile, QueueInv, FirstAttemptOnly
  <2>3. NotCalledYet'
    BY <1>16 DEF NativeReconcile, NativeFenced, NativeLive, QueueInv, NotCalledYet,
       NativeCalled, BeforeQueue, RunHolds, NativeTypeOK
  <2>4. LatchedFirst'
    BY <1>16 DEF NativeReconcile, QueueInv, LatchedFirst
  <2>5. RejectedUncalled'
    BY <1>16 DEF NativeReconcile, QueueInv, RejectedUncalled
  <2>6. EvidenceSeen'
    BY <1>16 DEF NativeReconcile, NativeFenced, NativeLive, QueueInv, EvidenceSeen,
       NativeCalled, NotCalledYet, LatchedFirst, BehindLatch, EnqueueIsTraceable, NativeTypeOK
  <2>7. AtMostOneEnqueue'
    BY <1>16 DEF NativeReconcile, QueueInv, AtMostOneEnqueue
  <2>8. EnqueueIsTraceable'
    BY <1>16 DEF NativeReconcile, NativeFenced, NativeLive, QueueInv, EnqueueIsTraceable,
       NativeCalled, LatchedFirst, BehindLatch, RejectedUncalled, EvidenceSeen, RunHolds,
       NativeTypeOK
  <2> QED BY <2>1, <2>2, <2>3, <2>4, <2>5, <2>6, <2>7, <2>8 DEF QueueInv
<1>17. ASSUME NativeQueueCall PROVE QueueInv'
  <2>1. RunHolds'
    BY <1>17 DEF NativeQueueCall, StillAuthorised, Step, NativeScope, QueueInv, RunHolds,
       NativeTypeOK, NativeRow, NativeExecution, NativeCall
  <2>2. FirstAttemptOnly'
    BY <1>17 DEF NativeQueueCall, StillAuthorised, Step, NativeScope, QueueInv,
       FirstAttemptOnly, FirstSteps, NativeTypeOK, NativeRow, NativeExecution, NativeCall
  <2>3. NotCalledYet'
    <3>1. nRun'.pc \notin BeforeQueue
      BY <1>17, MoveFacts DEF BeforeQueue
    <3>2. nJob[nRun.job].attempt # 0
      BY <1>17 DEF NativeQueueCall, QueueInv, RunHolds
    <3>3. \A c \in nCalls' \ nCalls : c.job = nRun.job
      BY <1>17 DEF NativeQueueCall, NativeScope
    <3>4. nJob' = nJob /\ nQueued' = nQueued
      BY <1>17 DEF NativeQueueCall
    <3>5. \A j \in NativeJobs : nJob[j].attempt = 0 => ~NativeCalled(j)
      BY DEF QueueInv, NotCalledYet
    <3> QED BY <3>1, <3>2, <3>3, <3>4, <3>5 DEF NotCalledYet, NativeCalled
  <2>4. LatchedFirst'
    BY <1>17 DEF NativeQueueCall, StillAuthorised, Step, NativeScope, QueueInv, LatchedFirst,
       BehindLatch, FirstAttemptOnly, FirstSteps, RunHolds, NativeTypeOK, NativeRow,
       NativeExecution, NativeCall
  <2>5. RejectedUncalled'
    BY <1>17 DEF NativeQueueCall, StillAuthorised, Step, NativeScope, QueueInv,
       RejectedUncalled, NativeCalled, NotCalledYet, BeforeQueue, FirstAttemptOnly, FirstSteps,
       NativeTypeOK, NativeRow, NativeExecution, NativeCall
  <2>6. EvidenceSeen'
    BY <1>17 DEF NativeQueueCall, StillAuthorised, Step, NativeScope, QueueInv, EvidenceSeen,
       NativeCalled, NotCalledYet, LatchedFirst, BehindLatch, EnqueueIsTraceable, NativeTypeOK,
       NativeRow, NativeExecution, NativeCall
  <2>7. AtMostOneEnqueue'
    BY <1>17 DEF NativeQueueCall, StillAuthorised, Step, NativeScope, QueueInv,
       AtMostOneEnqueue, NativeCalled, NotCalledYet, BeforeQueue, FirstAttemptOnly, FirstSteps,
       NativeTypeOK, NativeRow, NativeExecution, NativeCall
  <2>8. EnqueueIsTraceable'
    BY <1>17 DEF NativeQueueCall, StillAuthorised, Step, NativeScope, QueueInv,
       EnqueueIsTraceable, NativeCalled, LatchedFirst, BehindLatch, RejectedUncalled,
       EvidenceSeen, RunHolds, NativeTypeOK
  <2> QED BY <2>1, <2>2, <2>3, <2>4, <2>5, <2>6, <2>7, <2>8 DEF QueueInv
<1>18. ASSUME NativeAwaitAck PROVE QueueInv'
  <2>1. RunHolds'
    BY <1>18, ZenonT(60) DEF NativeAwaitAck, Completed, Finish, QueueInv, RunHolds,
         NativeTypeOK, NativeRow, NativeExecution, NativeCall
  <2>2. FirstAttemptOnly'
    BY <1>18 DEF NativeAwaitAck, Completed, Finish, QueueInv, FirstAttemptOnly, FirstSteps,
       NativeTypeOK, NativeRow, NativeExecution, NativeCall
  <2>3. NotCalledYet'
    BY <1>18, ZenonT(60) DEF NativeAwaitAck, Completed, Finish, QueueInv, NotCalledYet,
         NativeCalled, BeforeQueue, RunHolds, NativeTypeOK, NativeRow, NativeExecution,
         NativeCall
  <2>4. LatchedFirst'
    BY <1>18 DEF NativeAwaitAck, Completed, Finish, QueueInv, LatchedFirst, BehindLatch,
       FirstAttemptOnly, FirstSteps, RunHolds, NativeTypeOK, NativeRow, NativeExecution,
       NativeCall
  <2>5. RejectedUncalled'
    BY <1>18 DEF NativeAwaitAck, Completed, Finish, QueueInv, RejectedUncalled, NativeCalled,
       NotCalledYet, BeforeQueue, FirstAttemptOnly, FirstSteps, NativeTypeOK, NativeRow,
       NativeExecution, NativeCall
  <2>6. EvidenceSeen'
    BY <1>18 DEF NativeAwaitAck, Completed, Finish, QueueInv, EvidenceSeen, NativeCalled,
       NotCalledYet, LatchedFirst, BehindLatch, EnqueueIsTraceable, NativeTypeOK, NativeRow,
       NativeExecution, NativeCall
  <2>7. AtMostOneEnqueue'
    BY <1>18 DEF NativeAwaitAck, QueueInv, AtMostOneEnqueue
  <2>8. EnqueueIsTraceable'
    BY <1>18 DEF NativeAwaitAck, Completed, Finish, QueueInv, EnqueueIsTraceable, NativeCalled,
       LatchedFirst, BehindLatch, RejectedUncalled, EvidenceSeen, RunHolds, NativeTypeOK
  <2> QED BY <2>1, <2>2, <2>3, <2>4, <2>5, <2>6, <2>7, <2>8 DEF QueueInv
<1>19. ASSUME NativeClose PROVE QueueInv'
  <2>1. RunHolds'
    BY <1>19 DEF NativeClose, CloseEverything, Step, NativeScope, QueueInv, RunHolds
  <2>2. FirstAttemptOnly'
    BY <1>19 DEF NativeClose, CloseEverything, Step, NativeScope, QueueInv, FirstAttemptOnly,
       FirstSteps, NativeTypeOK
  <2>3. NotCalledYet'
    BY <1>19 DEF NativeClose, CloseEverything, Step, NativeScope, QueueInv, NotCalledYet,
       NativeCalled, BeforeQueue, RunHolds, NativeTypeOK
  <2>4. LatchedFirst'
    BY <1>19 DEF NativeClose, CloseEverything, Step, NativeScope, QueueInv, LatchedFirst,
       BehindLatch, FirstAttemptOnly, FirstSteps, RunHolds, NativeTypeOK
  <2>5. RejectedUncalled'
    BY <1>19 DEF NativeClose, CloseEverything, Step, NativeScope, QueueInv, RejectedUncalled,
       NativeCalled, NotCalledYet, BeforeQueue, FirstAttemptOnly, FirstSteps, NativeTypeOK
  <2>6. EvidenceSeen'
    BY <1>19 DEF NativeClose, CloseEverything, Step, NativeScope, QueueInv, EvidenceSeen,
       NativeCalled, NotCalledYet, LatchedFirst, BehindLatch, EnqueueIsTraceable, NativeTypeOK
  <2>7. AtMostOneEnqueue'
    BY <1>19 DEF NativeClose, QueueInv, AtMostOneEnqueue
  <2>8. EnqueueIsTraceable'
    BY <1>19 DEF NativeClose, CloseEverything, Step, NativeScope, QueueInv, EnqueueIsTraceable,
       NativeCalled, LatchedFirst, BehindLatch, RejectedUncalled, EvidenceSeen, RunHolds,
       NativeTypeOK
  <2> QED BY <2>1, <2>2, <2>3, <2>4, <2>5, <2>6, <2>7, <2>8 DEF QueueInv
<1>20. ASSUME NativeReport PROVE QueueInv'
  <2>1. RunHolds'
    BY <1>20 DEF NativeReport, NativeFenced, NativeLive, ReportedEvidence, NoExecution,
       QueueInv, RunHolds
  <2>2. FirstAttemptOnly'
    BY <1>20 DEF NativeReport, NativeFenced, NativeLive, ReportedEvidence, NoExecution,
       QueueInv, FirstAttemptOnly, FirstSteps, NativeTypeOK
  <2>3. NotCalledYet'
    BY <1>20, ReportedRow DEF NativeReport, QueueInv, NotCalledYet, NativeCalled, BeforeQueue,
       NativeTypeOK, NativeExecution
  <2>4. LatchedFirst'
    BY <1>20 DEF NativeReport, NativeFenced, NativeLive, ReportedEvidence, NoExecution,
       QueueInv, LatchedFirst, BehindLatch, FirstAttemptOnly, FirstSteps, RunHolds, NativeTypeOK
  <2>5. RejectedUncalled'
    BY <1>20 DEF NativeReport, NativeFenced, NativeLive, ReportedEvidence, NoExecution,
       QueueInv, RejectedUncalled
  <2>6. EvidenceSeen'
    <3>1. ReportedEvidence \in {0, 1}
      BY <1>20 DEF NativeReport, ReportedEvidence, QueueInv, EvidenceSeen, NativeTypeOK,
         NativeExecution
    <3> QED BY <1>20, <3>1, ReportedRow DEF QueueInv, EvidenceSeen, NativeTypeOK,
               NativeExecution
  <2>7. AtMostOneEnqueue'
    BY <1>20 DEF NativeReport, QueueInv, AtMostOneEnqueue
  <2>8. EnqueueIsTraceable'
    <3>1. nCalls' = nCalls /\ nQueued' = nQueued
      BY <1>20 DEF NativeReport
    <3>2. CASE nJob' = nJob
      BY <3>1, <3>2 DEF QueueInv, EnqueueIsTraceable, NativeCalled
    <3>3. CASE nJob' = [nJob EXCEPT ![nRun.job] = [@ EXCEPT !.status = nRun.result,
                                      !.evidence = ReportedEvidence]]
      <4>1. nRun.job \in NativeJobs /\ nJob[nRun.job] \in NativeRow /\ nRun.pc = "report"
        BY <1>20 DEF NativeTypeOK, NativeExecution, NativeReport
      <4>2. \A j \in NativeJobs : j # nRun.job => nJob'[j] = nJob[j]
        BY <3>3 DEF NativeTypeOK
      <4>3. nJob' = [nJob EXCEPT ![nRun.job] =
                       [nJob[nRun.job] EXCEPT !.status = nRun.result, !.evidence = ReportedEvidence]]
        BY <3>3, <4>1 DEF NativeTypeOK, NativeRow
      <4>4. /\ nJob'[nRun.job].status = nRun.result /\ nJob'[nRun.job].evidence = ReportedEvidence
            /\ nJob'[nRun.job].progress = nJob[nRun.job].progress
            /\ nJob'[nRun.job].attempt = nJob[nRun.job].attempt
        BY <4>1, <4>3 DEF NativeTypeOK, NativeRow
      <4>5. NativeCalled(nRun.job) =>
              /\ nRun.result # "failed" /\ nJob[nRun.job].progress = 1
              /\ ReportedEvidence \in {0, 1}
              /\ nRun.result = "done" \/ nJob[nRun.job].attempt = 1 => ReportedEvidence = 1
        BY <4>1 DEF QueueInv, RunHolds, RejectedUncalled, EvidenceSeen, ReportedEvidence,
           EnqueueIsTraceable
      <4> QED BY <3>1, <4>1, <4>2, <4>4, <4>5 DEF QueueInv, EnqueueIsTraceable, NativeCalled
    <3> QED BY <1>20, <3>2, <3>3 DEF NativeReport
  <2> QED BY <2>1, <2>2, <2>3, <2>4, <2>5, <2>6, <2>7, <2>8 DEF QueueInv
<1>21. ASSUME NativeRenew PROVE QueueInv'
  <2>1. RunHolds'
    BY <1>21 DEF NativeRenew, NativeFenced, NativeLive, QueueInv, RunHolds, NativeTypeOK,
       NativeRow, NativeExecution, NativeCall
  <2>2. FirstAttemptOnly'
    BY <1>21 DEF NativeRenew, NativeFenced, NativeLive, QueueInv, FirstAttemptOnly, FirstSteps,
       NativeTypeOK, NativeRow, NativeExecution, NativeCall
  <2>3. NotCalledYet'
    BY <1>21 DEF NativeRenew, NativeFenced, NativeLive, QueueInv, NotCalledYet, NativeCalled,
       BeforeQueue, RunHolds, NativeTypeOK, NativeRow, NativeExecution, NativeCall
  <2>4. LatchedFirst'
    BY <1>21 DEF NativeRenew, NativeFenced, NativeLive, QueueInv, LatchedFirst, BehindLatch,
       FirstAttemptOnly, FirstSteps, RunHolds, NativeTypeOK, NativeRow, NativeExecution,
       NativeCall
  <2>5. RejectedUncalled'
    BY <1>21 DEF NativeRenew, NativeFenced, NativeLive, QueueInv, RejectedUncalled,
       NativeCalled, NotCalledYet, BeforeQueue, FirstAttemptOnly, FirstSteps, NativeTypeOK,
       NativeRow, NativeExecution, NativeCall
  <2>6. EvidenceSeen'
    BY <1>21 DEF NativeRenew, NativeFenced, NativeLive, QueueInv, EvidenceSeen, NativeCalled,
       NotCalledYet, LatchedFirst, BehindLatch, EnqueueIsTraceable, NativeTypeOK, NativeRow,
       NativeExecution, NativeCall
  <2>7. AtMostOneEnqueue'
    BY <1>21 DEF NativeRenew, QueueInv, AtMostOneEnqueue
  <2>8. EnqueueIsTraceable'
    BY <1>21 DEF NativeRenew, NativeFenced, NativeLive, QueueInv, EnqueueIsTraceable,
       NativeCalled, LatchedFirst, BehindLatch, RejectedUncalled, EvidenceSeen, RunHolds,
       NativeTypeOK, NativeRow, NativeExecution, NativeCall
  <2> QED BY <2>1, <2>2, <2>3, <2>4, <2>5, <2>6, <2>7, <2>8 DEF QueueInv
<1>22. ASSUME NativeAbort PROVE QueueInv'
  <2>1. RunHolds'
    BY <1>22 DEF NativeAbort, CloseEverything, NativeScope, NoExecution, QueueInv, RunHolds
  <2>2. FirstAttemptOnly'
    BY <1>22 DEF NativeAbort, CloseEverything, NativeScope, NoExecution, QueueInv,
       FirstAttemptOnly, FirstSteps, NativeTypeOK
  <2>3. NotCalledYet'
    BY <1>22 DEF NativeAbort, CloseEverything, NativeScope, NoExecution, QueueInv, NotCalledYet,
       NativeCalled, BeforeQueue, RunHolds, NativeTypeOK
  <2>4. LatchedFirst'
    BY <1>22 DEF NativeAbort, CloseEverything, NativeScope, NoExecution, QueueInv, LatchedFirst,
       BehindLatch, FirstAttemptOnly, FirstSteps, RunHolds, NativeTypeOK
  <2>5. RejectedUncalled'
    BY <1>22 DEF NativeAbort, CloseEverything, NativeScope, NoExecution, QueueInv,
       RejectedUncalled
  <2>6. EvidenceSeen'
    BY <1>22 DEF NativeAbort, CloseEverything, NativeScope, NoExecution, QueueInv, EvidenceSeen
  <2>7. AtMostOneEnqueue'
    BY <1>22 DEF NativeAbort, QueueInv, AtMostOneEnqueue
  <2>8. EnqueueIsTraceable'
    BY <1>22 DEF NativeAbort, CloseEverything, NativeScope, NoExecution, QueueInv,
       EnqueueIsTraceable, NativeCalled, LatchedFirst, BehindLatch, RejectedUncalled,
       EvidenceSeen, RunHolds, NativeTypeOK
  <2> QED BY <2>1, <2>2, <2>3, <2>4, <2>5, <2>6, <2>7, <2>8 DEF QueueInv
<1>23. ASSUME NEW c \in nCalls, NativeEnqueue(c) PROVE QueueInv'
  <2>1. RunHolds'
    BY <1>23 DEF NativeEnqueue, QueueInv, RunHolds
  <2>2. FirstAttemptOnly'
    BY <1>23 DEF NativeEnqueue, QueueInv, FirstAttemptOnly
  <2>3. NotCalledYet'
    BY <1>23 DEF NativeEnqueue, QueueInv, NotCalledYet, NativeCalled, BeforeQueue, RunHolds,
       NativeTypeOK, NativeRow, NativeExecution, NativeCall
  <2>4. LatchedFirst'
    BY <1>23 DEF NativeEnqueue, QueueInv, LatchedFirst
  <2>5. RejectedUncalled'
    BY <1>23 DEF NativeEnqueue, QueueInv, RejectedUncalled, NativeCalled, NotCalledYet,
       BeforeQueue, FirstAttemptOnly, FirstSteps, NativeTypeOK, NativeRow, NativeExecution,
       NativeCall
  <2>6. EvidenceSeen'
    BY <1>23 DEF NativeEnqueue, QueueInv, EvidenceSeen, NativeCalled, NotCalledYet,
       LatchedFirst, BehindLatch, EnqueueIsTraceable, NativeTypeOK, NativeRow, NativeExecution,
       NativeCall
  <2>7. AtMostOneEnqueue'
    BY <1>23 DEF NativeEnqueue, QueueInv, AtMostOneEnqueue, NativeCalled, NotCalledYet,
       BeforeQueue, FirstAttemptOnly, FirstSteps, NativeTypeOK, NativeRow, NativeExecution,
       NativeCall
  <2>8. EnqueueIsTraceable'
    BY <1>23 DEF NativeEnqueue, QueueInv, EnqueueIsTraceable, NativeCalled, LatchedFirst,
       BehindLatch, RejectedUncalled, EvidenceSeen, RunHolds, NativeTypeOK
  <2> QED BY <2>1, <2>2, <2>3, <2>4, <2>5, <2>6, <2>7, <2>8 DEF QueueInv
<1>24. ASSUME NativeHostRestart PROVE QueueInv'
  <2>1. RunHolds'
    BY <1>24 DEF NativeHostRestart, QueueInv, RunHolds
  <2>2. FirstAttemptOnly'
    BY <1>24 DEF NativeHostRestart, QueueInv, FirstAttemptOnly
  <2>3. NotCalledYet'
    BY <1>24 DEF NativeHostRestart, QueueInv, NotCalledYet, NativeCalled, BeforeQueue, RunHolds,
       NativeTypeOK
  <2>4. LatchedFirst'
    BY <1>24 DEF NativeHostRestart, QueueInv, LatchedFirst
  <2>5. RejectedUncalled'
    BY <1>24 DEF NativeHostRestart, QueueInv, RejectedUncalled, NativeCalled, NotCalledYet,
       BeforeQueue, FirstAttemptOnly, FirstSteps, NativeTypeOK
  <2>6. EvidenceSeen'
    BY <1>24 DEF NativeHostRestart, QueueInv, EvidenceSeen, NativeCalled, NotCalledYet,
       LatchedFirst, BehindLatch, EnqueueIsTraceable, NativeTypeOK
  <2>7. AtMostOneEnqueue'
    BY <1>24 DEF NativeHostRestart, QueueInv, AtMostOneEnqueue
  <2>8. EnqueueIsTraceable'
    BY <1>24 DEF NativeHostRestart, QueueInv, EnqueueIsTraceable, NativeCalled, LatchedFirst,
       BehindLatch, RejectedUncalled, EvidenceSeen, RunHolds, NativeTypeOK
  <2> QED BY <2>1, <2>2, <2>3, <2>4, <2>5, <2>6, <2>7, <2>8 DEF QueueInv
<1>25. ASSUME NEW t \in ReplyTexts, NativeReplyAsk(t) PROVE QueueInv'
  <2>1. RunHolds'
    BY <1>25 DEF NativeReplyAsk, QueueInv, RunHolds
  <2>2. FirstAttemptOnly'
    BY <1>25 DEF NativeReplyAsk, QueueInv, FirstAttemptOnly
  <2>3. NotCalledYet'
    BY <1>25 DEF NativeReplyAsk, TextFits, QueueInv, NotCalledYet, NativeCalled, BeforeQueue,
       RunHolds, NativeTypeOK
  <2>4. LatchedFirst'
    BY <1>25 DEF NativeReplyAsk, QueueInv, LatchedFirst
  <2>5. RejectedUncalled'
    BY <1>25 DEF NativeReplyAsk, TextFits, QueueInv, RejectedUncalled, NativeCalled,
       NotCalledYet, BeforeQueue, FirstAttemptOnly, FirstSteps, NativeTypeOK
  <2>6. EvidenceSeen'
    BY <1>25 DEF NativeReplyAsk, TextFits, QueueInv, EvidenceSeen, NativeCalled, NotCalledYet,
       LatchedFirst, BehindLatch, EnqueueIsTraceable, NativeTypeOK
  <2>7. AtMostOneEnqueue'
    BY <1>25 DEF NativeReplyAsk, QueueInv, AtMostOneEnqueue
  <2>8. EnqueueIsTraceable'
    BY <1>25 DEF NativeReplyAsk, TextFits, QueueInv, EnqueueIsTraceable, NativeCalled,
       LatchedFirst, BehindLatch, RejectedUncalled, EvidenceSeen, RunHolds, NativeTypeOK
  <2> QED BY <2>1, <2>2, <2>3, <2>4, <2>5, <2>6, <2>7, <2>8 DEF QueueInv
<1>26. ASSUME NEW s \in nSends, NativeReplySend(s) PROVE QueueInv'
  <2>1. RunHolds'
    BY <1>26 DEF NativeReplySend, QueueInv, RunHolds
  <2>2. FirstAttemptOnly'
    BY <1>26 DEF NativeReplySend, QueueInv, FirstAttemptOnly
  <2>3. NotCalledYet'
    BY <1>26 DEF NativeReplySend, QueueInv, NotCalledYet, NativeCalled, BeforeQueue, RunHolds,
       NativeTypeOK
  <2>4. LatchedFirst'
    BY <1>26 DEF NativeReplySend, QueueInv, LatchedFirst
  <2>5. RejectedUncalled'
    BY <1>26 DEF NativeReplySend, QueueInv, RejectedUncalled, NativeCalled, NotCalledYet,
       BeforeQueue, FirstAttemptOnly, FirstSteps, NativeTypeOK
  <2>6. EvidenceSeen'
    BY <1>26 DEF NativeReplySend, QueueInv, EvidenceSeen, NativeCalled, NotCalledYet,
       LatchedFirst, BehindLatch, EnqueueIsTraceable, NativeTypeOK
  <2>7. AtMostOneEnqueue'
    BY <1>26 DEF NativeReplySend, QueueInv, AtMostOneEnqueue
  <2>8. EnqueueIsTraceable'
    BY <1>26 DEF NativeReplySend, QueueInv, EnqueueIsTraceable, NativeCalled, LatchedFirst,
       BehindLatch, RejectedUncalled, EvidenceSeen, RunHolds, NativeTypeOK
  <2> QED BY <2>1, <2>2, <2>3, <2>4, <2>5, <2>6, <2>7, <2>8 DEF QueueInv
<1>27. ASSUME NEW s \in nSends, NativeReplySettle(s) PROVE QueueInv'
  <2>1. RunHolds'
    BY <1>27 DEF NativeReplySettle, QueueInv, RunHolds
  <2>2. FirstAttemptOnly'
    BY <1>27 DEF NativeReplySettle, QueueInv, FirstAttemptOnly
  <2>3. NotCalledYet'
    BY <1>27 DEF NativeReplySettle, Receipt, QueueInv, NotCalledYet, NativeCalled, BeforeQueue,
       RunHolds, NativeTypeOK
  <2>4. LatchedFirst'
    BY <1>27 DEF NativeReplySettle, QueueInv, LatchedFirst
  <2>5. RejectedUncalled'
    BY <1>27 DEF NativeReplySettle, Receipt, QueueInv, RejectedUncalled, NativeCalled,
       NotCalledYet, BeforeQueue, FirstAttemptOnly, FirstSteps, NativeTypeOK
  <2>6. EvidenceSeen'
    BY <1>27 DEF NativeReplySettle, Receipt, QueueInv, EvidenceSeen, NativeCalled, NotCalledYet,
       LatchedFirst, BehindLatch, EnqueueIsTraceable, NativeTypeOK
  <2>7. AtMostOneEnqueue'
    BY <1>27 DEF NativeReplySettle, QueueInv, AtMostOneEnqueue
  <2>8. EnqueueIsTraceable'
    BY <1>27 DEF NativeReplySettle, Receipt, QueueInv, EnqueueIsTraceable, NativeCalled,
       LatchedFirst, BehindLatch, RejectedUncalled, EvidenceSeen, RunHolds, NativeTypeOK
  <2> QED BY <2>1, <2>2, <2>3, <2>4, <2>5, <2>6, <2>7, <2>8 DEF QueueInv
<1>28. ASSUME UNCHANGED nativeVars PROVE QueueInv'
  BY <1>28 DEF nativeVars, QueueInv, RunHolds, FirstAttemptOnly, NotCalledYet, LatchedFirst,
     RejectedUncalled, EvidenceSeen, AtMostOneEnqueue, EnqueueIsTraceable, NativeCalled,
     FirstSteps, BeforeQueue, BehindLatch
<1> QED BY <1>1, <1>2, <1>3, <1>4, <1>5, <1>6, <1>7, <1>8, <1>9, <1>10, <1>11, <1>12, <1>13,
   <1>14, <1>15, <1>16, <1>17, <1>18, <1>19, <1>20, <1>21, <1>22, <1>23, <1>24, <1>25, <1>26,
   <1>27, <1>28 DEF NativeNext, NativeExecute

\* Every step keeps what the reply needs.
LEMMA ReplyStep == NativeInv /\ [NativeNext]_nativeVars => ReplyInv'
<1> SUFFICES ASSUME NativeInv, [NativeNext]_nativeVars PROVE ReplyInv'
  OBVIOUS
<1> USE NativeConstants DEF NativeInv, nativeWorld, nativeDesktop, nativeReply
<1>1. ASSUME NEW j \in NativeJobs, NativeExpire(j) PROVE ReplyInv'
  <2>1. EndpointOpen'
    BY <1>1 DEF NativeExpire, ReplyInv, EndpointOpen
  <2>2. NoTextYet'
    BY <1>1 DEF NativeExpire, NativeLive, ReplyInv, NoTextYet, Told, QueueInv, RunHolds,
       EndpointOpen, FirstSteps, BehindLatch, EndpointSteps, BeforeEndpoint, NativeTypeOK
  <2>3. TextIsDigest'
    BY <1>1 DEF NativeExpire, NativeLive, ReplyInv, TextIsDigest, Told, NoTextYet, EndpointOpen,
       QueueInv, FirstAttemptOnly, FirstSteps, BehindLatch, EndpointSteps, BeforeEndpoint,
       NativeTypeOK
  <2>4. OneText'
    BY <1>1 DEF NativeExpire, NativeLive, ReplyInv, OneText, Told, TextIsDigest, NativeTypeOK
  <2>5. SentWasAsked'
    BY <1>1 DEF NativeExpire, ReplyInv, SentWasAsked
  <2>6. RepliedBefore'
    BY <1>1 DEF NativeExpire, ReplyInv, RepliedBefore
  <2> QED BY <2>1, <2>2, <2>3, <2>4, <2>5, <2>6 DEF ReplyInv
<1>2. ASSUME NEW j \in NativeJobs, NativeCancel(j) PROVE ReplyInv'
  <2>1. EndpointOpen'
    BY <1>2 DEF NativeCancel, ReplyInv, EndpointOpen
  <2>2. NoTextYet'
    BY <1>2 DEF NativeCancel, ReplyInv, NoTextYet, Told, QueueInv, RunHolds, EndpointOpen,
       FirstSteps, BehindLatch, EndpointSteps, BeforeEndpoint, NativeTypeOK
  <2>3. TextIsDigest'
    BY <1>2 DEF NativeCancel, ReplyInv, TextIsDigest, Told, NoTextYet, EndpointOpen, QueueInv,
       FirstAttemptOnly, FirstSteps, BehindLatch, EndpointSteps, BeforeEndpoint, NativeTypeOK
  <2>4. OneText'
    BY <1>2 DEF NativeCancel, ReplyInv, OneText, Told, TextIsDigest, NativeTypeOK
  <2>5. SentWasAsked'
    BY <1>2 DEF NativeCancel, ReplyInv, SentWasAsked
  <2>6. RepliedBefore'
    BY <1>2 DEF NativeCancel, ReplyInv, RepliedBefore
  <2> QED BY <2>1, <2>2, <2>3, <2>4, <2>5, <2>6 DEF ReplyInv
<1>3. ASSUME NEW j \in NativeJobs, NativeClaim(j) PROVE ReplyInv'
  <2>1. EndpointOpen'
    BY <1>3 DEF NativeClaim, NoExecution, PriorProgress, ReplyInv, EndpointOpen, FirstSteps,
       BehindLatch, EndpointSteps, BeforeEndpoint, NativeTypeOK
  <2>2. NoTextYet'
    <3>1. \A k \in NativeJobs : nJob'[k].attempt = 0 => nJob[k].attempt = 0
      BY <1>3, ClaimedRow DEF NativeTypeOK, NativeRow
    <3>2. nRun'.job = j /\ (nRun'.token = 1 => nJob[j].attempt = 0)
      BY <1>3, ClaimedRow DEF NativeTypeOK, NativeRow
    <3>3. nAsked' = nAsked /\ nSends' = nSends
      BY <1>3 DEF NativeClaim, nativeReply
    <3> QED BY <3>1, <3>2, <3>3 DEF ReplyInv, NoTextYet, Told
  <2>3. TextIsDigest'
    BY <1>3 DEF NativeClaim, NoExecution, PriorProgress, ReplyInv, TextIsDigest, Told,
       NoTextYet, EndpointOpen, QueueInv, FirstAttemptOnly, FirstSteps, BehindLatch,
       EndpointSteps, BeforeEndpoint, NativeTypeOK
  <2>4. OneText'
    BY <1>3 DEF NativeClaim, NoExecution, PriorProgress, ReplyInv, OneText, Told, TextIsDigest,
       NativeTypeOK
  <2>5. SentWasAsked'
    BY <1>3 DEF NativeClaim, ReplyInv, SentWasAsked
  <2>6. RepliedBefore'
    BY <1>3 DEF NativeClaim, NoExecution, PriorProgress, ReplyInv, RepliedBefore, EndpointOpen,
       SentWasAsked, FirstSteps, BehindLatch, EndpointSteps, BeforeEndpoint, NativeTypeOK
  <2> QED BY <2>1, <2>2, <2>3, <2>4, <2>5, <2>6 DEF ReplyInv
<1>4. ASSUME NativeTick PROVE ReplyInv'
  <2>1. EndpointOpen'
    BY <1>4 DEF NativeTick, ReplyInv, EndpointOpen
  <2>2. NoTextYet'
    BY <1>4 DEF NativeTick, ReplyInv, NoTextYet, Told, QueueInv, RunHolds, EndpointOpen,
       FirstSteps, BehindLatch, EndpointSteps, BeforeEndpoint, NativeTypeOK
  <2>3. TextIsDigest'
    BY <1>4 DEF NativeTick, ReplyInv, TextIsDigest, Told, NoTextYet, EndpointOpen, QueueInv,
       FirstAttemptOnly, FirstSteps, BehindLatch, EndpointSteps, BeforeEndpoint, NativeTypeOK
  <2>4. OneText'
    BY <1>4 DEF NativeTick, ReplyInv, OneText, Told, TextIsDigest, NativeTypeOK
  <2>5. SentWasAsked'
    BY <1>4 DEF NativeTick, ReplyInv, SentWasAsked
  <2>6. RepliedBefore'
    BY <1>4 DEF NativeTick, ReplyInv, RepliedBefore
  <2> QED BY <2>1, <2>2, <2>3, <2>4, <2>5, <2>6 DEF ReplyInv
<1>5. ASSUME NativeEditProfile PROVE ReplyInv'
  <2>1. EndpointOpen'
    BY <1>5 DEF NativeEditProfile, ReplyInv, EndpointOpen
  <2>2. NoTextYet'
    BY <1>5 DEF NativeEditProfile, ReplyInv, NoTextYet, Told, QueueInv, RunHolds, EndpointOpen,
       FirstSteps, BehindLatch, EndpointSteps, BeforeEndpoint, NativeTypeOK
  <2>3. TextIsDigest'
    BY <1>5 DEF NativeEditProfile, ReplyInv, TextIsDigest, Told, NoTextYet, EndpointOpen,
       QueueInv, FirstAttemptOnly, FirstSteps, BehindLatch, EndpointSteps, BeforeEndpoint,
       NativeTypeOK
  <2>4. OneText'
    BY <1>5 DEF NativeEditProfile, ReplyInv, OneText, Told, TextIsDigest, NativeTypeOK
  <2>5. SentWasAsked'
    BY <1>5 DEF NativeEditProfile, ReplyInv, SentWasAsked
  <2>6. RepliedBefore'
    BY <1>5 DEF NativeEditProfile, ReplyInv, RepliedBefore
  <2> QED BY <2>1, <2>2, <2>3, <2>4, <2>5, <2>6 DEF ReplyInv
<1>6. ASSUME NativeCrash PROVE ReplyInv'
  <2>1. EndpointOpen'
    BY <1>6 DEF NativeCrash, NoExecution, NoEndpoint, ReplyInv, EndpointOpen, FirstSteps,
       BehindLatch, EndpointSteps, BeforeEndpoint, NativeTypeOK
  <2>2. NoTextYet'
    BY <1>6 DEF NativeCrash, NoExecution, NoEndpoint, ReplyInv, NoTextYet, Told, QueueInv,
       RunHolds, EndpointOpen, FirstSteps, BehindLatch, EndpointSteps, BeforeEndpoint,
       NativeTypeOK
  <2>3. TextIsDigest'
    BY <1>6 DEF NativeCrash, NoExecution, NoEndpoint, ReplyInv, TextIsDigest, QueueInv
  <2>4. OneText'
    BY <1>6 DEF NativeCrash, NoExecution, NoEndpoint, ReplyInv, OneText, Told, TextIsDigest,
       NativeTypeOK
  <2>5. SentWasAsked'
    BY <1>6 DEF NativeCrash, ReplyInv, SentWasAsked
  <2>6. RepliedBefore'
    BY <1>6 DEF NativeCrash, NoExecution, NoEndpoint, ReplyInv, RepliedBefore
  <2> QED BY <2>1, <2>2, <2>3, <2>4, <2>5, <2>6 DEF ReplyInv
<1>7. ASSUME NativeStart PROVE ReplyInv'
  <2>1. EndpointOpen'
    BY <1>7 DEF NativeStart, ReplyInv, EndpointOpen
  <2>2. NoTextYet'
    BY <1>7 DEF NativeStart, ReplyInv, NoTextYet, Told, QueueInv, RunHolds, EndpointOpen,
       FirstSteps, BehindLatch, EndpointSteps, BeforeEndpoint, NativeTypeOK
  <2>3. TextIsDigest'
    BY <1>7 DEF NativeStart, ReplyInv, TextIsDigest, Told, NoTextYet, EndpointOpen, QueueInv,
       FirstAttemptOnly, FirstSteps, BehindLatch, EndpointSteps, BeforeEndpoint, NativeTypeOK
  <2>4. OneText'
    BY <1>7 DEF NativeStart, ReplyInv, OneText, Told, TextIsDigest, NativeTypeOK
  <2>5. SentWasAsked'
    BY <1>7 DEF NativeStart, ReplyInv, SentWasAsked
  <2>6. RepliedBefore'
    BY <1>7 DEF NativeStart, ReplyInv, RepliedBefore
  <2> QED BY <2>1, <2>2, <2>3, <2>4, <2>5, <2>6 DEF ReplyInv
<1>8. ASSUME NativeReject PROVE ReplyInv'
  <2>1. EndpointOpen'
    BY <1>8 DEF NativeReject, ValidationResult, HasAttemptEvidence, ReplyInv, EndpointOpen,
       FirstSteps, BehindLatch, EndpointSteps, BeforeEndpoint, NativeTypeOK
  <2>2. NoTextYet'
    BY <1>8 DEF NativeReject, ValidationResult, HasAttemptEvidence, ReplyInv, NoTextYet, Told,
       QueueInv, RunHolds, EndpointOpen, FirstSteps, BehindLatch, EndpointSteps, BeforeEndpoint,
       NativeTypeOK
  <2>3. TextIsDigest'
    BY <1>8 DEF NativeReject, ValidationResult, HasAttemptEvidence, ReplyInv, TextIsDigest,
       Told, NoTextYet, EndpointOpen, QueueInv, FirstAttemptOnly, FirstSteps, BehindLatch,
       EndpointSteps, BeforeEndpoint, NativeTypeOK
  <2>4. OneText'
    BY <1>8 DEF NativeReject, ValidationResult, HasAttemptEvidence, ReplyInv, OneText, Told,
       TextIsDigest, NativeTypeOK
  <2>5. SentWasAsked'
    BY <1>8 DEF NativeReject, ReplyInv, SentWasAsked
  <2>6. RepliedBefore'
    BY <1>8 DEF NativeReject, ValidationResult, HasAttemptEvidence, ReplyInv, RepliedBefore
  <2> QED BY <2>1, <2>2, <2>3, <2>4, <2>5, <2>6 DEF ReplyInv
<1>9. ASSUME NativeObserve PROVE ReplyInv'
  <2>1. EndpointOpen'
    BY <1>9 DEF NativeObserve, NativeScope, ReplyInv, EndpointOpen, FirstSteps, BehindLatch,
       EndpointSteps, BeforeEndpoint, NativeTypeOK
  <2>2. NoTextYet'
    BY <1>9 DEF NativeObserve, NativeScope, ReplyInv, NoTextYet, Told, QueueInv, RunHolds,
       EndpointOpen, FirstSteps, BehindLatch, EndpointSteps, BeforeEndpoint, NativeTypeOK
  <2>3. TextIsDigest'
    BY <1>9 DEF NativeObserve, NativeScope, ReplyInv, TextIsDigest, Told, NoTextYet,
       EndpointOpen, QueueInv, FirstAttemptOnly, FirstSteps, BehindLatch, EndpointSteps,
       BeforeEndpoint, NativeTypeOK
  <2>4. OneText'
    BY <1>9 DEF NativeObserve, NativeScope, ReplyInv, OneText, Told, TextIsDigest, NativeTypeOK
  <2>5. SentWasAsked'
    BY <1>9 DEF NativeObserve, ReplyInv, SentWasAsked
  <2>6. RepliedBefore'
    BY <1>9 DEF NativeObserve, ReplyInv, RepliedBefore
  <2> QED BY <2>1, <2>2, <2>3, <2>4, <2>5, <2>6 DEF ReplyInv
<1>10. ASSUME NativeAttempt PROVE ReplyInv'
  <2>1. EndpointOpen'
    BY <1>10 DEF NativeAttempt, HasAttemptEvidence, Finish, Step, ReplyInv, EndpointOpen,
       FirstSteps, BehindLatch, EndpointSteps, BeforeEndpoint, NativeTypeOK, NativeRow,
       NativeExecution, NativeEndpoint, NativeSend
  <2>2. NoTextYet'
    BY <1>10, MoveFacts DEF NativeAttempt, SameRun, ReplyInv, NoTextYet, Told, BeforeEndpoint
  <2>3. TextIsDigest'
    BY <1>10 DEF NativeAttempt, HasAttemptEvidence, Finish, Step, ReplyInv, TextIsDigest, Told,
       NoTextYet, EndpointOpen, QueueInv, FirstAttemptOnly, FirstSteps, BehindLatch,
       EndpointSteps, BeforeEndpoint, NativeTypeOK
  <2>4. OneText'
    BY <1>10 DEF NativeAttempt, HasAttemptEvidence, Finish, Step, ReplyInv, OneText, Told,
       TextIsDigest, NativeTypeOK
  <2>5. SentWasAsked'
    BY <1>10 DEF NativeAttempt, ReplyInv, SentWasAsked
  <2>6. RepliedBefore'
    BY <1>10, ZenonT(60) DEF NativeAttempt, HasAttemptEvidence, Finish, Step, ReplyInv,
         RepliedBefore, EndpointOpen, SentWasAsked, FirstSteps, BehindLatch, EndpointSteps,
         BeforeEndpoint, NativeTypeOK, NativeRow, NativeExecution, NativeEndpoint, NativeSend
  <2> QED BY <2>1, <2>2, <2>3, <2>4, <2>5, <2>6 DEF ReplyInv
<1>11. ASSUME NativePreflight PROVE ReplyInv'
  <2>1. EndpointOpen'
    BY <1>11, ZenonT(60) DEF NativePreflight, Finish, Step, ReplyInv, EndpointOpen,
         FirstSteps, BehindLatch, EndpointSteps, BeforeEndpoint, NativeTypeOK, NativeRow,
         NativeExecution, NativeEndpoint, NativeSend
  <2>2. NoTextYet'
    BY <1>11, MoveFacts DEF NativePreflight, SameRun, ReplyInv, NoTextYet, Told, BeforeEndpoint
  <2>3. TextIsDigest'
    BY <1>11 DEF NativePreflight, Finish, Step, ReplyInv, TextIsDigest, Told, NoTextYet,
       EndpointOpen, QueueInv, FirstAttemptOnly, FirstSteps, BehindLatch, EndpointSteps,
       BeforeEndpoint, NativeTypeOK
  <2>4. OneText'
    BY <1>11 DEF NativePreflight, Finish, Step, ReplyInv, OneText, Told, TextIsDigest,
       NativeTypeOK
  <2>5. SentWasAsked'
    BY <1>11 DEF NativePreflight, ReplyInv, SentWasAsked
  <2>6. RepliedBefore'
    BY <1>11, ZenonT(60) DEF NativePreflight, Finish, Step, ReplyInv, RepliedBefore,
         EndpointOpen, SentWasAsked, FirstSteps, BehindLatch, EndpointSteps, BeforeEndpoint,
         NativeTypeOK, NativeRow, NativeExecution, NativeEndpoint, NativeSend
  <2> QED BY <2>1, <2>2, <2>3, <2>4, <2>5, <2>6 DEF ReplyInv
<1>12. ASSUME NativeOpenEndpoint PROVE ReplyInv'
  <2>1. EndpointOpen'
    BY <1>12, MoveFacts DEF NativeOpenEndpoint, NoEndpoint, ReplyInv, EndpointOpen,
       EndpointSteps, BehindLatch
  <2>2. NoTextYet'
    BY <1>12, MoveFacts DEF NativeOpenEndpoint, SameRun, ReplyInv, NoTextYet, Told, BeforeEndpoint
  <2>3. TextIsDigest'
    BY <1>12 DEF NativeOpenEndpoint, Finish, Step, NoEndpoint, ReplyInv, TextIsDigest, Told,
       NoTextYet, EndpointOpen, QueueInv, FirstAttemptOnly, FirstSteps, BehindLatch,
       EndpointSteps, BeforeEndpoint, NativeTypeOK, NativeRow, NativeExecution, NativeEndpoint,
       NativeSend
  <2>4. OneText'
    BY <1>12 DEF NativeOpenEndpoint, Finish, Step, NoEndpoint, ReplyInv, OneText, Told,
       TextIsDigest, NativeTypeOK
  <2>5. SentWasAsked'
    BY <1>12 DEF NativeOpenEndpoint, ReplyInv, SentWasAsked
  <2>6. RepliedBefore'
    BY <1>12, ZenonT(60) DEF NativeOpenEndpoint, Finish, Step, NoEndpoint, ReplyInv,
         RepliedBefore, EndpointOpen, SentWasAsked, FirstSteps, BehindLatch, EndpointSteps,
         BeforeEndpoint, NativeTypeOK, NativeRow, NativeExecution, NativeEndpoint, NativeSend
  <2> QED BY <2>1, <2>2, <2>3, <2>4, <2>5, <2>6 DEF ReplyInv
<1>13. ASSUME NativeRecordProgress PROVE ReplyInv'
  <2>1. EndpointOpen'
    BY <1>13 DEF NativeRecordProgress, Latched, NativeFenced, NativeLive, ReplyInv,
       EndpointOpen, FirstSteps, BehindLatch, EndpointSteps, BeforeEndpoint, NativeTypeOK
  <2>2. NoTextYet'
    BY <1>13 DEF NativeRecordProgress, Latched, NativeFenced, NativeLive, ReplyInv, NoTextYet,
       Told, QueueInv, RunHolds, EndpointOpen, FirstSteps, BehindLatch, EndpointSteps,
       BeforeEndpoint, NativeTypeOK
  <2>3. TextIsDigest'
    BY <1>13 DEF NativeRecordProgress, Latched, NativeFenced, NativeLive, ReplyInv,
       TextIsDigest, Told, NoTextYet, EndpointOpen, QueueInv, FirstAttemptOnly, FirstSteps,
       BehindLatch, EndpointSteps, BeforeEndpoint, NativeTypeOK
  <2>4. OneText'
    BY <1>13 DEF NativeRecordProgress, Latched, NativeFenced, NativeLive, ReplyInv, OneText,
       Told, TextIsDigest, NativeTypeOK
  <2>5. SentWasAsked'
    BY <1>13 DEF NativeRecordProgress, ReplyInv, SentWasAsked
  <2>6. RepliedBefore'
    BY <1>13 DEF NativeRecordProgress, ReplyInv, RepliedBefore
  <2> QED BY <2>1, <2>2, <2>3, <2>4, <2>5, <2>6 DEF ReplyInv
<1>14. ASSUME NativeRegister PROVE ReplyInv'
  <2>1. EndpointOpen'
    BY <1>14 DEF NativeRegister, Finish, Step, NativeScope, ReplyInv, EndpointOpen, FirstSteps,
       BehindLatch, EndpointSteps, BeforeEndpoint, NativeTypeOK, NativeRow, NativeExecution,
       NativeEndpoint, NativeSend
  <2>2. NoTextYet'
    BY <1>14, ZenonT(60) DEF NativeRegister, Finish, Step, NativeScope, ReplyInv, NoTextYet,
         Told, QueueInv, RunHolds, EndpointOpen, FirstSteps, BehindLatch, EndpointSteps,
         BeforeEndpoint, NativeTypeOK, NativeRow, NativeExecution, NativeEndpoint, NativeSend
  <2>3. TextIsDigest'
    BY <1>14, MoveFacts DEF NativeRegister, SameRun, ReplyInv, TextIsDigest, Told
  <2>4. OneText'
    BY <1>14 DEF NativeRegister, Finish, Step, NativeScope, ReplyInv, OneText, Told,
       TextIsDigest, NativeTypeOK
  <2>5. SentWasAsked'
    BY <1>14 DEF NativeRegister, ReplyInv, SentWasAsked
  <2>6. RepliedBefore'
    BY <1>14 DEF NativeRegister, Finish, Step, NativeScope, ReplyInv, RepliedBefore,
       EndpointOpen, SentWasAsked, FirstSteps, BehindLatch, EndpointSteps, BeforeEndpoint,
       NativeTypeOK, NativeRow, NativeExecution, NativeEndpoint, NativeSend
  <2> QED BY <2>1, <2>2, <2>3, <2>4, <2>5, <2>6 DEF ReplyInv
<1>15. ASSUME NativeRecheck PROVE ReplyInv'
  <2>1. EndpointOpen'
    BY <1>15 DEF NativeRecheck, ReplyInv, EndpointOpen, FirstSteps, BehindLatch, EndpointSteps,
       BeforeEndpoint, NativeTypeOK
  <2>2. NoTextYet'
    BY <1>15 DEF NativeRecheck, ReplyInv, NoTextYet, Told, QueueInv, RunHolds, EndpointOpen,
       FirstSteps, BehindLatch, EndpointSteps, BeforeEndpoint, NativeTypeOK
  <2>3. TextIsDigest'
    BY <1>15 DEF NativeRecheck, ReplyInv, TextIsDigest, Told, NoTextYet, EndpointOpen, QueueInv,
       FirstAttemptOnly, FirstSteps, BehindLatch, EndpointSteps, BeforeEndpoint, NativeTypeOK
  <2>4. OneText'
    BY <1>15 DEF NativeRecheck, ReplyInv, OneText, Told, TextIsDigest, NativeTypeOK
  <2>5. SentWasAsked'
    BY <1>15 DEF NativeRecheck, ReplyInv, SentWasAsked
  <2>6. RepliedBefore'
    BY <1>15 DEF NativeRecheck, ReplyInv, RepliedBefore
  <2> QED BY <2>1, <2>2, <2>3, <2>4, <2>5, <2>6 DEF ReplyInv
<1>16. ASSUME NativeReconcile PROVE ReplyInv'
  <2>1. EndpointOpen'
    BY <1>16 DEF NativeReconcile, ReplyInv, EndpointOpen
  <2>2. NoTextYet'
    BY <1>16 DEF NativeReconcile, NativeFenced, NativeLive, ReplyInv, NoTextYet, Told, QueueInv,
       RunHolds, EndpointOpen, FirstSteps, BehindLatch, EndpointSteps, BeforeEndpoint,
       NativeTypeOK
  <2>3. TextIsDigest'
    BY <1>16 DEF NativeReconcile, NativeFenced, NativeLive, ReplyInv, TextIsDigest, Told,
       NoTextYet, EndpointOpen, QueueInv, FirstAttemptOnly, FirstSteps, BehindLatch,
       EndpointSteps, BeforeEndpoint, NativeTypeOK
  <2>4. OneText'
    BY <1>16 DEF NativeReconcile, NativeFenced, NativeLive, ReplyInv, OneText, Told,
       TextIsDigest, NativeTypeOK
  <2>5. SentWasAsked'
    BY <1>16 DEF NativeReconcile, ReplyInv, SentWasAsked
  <2>6. RepliedBefore'
    BY <1>16 DEF NativeReconcile, ReplyInv, RepliedBefore
  <2> QED BY <2>1, <2>2, <2>3, <2>4, <2>5, <2>6 DEF ReplyInv
<1>17. ASSUME NativeQueueCall PROVE ReplyInv'
  <2>1. EndpointOpen'
    BY <1>17 DEF NativeQueueCall, StillAuthorised, Step, NativeScope, ReplyInv, EndpointOpen,
       FirstSteps, BehindLatch, EndpointSteps, BeforeEndpoint, NativeTypeOK, NativeRow,
       NativeExecution, NativeEndpoint, NativeSend
  <2>2. NoTextYet'
    BY <1>17, ZenonT(60) DEF NativeQueueCall, StillAuthorised, Step, NativeScope, ReplyInv,
         NoTextYet, Told, QueueInv, RunHolds, EndpointOpen, FirstSteps, BehindLatch,
         EndpointSteps, BeforeEndpoint, NativeTypeOK, NativeRow, NativeExecution,
         NativeEndpoint, NativeSend
  <2>3. TextIsDigest'
    BY <1>17, MoveFacts DEF NativeQueueCall, SameRun, ReplyInv, TextIsDigest, Told
  <2>4. OneText'
    BY <1>17 DEF NativeQueueCall, StillAuthorised, Step, NativeScope, ReplyInv, OneText, Told,
       TextIsDigest, NativeTypeOK
  <2>5. SentWasAsked'
    BY <1>17 DEF NativeQueueCall, ReplyInv, SentWasAsked
  <2>6. RepliedBefore'
    BY <1>17, ZenonT(60) DEF NativeQueueCall, StillAuthorised, Step, NativeScope, ReplyInv,
         RepliedBefore, EndpointOpen, SentWasAsked, FirstSteps, BehindLatch, EndpointSteps,
         BeforeEndpoint, NativeTypeOK, NativeRow, NativeExecution, NativeEndpoint, NativeSend
  <2> QED BY <2>1, <2>2, <2>3, <2>4, <2>5, <2>6 DEF ReplyInv
<1>18. ASSUME NativeAwaitAck PROVE ReplyInv'
  <2>1. EndpointOpen'
    BY <1>18 DEF NativeAwaitAck, Completed, Finish, ReplyInv, EndpointOpen, FirstSteps,
       BehindLatch, EndpointSteps, BeforeEndpoint, NativeTypeOK, NativeRow, NativeExecution,
       NativeEndpoint, NativeSend
  <2>2. NoTextYet'
    BY <1>18, ZenonT(60) DEF NativeAwaitAck, Completed, Finish, ReplyInv, NoTextYet, Told,
         QueueInv, RunHolds, EndpointOpen, FirstSteps, BehindLatch, EndpointSteps,
         BeforeEndpoint, NativeTypeOK, NativeRow, NativeExecution, NativeEndpoint, NativeSend
  <2>3. TextIsDigest'
    BY <1>18, MoveFacts DEF NativeAwaitAck, SameRun, ReplyInv, TextIsDigest, Told
  <2>4. OneText'
    BY <1>18 DEF NativeAwaitAck, Completed, Finish, ReplyInv, OneText, Told, TextIsDigest,
       NativeTypeOK
  <2>5. SentWasAsked'
    BY <1>18 DEF NativeAwaitAck, ReplyInv, SentWasAsked
  <2>6. RepliedBefore'
    BY <1>18 DEF NativeAwaitAck, Completed, Finish, ReplyInv, RepliedBefore, EndpointOpen,
       SentWasAsked, FirstSteps, BehindLatch, EndpointSteps, BeforeEndpoint, NativeTypeOK,
       NativeRow, NativeExecution, NativeEndpoint, NativeSend
  <2> QED BY <2>1, <2>2, <2>3, <2>4, <2>5, <2>6 DEF ReplyInv
<1>19. ASSUME NativeClose PROVE ReplyInv'
  <2>1. EndpointOpen'
    BY <1>19 DEF NativeClose, CloseEverything, Step, NativeScope, ReplyInv, EndpointOpen,
       FirstSteps, BehindLatch, EndpointSteps, BeforeEndpoint, NativeTypeOK
  <2>2. NoTextYet'
    BY <1>19 DEF NativeClose, CloseEverything, Step, NativeScope, ReplyInv, NoTextYet, Told,
       QueueInv, RunHolds, EndpointOpen, FirstSteps, BehindLatch, EndpointSteps, BeforeEndpoint,
       NativeTypeOK
  <2>3. TextIsDigest'
    BY <1>19 DEF NativeClose, CloseEverything, Step, NativeScope, ReplyInv, TextIsDigest, QueueInv
  <2>4. OneText'
    BY <1>19 DEF NativeClose, CloseEverything, Step, NativeScope, ReplyInv, OneText, Told,
       TextIsDigest, NativeTypeOK
  <2>5. SentWasAsked'
    BY <1>19 DEF NativeClose, ReplyInv, SentWasAsked
  <2>6. RepliedBefore'
    BY <1>19 DEF NativeClose, CloseEverything, Step, NativeScope, ReplyInv, RepliedBefore
  <2> QED BY <2>1, <2>2, <2>3, <2>4, <2>5, <2>6 DEF ReplyInv
<1>20. ASSUME NativeReport PROVE ReplyInv'
  <2>1. EndpointOpen'
    BY <1>20 DEF NativeReport, NativeFenced, NativeLive, ReportedEvidence, NoExecution,
       ReplyInv, EndpointOpen, FirstSteps, BehindLatch, EndpointSteps, BeforeEndpoint,
       NativeTypeOK
  <2>2. NoTextYet'
    BY <1>20, ReportedRow DEF NativeReport, ReplyInv, NoTextYet, Told, BeforeEndpoint,
       NativeTypeOK, NativeExecution
  <2>3. TextIsDigest'
    BY <1>20 DEF NativeReport, NativeFenced, NativeLive, ReportedEvidence, NoExecution,
       ReplyInv, TextIsDigest, Told, NoTextYet, EndpointOpen, QueueInv, FirstAttemptOnly,
       FirstSteps, BehindLatch, EndpointSteps, BeforeEndpoint, NativeTypeOK
  <2>4. OneText'
    BY <1>20 DEF NativeReport, NativeFenced, NativeLive, ReportedEvidence, NoExecution,
       ReplyInv, OneText, Told, TextIsDigest, NativeTypeOK
  <2>5. SentWasAsked'
    BY <1>20 DEF NativeReport, ReplyInv, SentWasAsked
  <2>6. RepliedBefore'
    BY <1>20, ReportedRow DEF NativeReport, ReplyInv, RepliedBefore, NativeTypeOK,
       NativeExecution
  <2> QED BY <2>1, <2>2, <2>3, <2>4, <2>5, <2>6 DEF ReplyInv
<1>21. ASSUME NativeRenew PROVE ReplyInv'
  <2>1. EndpointOpen'
    BY <1>21 DEF NativeRenew, NativeFenced, NativeLive, ReplyInv, EndpointOpen, FirstSteps,
       BehindLatch, EndpointSteps, BeforeEndpoint, NativeTypeOK, NativeRow, NativeExecution,
       NativeEndpoint, NativeSend
  <2>2. NoTextYet'
    BY <1>21 DEF NativeRenew, NativeFenced, NativeLive, ReplyInv, NoTextYet, Told, QueueInv,
       RunHolds, EndpointOpen, FirstSteps, BehindLatch, EndpointSteps, BeforeEndpoint,
       NativeTypeOK, NativeRow, NativeExecution, NativeEndpoint, NativeSend
  <2>3. TextIsDigest'
    BY <1>21 DEF NativeRenew, NativeFenced, NativeLive, ReplyInv, TextIsDigest, Told, NoTextYet,
       EndpointOpen, QueueInv, FirstAttemptOnly, FirstSteps, BehindLatch, EndpointSteps,
       BeforeEndpoint, NativeTypeOK, NativeRow, NativeExecution, NativeEndpoint, NativeSend
  <2>4. OneText'
    BY <1>21 DEF NativeRenew, NativeFenced, NativeLive, ReplyInv, OneText, Told, TextIsDigest,
       NativeTypeOK
  <2>5. SentWasAsked'
    BY <1>21 DEF NativeRenew, ReplyInv, SentWasAsked
  <2>6. RepliedBefore'
    BY <1>21 DEF NativeRenew, NativeFenced, NativeLive, ReplyInv, RepliedBefore, EndpointOpen,
       SentWasAsked, FirstSteps, BehindLatch, EndpointSteps, BeforeEndpoint, NativeTypeOK,
       NativeRow, NativeExecution, NativeEndpoint, NativeSend
  <2> QED BY <2>1, <2>2, <2>3, <2>4, <2>5, <2>6 DEF ReplyInv
<1>22. ASSUME NativeAbort PROVE ReplyInv'
  <2>1. EndpointOpen'
    BY <1>22 DEF NativeAbort, CloseEverything, NativeScope, NoExecution, ReplyInv, EndpointOpen,
       FirstSteps, BehindLatch, EndpointSteps, BeforeEndpoint, NativeTypeOK
  <2>2. NoTextYet'
    BY <1>22 DEF NativeAbort, CloseEverything, NativeScope, NoExecution, ReplyInv, NoTextYet,
       Told, QueueInv, RunHolds, EndpointOpen, FirstSteps, BehindLatch, EndpointSteps,
       BeforeEndpoint, NativeTypeOK
  <2>3. TextIsDigest'
    BY <1>22 DEF NativeAbort, CloseEverything, NativeScope, NoExecution, ReplyInv, TextIsDigest,
       QueueInv
  <2>4. OneText'
    BY <1>22 DEF NativeAbort, CloseEverything, NativeScope, NoExecution, ReplyInv, OneText,
       Told, TextIsDigest, NativeTypeOK
  <2>5. SentWasAsked'
    BY <1>22 DEF NativeAbort, ReplyInv, SentWasAsked
  <2>6. RepliedBefore'
    BY <1>22 DEF NativeAbort, CloseEverything, NativeScope, NoExecution, ReplyInv, RepliedBefore
  <2> QED BY <2>1, <2>2, <2>3, <2>4, <2>5, <2>6 DEF ReplyInv
<1>23. ASSUME NEW c \in nCalls, NativeEnqueue(c) PROVE ReplyInv'
  <2>1. EndpointOpen'
    BY <1>23 DEF NativeEnqueue, ReplyInv, EndpointOpen
  <2>2. NoTextYet'
    BY <1>23 DEF NativeEnqueue, ReplyInv, NoTextYet, Told, QueueInv, RunHolds, EndpointOpen,
       FirstSteps, BehindLatch, EndpointSteps, BeforeEndpoint, NativeTypeOK
  <2>3. TextIsDigest'
    BY <1>23 DEF NativeEnqueue, ReplyInv, TextIsDigest, Told, NoTextYet, EndpointOpen, QueueInv,
       FirstAttemptOnly, FirstSteps, BehindLatch, EndpointSteps, BeforeEndpoint, NativeTypeOK
  <2>4. OneText'
    BY <1>23 DEF NativeEnqueue, ReplyInv, OneText, Told, TextIsDigest, NativeTypeOK
  <2>5. SentWasAsked'
    BY <1>23 DEF NativeEnqueue, ReplyInv, SentWasAsked
  <2>6. RepliedBefore'
    BY <1>23 DEF NativeEnqueue, ReplyInv, RepliedBefore
  <2> QED BY <2>1, <2>2, <2>3, <2>4, <2>5, <2>6 DEF ReplyInv
<1>24. ASSUME NativeHostRestart PROVE ReplyInv'
  <2>1. EndpointOpen'
    BY <1>24 DEF NativeHostRestart, ReplyInv, EndpointOpen
  <2>2. NoTextYet'
    BY <1>24 DEF NativeHostRestart, ReplyInv, NoTextYet, Told, QueueInv, RunHolds, EndpointOpen,
       FirstSteps, BehindLatch, EndpointSteps, BeforeEndpoint, NativeTypeOK
  <2>3. TextIsDigest'
    BY <1>24 DEF NativeHostRestart, ReplyInv, TextIsDigest, Told, NoTextYet, EndpointOpen,
       QueueInv, FirstAttemptOnly, FirstSteps, BehindLatch, EndpointSteps, BeforeEndpoint,
       NativeTypeOK
  <2>4. OneText'
    BY <1>24 DEF NativeHostRestart, ReplyInv, OneText, Told, TextIsDigest, NativeTypeOK
  <2>5. SentWasAsked'
    BY <1>24 DEF NativeHostRestart, ReplyInv, SentWasAsked
  <2>6. RepliedBefore'
    BY <1>24 DEF NativeHostRestart, ReplyInv, RepliedBefore
  <2> QED BY <2>1, <2>2, <2>3, <2>4, <2>5, <2>6 DEF ReplyInv
<1>25. ASSUME NEW t \in ReplyTexts, NativeReplyAsk(t) PROVE ReplyInv'
  <2>1. EndpointOpen'
    BY <1>25 DEF NativeReplyAsk, ReplyInv, EndpointOpen
  <2>2. NoTextYet'
    BY <1>25 DEF NativeReplyAsk, TextFits, ReplyInv, NoTextYet, Told, QueueInv, RunHolds,
       EndpointOpen, FirstSteps, BehindLatch, EndpointSteps, BeforeEndpoint, NativeTypeOK
  <2>3. TextIsDigest'
    BY <1>25 DEF NativeReplyAsk, TextFits, ReplyInv, TextIsDigest, Told, NoTextYet,
       EndpointOpen, QueueInv, FirstAttemptOnly, FirstSteps, BehindLatch, EndpointSteps,
       BeforeEndpoint, NativeTypeOK
  <2>4. OneText'
    BY <1>25 DEF NativeReplyAsk, TextFits, ReplyInv, OneText, Told, TextIsDigest, NativeTypeOK
  <2>5. SentWasAsked'
    BY <1>25 DEF NativeReplyAsk, ReplyInv, SentWasAsked
  <2>6. RepliedBefore'
    BY <1>25 DEF NativeReplyAsk, ReplyInv, RepliedBefore
  <2> QED BY <2>1, <2>2, <2>3, <2>4, <2>5, <2>6 DEF ReplyInv
<1>26. ASSUME NEW s \in nSends, NativeReplySend(s) PROVE ReplyInv'
  <2>1. EndpointOpen'
    BY <1>26 DEF NativeReplySend, ReplyInv, EndpointOpen
  <2>2. NoTextYet'
    BY <1>26 DEF NativeReplySend, ReplyInv, NoTextYet, Told, QueueInv, RunHolds, EndpointOpen,
       FirstSteps, BehindLatch, EndpointSteps, BeforeEndpoint, NativeTypeOK, NativeRow,
       NativeExecution, NativeEndpoint, NativeSend
  <2>3. TextIsDigest'
    BY <1>26 DEF NativeReplySend, ReplyInv, TextIsDigest, Told, NoTextYet, EndpointOpen,
       QueueInv, FirstAttemptOnly, FirstSteps, BehindLatch, EndpointSteps, BeforeEndpoint,
       NativeTypeOK, NativeRow, NativeExecution, NativeEndpoint, NativeSend
  <2>4. OneText'
    BY <1>26 DEF NativeReplySend, ReplyInv, OneText, Told, TextIsDigest, NativeTypeOK,
       NativeRow, NativeExecution, NativeEndpoint, NativeSend
  <2>5. SentWasAsked'
    BY <1>26 DEF NativeReplySend, ReplyInv, SentWasAsked, NativeTypeOK, NativeRow,
       NativeExecution, NativeEndpoint, NativeSend
  <2>6. RepliedBefore'
    BY <1>26 DEF NativeReplySend, ReplyInv, RepliedBefore
  <2> QED BY <2>1, <2>2, <2>3, <2>4, <2>5, <2>6 DEF ReplyInv
<1>27. ASSUME NEW s \in nSends, NativeReplySettle(s) PROVE ReplyInv'
  <2>1. EndpointOpen'
    BY <1>27 DEF NativeReplySettle, ReplyInv, EndpointOpen
  <2>2. NoTextYet'
    BY <1>27 DEF NativeReplySettle, Receipt, ReplyInv, NoTextYet, Told, QueueInv, RunHolds,
       EndpointOpen, FirstSteps, BehindLatch, EndpointSteps, BeforeEndpoint, NativeTypeOK
  <2>3. TextIsDigest'
    BY <1>27 DEF NativeReplySettle, Receipt, ReplyInv, TextIsDigest, Told, NoTextYet,
       EndpointOpen, QueueInv, FirstAttemptOnly, FirstSteps, BehindLatch, EndpointSteps,
       BeforeEndpoint, NativeTypeOK
  <2>4. OneText'
    BY <1>27 DEF NativeReplySettle, Receipt, ReplyInv, OneText, Told, TextIsDigest, NativeTypeOK
  <2>5. SentWasAsked'
    BY <1>27 DEF NativeReplySettle, ReplyInv, SentWasAsked
  <2>6. RepliedBefore'
    BY <1>27 DEF NativeReplySettle, Receipt, ReplyInv, RepliedBefore, EndpointOpen,
       SentWasAsked, FirstSteps, BehindLatch, EndpointSteps, BeforeEndpoint, NativeTypeOK
  <2> QED BY <2>1, <2>2, <2>3, <2>4, <2>5, <2>6 DEF ReplyInv
<1>28. ASSUME UNCHANGED nativeVars PROVE ReplyInv'
  BY <1>28 DEF nativeVars, ReplyInv, EndpointOpen, NoTextYet, TextIsDigest, OneText,
     SentWasAsked, RepliedBefore, Told, FirstSteps, BehindLatch, EndpointSteps, BeforeEndpoint
<1> QED BY <1>1, <1>2, <1>3, <1>4, <1>5, <1>6, <1>7, <1>8, <1>9, <1>10, <1>11, <1>12, <1>13,
   <1>14, <1>15, <1>16, <1>17, <1>18, <1>19, <1>20, <1>21, <1>22, <1>23, <1>24, <1>25, <1>26,
   <1>27, <1>28 DEF NativeNext, NativeExecute

\* Every step keeps what Coordinate said of the lease.
LEMMA LeaseStep == NativeInv /\ [NativeNext]_nativeVars => LeaseOutlives'
<1> SUFFICES ASSUME NativeInv, [NativeNext]_nativeVars PROVE LeaseOutlives'
  OBVIOUS
<1> USE NativeConstants DEF NativeInv, nativeWorld, nativeDesktop, nativeReply
<1>1. ASSUME NEW j \in NativeJobs, NativeExpire(j) PROVE LeaseOutlives'
  BY <1>1 DEF NativeExpire, LeaseOutlives
<1>2. ASSUME NEW j \in NativeJobs, NativeCancel(j) PROVE LeaseOutlives'
  BY <1>2 DEF NativeCancel, LeaseOutlives
<1>3. ASSUME NEW j \in NativeJobs, NativeClaim(j) PROVE LeaseOutlives'
  BY <1>3 DEF NativeClaim, NoExecution, PriorProgress, LeaseOutlives, NativeTypeOK
<1>4. ASSUME NativeTick PROVE LeaseOutlives'
  BY <1>4 DEF NativeTick, LeaseOutlives, NativeTypeOK, NativeRow, NativeExecution
<1>5. ASSUME NativeEditProfile PROVE LeaseOutlives'
  BY <1>5 DEF NativeEditProfile, LeaseOutlives
<1>6. ASSUME NativeCrash PROVE LeaseOutlives'
  BY <1>6 DEF NativeCrash, NoExecution, NoEndpoint, LeaseOutlives
<1>7. ASSUME NativeStart PROVE LeaseOutlives'
  BY <1>7 DEF NativeStart, LeaseOutlives
<1>8. ASSUME NativeReject PROVE LeaseOutlives'
  BY <1>8 DEF NativeReject, LeaseOutlives
<1>9. ASSUME NativeObserve PROVE LeaseOutlives'
  BY <1>9 DEF NativeObserve, LeaseOutlives
<1>10. ASSUME NativeAttempt PROVE LeaseOutlives'
  BY <1>10, MoveFacts DEF NativeAttempt, LeaseOutlives
<1>11. ASSUME NativePreflight PROVE LeaseOutlives'
  BY <1>11, MoveFacts DEF NativePreflight, LeaseOutlives
<1>12. ASSUME NativeOpenEndpoint PROVE LeaseOutlives'
  BY <1>12, MoveFacts DEF NativeOpenEndpoint, LeaseOutlives
<1>13. ASSUME NativeRecordProgress PROVE LeaseOutlives'
  BY <1>13 DEF NativeRecordProgress, LeaseOutlives
<1>14. ASSUME NativeRegister PROVE LeaseOutlives'
  BY <1>14, MoveFacts DEF NativeRegister, LeaseOutlives
<1>15. ASSUME NativeRecheck PROVE LeaseOutlives'
  BY <1>15 DEF NativeRecheck, LeaseOutlives, NativeTypeOK
<1>16. ASSUME NativeReconcile PROVE LeaseOutlives'
  <2>1. nRun \in NativeExecution /\ nJob[nRun.job] \in NativeRow /\ nClock \in Nat
    BY DEF NativeTypeOK, NativeExecution
  <2>2. /\ nRun' = [nRun EXCEPT !.current = TRUE, !.left = nJob[nRun.job].expires - nClock]
        /\ nJob' = nJob /\ nClock' = nClock /\ nRun.pc = "answer"
    BY <1>16 DEF NativeReconcile
  <2>3. nRun'.job = nRun.job /\ nRun'.started = nRun.started /\ nRun'.left = nJob[nRun.job].expires - nClock
    BY <2>1, <2>2 DEF NativeExecution
  <2>4. nRun.started <= nClock /\ nRun.started \in Nat /\ nJob[nRun.job].expires \in Nat
    BY <2>1, <2>2 DEF LeaseOutlives, NativeExecution, NativeRow
  <2> QED BY <2>1, <2>2, <2>3, <2>4 DEF LeaseOutlives
<1>17. ASSUME NativeQueueCall PROVE LeaseOutlives'
  BY <1>17 DEF NativeQueueCall, StillAuthorised, Step, NativeScope, LeaseOutlives, NativeTypeOK,
     NativeRow, NativeExecution
<1>18. ASSUME NativeAwaitAck PROVE LeaseOutlives'
  BY <1>18, MoveFacts DEF NativeAwaitAck, LeaseOutlives
<1>19. ASSUME NativeClose PROVE LeaseOutlives'
  BY <1>19 DEF NativeClose, CloseEverything, Step, NativeScope, LeaseOutlives
<1>20. ASSUME NativeReport PROVE LeaseOutlives'
  BY <1>20, ReportedRow DEF NativeReport, LeaseOutlives, NativeTypeOK, NativeExecution
<1>21. ASSUME NativeRenew PROVE LeaseOutlives'
  BY <1>21 DEF NativeRenew, NativeFenced, NativeLive, LeaseOutlives, NativeTypeOK, NativeRow,
     NativeExecution
<1>22. ASSUME NativeAbort PROVE LeaseOutlives'
  BY <1>22 DEF NativeAbort, CloseEverything, NativeScope, NoExecution, LeaseOutlives
<1>23. ASSUME NEW c \in nCalls, NativeEnqueue(c) PROVE LeaseOutlives'
  BY <1>23 DEF NativeEnqueue, LeaseOutlives
<1>24. ASSUME NativeHostRestart PROVE LeaseOutlives'
  BY <1>24 DEF NativeHostRestart, LeaseOutlives
<1>25. ASSUME NEW t \in ReplyTexts, NativeReplyAsk(t) PROVE LeaseOutlives'
  BY <1>25 DEF NativeReplyAsk, LeaseOutlives
<1>26. ASSUME NEW s \in nSends, NativeReplySend(s) PROVE LeaseOutlives'
  BY <1>26 DEF NativeReplySend, LeaseOutlives
<1>27. ASSUME NEW s \in nSends, NativeReplySettle(s) PROVE LeaseOutlives'
  BY <1>27 DEF NativeReplySettle, LeaseOutlives
<1>28. ASSUME UNCHANGED nativeVars PROVE LeaseOutlives'
  BY <1>28 DEF nativeVars, LeaseOutlives, NativeTypeOK, NativeRow, NativeExecution
<1> QED BY <1>1, <1>2, <1>3, <1>4, <1>5, <1>6, <1>7, <1>8, <1>9, <1>10, <1>11, <1>12, <1>13,
   <1>14, <1>15, <1>16, <1>17, <1>18, <1>19, <1>20, <1>21, <1>22, <1>23, <1>24, <1>25, <1>26,
   <1>27, <1>28 DEF NativeNext, NativeExecute

\* The invariant holds initially.
LEMMA NativeInitially == NativeInit => NativeInv
<1> SUFFICES ASSUME NativeInit PROVE NativeInv
  OBVIOUS
<1> USE NativeConstants DEF NativeInit
<1>1. PICK j \in NativeJobs : nRun = NoExecution(j)
  OBVIOUS
<1>2. /\ nRun.pc = "idle" /\ nRun.result = "pending"
      /\ ~nReply.active /\ \A k \in NativeJobs : ~NativeCalled(k)
  BY <1>1 DEF NoExecution, NoEndpoint, NativeCalled
<1>3. NativeTypeOK
  <2>1. nRun \in NativeExecution
    BY <1>1 DEF NoExecution, NativeExecution, NativePc, NativeStatus
  <2>2. nReply \in NativeEndpoint
    BY DEF NoEndpoint, NativeEndpoint
  <2>3. nJob \in [NativeJobs -> NativeRow]
    BY DEF NativeRow, NativeStatus
  <2> QED BY <2>1, <2>2, <2>3 DEF NativeTypeOK
<1>4. QueueInv
  BY <1>2 DEF QueueInv, RunHolds, FirstAttemptOnly, NotCalledYet, LatchedFirst, RejectedUncalled,
     EvidenceSeen, AtMostOneEnqueue, EnqueueIsTraceable, FirstSteps, BeforeQueue, BehindLatch
<1>5. ReplyInv
  BY <1>2 DEF ReplyInv, EndpointOpen, NoTextYet, TextIsDigest, OneText, SentWasAsked,
     RepliedBefore, Told, EndpointSteps, BehindLatch, BeforeEndpoint
<1>6. LeaseOutlives
  BY <1>2 DEF LeaseOutlives
<1> QED BY <1>3, <1>4, <1>5, <1>6 DEF NativeInv

\* The invariant holds in every behaviour.
LEMMA NativeInvariant == NativeSpec => []NativeInv
<1>1. NativeInv /\ [NativeNext]_nativeVars => NativeInv'
  BY NativeTypeStep, QueueStep, ReplyStep, LeaseStep DEF NativeInv
<1> QED BY <1>1, NativeInitially, PTL DEF NativeSpec

\* The state of the desktop execution always has its type.
THEOREM NativeTypes == NativeSpec => []NativeTypeOK
BY NativeInvariant, PTL DEF NativeInv

\* However often it is claimed, and wherever the worker dies, a job reaches the
\* desktop at most once: _has_attempt_evidence, attempted_jobs and the latch
\* before the queue call of execute_native_job.
THEOREM EnqueuedAtMostOnce == NativeSpec => []AtMostOneEnqueue
<1>1. NativeInv => AtMostOneEnqueue
  BY DEF NativeInv, QueueInv
<1> QED BY <1>1, NativeInvariant, PTL

\* What reached the desktop has its record in Coordinate and is never reported as
\* rejected; the report names that record or none, and the report of the attempt
\* that made the call names it (native_validation_result, _original_evidence).
THEOREM EnqueuesAreTraced == NativeSpec => []EnqueueIsTraceable
<1>1. NativeInv => EnqueueIsTraceable
  BY DEF NativeInv, QueueInv
<1> QED BY <1>1, NativeInvariant, PTL

\* A job is done only after its reply, and one text at most went to the channel:
\* the digest that ActiveReply.handle fixes before it sends.
THEOREM DoneMeansReplied == NativeSpec => []DoneWasReplied
<1>1. NativeInv => DoneWasReplied
  BY DEF NativeInv, NativeTypeOK, ReplyInv, OneText, RepliedBefore, Told, DoneWasReplied
<1> QED BY <1>1, NativeInvariant, PTL

\* Only NativeQueueCall starts a call.
LEMMA NewCalls ==
  ASSUME [NativeNext]_nativeVars, NEW c \in nCalls' \ nCalls
  PROVE  NativeQueueCall /\ StillAuthorised /\ c = NativeScope
<1>1. nCalls' # nCalls /\ ~(nCalls' \subseteq nCalls)
  OBVIOUS
<1>2. NativeQueueCall
  BY <1>1 DEF NativeNext, NativeExecute, nativeVars, nativeDesktop, NativeExpire, NativeCancel,
     NativeClaim, NativeTick, NativeEditProfile, NativeCrash, NativeStart, NativeReject,
     NativeObserve, NativeAttempt, NativePreflight, NativeOpenEndpoint, NativeRecordProgress,
     NativeRegister, NativeRecheck, NativeReconcile, NativeAwaitAck, NativeClose, NativeReport,
     NativeRenew, NativeAbort, NativeEnqueue, NativeHostRestart, NativeReplyAsk,
     NativeReplySend, NativeReplySettle
<1> QED BY <1>1, <1>2 DEF NativeQueueCall

\* A queue call starts under a lease that has not run out, for every lifetime of
\* a lease and however long the check before the call took:
\* _confirm_enqueue_authority.
THEOREM CallsUnderLease == NativeSpec => CallsWithinLease
<1>1. NativeInv /\ [NativeNext]_nativeVars =>
        [\A c \in nCalls' \ nCalls :
            nClock < nJob[c.job].expires /\ nJob[c.job].attempt = c.token]_nativeVars
  <2> SUFFICES ASSUME NativeInv, [NativeNext]_nativeVars, NEW c \in nCalls' \ nCalls
               PROVE  nClock < nJob[c.job].expires /\ nJob[c.job].attempt = c.token
    OBVIOUS
  <2>1. NativeQueueCall /\ StillAuthorised /\ c = NativeScope
    BY NewCalls
  <2>2. c.job = nRun.job /\ c.token = nRun.token /\ nRun.pc = "answer"
    BY <2>1 DEF NativeScope, NativeQueueCall
  <2>3. /\ nRun.job \in NativeJobs /\ nRun.started \in Nat /\ nRun.left \in Int /\ nClock \in Nat
        /\ nJob[nRun.job].expires \in Nat
    BY DEF NativeInv, NativeTypeOK, NativeExecution, NativeRow
  <2>4. nRun.left > nClock - nRun.started /\ nRun.started + nRun.left <= nJob[nRun.job].expires
    BY <2>1, <2>2 DEF StillAuthorised, NativeInv, LeaseOutlives
  <2>5. nJob[nRun.job].attempt = nRun.token
    BY <2>2 DEF NativeInv, QueueInv, RunHolds
  <2> QED BY <2>2, <2>3, <2>4, <2>5
<1> QED BY <1>1, NativeInvariant, PTL DEF NativeSpec, CallsWithinLease

\* The steps of the first attempt before Coordinate may have its record.
UpToLatch == {"validate", "preflight", "endpoint", "latch"}

\* Coordinate has no record of a job before its first attempt writes one, and a
\* job to be rejected has none.
Unannounced ==
  /\ \A j \in NativeJobs : nJob[j].attempt = 0 => nJob[j].progress = 0
  /\ nRun.pc \in UpToLatch /\ nRun.token = 1 => nJob[nRun.job].progress = 0
  /\ nRun.result = "failed" => nJob[nRun.job].progress = 0

\* What a report can say.
ResultSet ==
  /\ nRun.pc \in BehindLatch => nRun.result = "timed_out"
  /\ nRun.pc \in {"close", "report"} => nRun.result \in {"failed", "timed_out", "done"}

\* Only a session the desktop queued the job to answers.
SendsQueued == \A s \in nSends : nQueued[s.job] > 0

DeliveryInv == Unannounced /\ ResultSet /\ SendsQueued

\* And what result they set.
LEMMA ResultFacts ==
  ASSUME NativeTypeOK
  PROVE  /\ NativeAttempt \/ NativeOpenEndpoint \/ NativeRegister =>
              \/ nRun'.pc = "close" /\ nRun'.result = "timed_out"
              \/ nRun'.pc \in {"preflight", "latch", "recheck"} /\ nRun'.result = nRun.result
         /\ NativeRegister => nRun'.pc # "latch"
         /\ NativePreflight =>
              \/ nRun'.pc = "close" /\ nRun'.result \in {"failed", "timed_out"}
              \/ nRun'.pc = "endpoint" /\ nRun'.result = nRun.result
         /\ NativeQueueCall => nRun'.result = nRun.result
         /\ NativeAwaitAck => nRun'.result \in {"done", "timed_out"}
<1>1. /\ {"preflight", "endpoint", "latch", "recheck", "await", "close"} \subseteq NativePc
      /\ {"timed_out", "failed", "done"} \subseteq NativeStatus
  BY DEF NativePc, NativeStatus
<1>2. ASSUME NativeAttempt \/ NativeOpenEndpoint \/ NativeRegister
      PROVE  \/ nRun'.pc = "close" /\ nRun'.result = "timed_out"
             \/ nRun'.pc \in {"preflight", "latch", "recheck"} /\ nRun'.result = nRun.result
  BY <1>1, <1>2, StepFacts, FinishFacts DEF NativeAttempt, NativeOpenEndpoint, NativeRegister
<1>3. ASSUME NativePreflight
      PROVE  \/ nRun'.pc = "close" /\ nRun'.result \in {"failed", "timed_out"}
             \/ nRun'.pc = "endpoint" /\ nRun'.result = nRun.result
  BY <1>1, <1>3, StepFacts, FinishFacts DEF NativePreflight
<1>4. ASSUME NativeQueueCall PROVE nRun'.result = nRun.result
  BY <1>1, <1>4, StepFacts DEF NativeQueueCall, NativeTypeOK, NativeExecution
<1>5. ASSUME NativeAwaitAck PROVE nRun'.result \in {"done", "timed_out"}
  BY <1>1, <1>5, FinishFacts DEF NativeAwaitAck
<1> QED BY <1>2, <1>3, <1>4, <1>5, MoveFacts

\* Every step keeps them.
LEMMA DeliveryStep == NativeInv /\ DeliveryInv /\ [NativeNext]_nativeVars => DeliveryInv'
<1> SUFFICES ASSUME NativeInv, DeliveryInv, [NativeNext]_nativeVars PROVE DeliveryInv'
  OBVIOUS
<1> USE NativeConstants DEF NativeInv, nativeWorld, nativeDesktop, nativeReply
<1>1. ASSUME NEW j \in NativeJobs, NativeExpire(j) PROVE DeliveryInv'
  <2>1. Unannounced'
    BY <1>1 DEF NativeExpire, DeliveryInv, Unannounced
  <2>2. ResultSet'
    BY <1>1 DEF NativeExpire, DeliveryInv, ResultSet
  <2>3. SendsQueued'
    BY <1>1 DEF NativeExpire, DeliveryInv, SendsQueued
  <2> QED BY <2>1, <2>2, <2>3 DEF DeliveryInv
<1>2. ASSUME NEW j \in NativeJobs, NativeCancel(j) PROVE DeliveryInv'
  <2>1. Unannounced'
    BY <1>2 DEF NativeCancel, DeliveryInv, Unannounced
  <2>2. ResultSet'
    BY <1>2 DEF NativeCancel, DeliveryInv, ResultSet
  <2>3. SendsQueued'
    BY <1>2 DEF NativeCancel, DeliveryInv, SendsQueued
  <2> QED BY <2>1, <2>2, <2>3 DEF DeliveryInv
<1>3. ASSUME NEW j \in NativeJobs, NativeClaim(j) PROVE DeliveryInv'
  <2>1. Unannounced'
    <3>1. \A k \in NativeJobs : nJob'[k].attempt = 0 => nJob[k].attempt = 0
      BY <1>3, ClaimedRow DEF NativeTypeOK, NativeRow
    <3>2. nRun'.job = j /\ nRun'.result # "failed" /\ (nRun'.token = 1 => nJob[j].attempt = 0)
      BY <1>3, ClaimedRow DEF NativeTypeOK, NativeRow
    <3> QED BY <1>3, <3>1, <3>2, ClaimedRow DEF DeliveryInv, Unannounced
  <2>2. ResultSet'
    BY <1>3, ClaimedRow DEF ResultSet, BehindLatch
  <2>3. SendsQueued'
    BY <1>3 DEF NativeClaim, DeliveryInv, SendsQueued
  <2> QED BY <2>1, <2>2, <2>3 DEF DeliveryInv
<1>4. ASSUME NativeTick PROVE DeliveryInv'
  <2>1. Unannounced'
    BY <1>4 DEF NativeTick, DeliveryInv, Unannounced
  <2>2. ResultSet'
    BY <1>4 DEF NativeTick, DeliveryInv, ResultSet
  <2>3. SendsQueued'
    BY <1>4 DEF NativeTick, DeliveryInv, SendsQueued
  <2> QED BY <2>1, <2>2, <2>3 DEF DeliveryInv
<1>5. ASSUME NativeEditProfile PROVE DeliveryInv'
  <2>1. Unannounced'
    BY <1>5 DEF NativeEditProfile, DeliveryInv, Unannounced
  <2>2. ResultSet'
    BY <1>5 DEF NativeEditProfile, DeliveryInv, ResultSet
  <2>3. SendsQueued'
    BY <1>5 DEF NativeEditProfile, DeliveryInv, SendsQueued
  <2> QED BY <2>1, <2>2, <2>3 DEF DeliveryInv
<1>6. ASSUME NativeCrash PROVE DeliveryInv'
  <2>1. Unannounced'
    BY <1>6 DEF NativeCrash, NoExecution, DeliveryInv, Unannounced
  <2>2. ResultSet'
    BY <1>6 DEF NativeCrash, NoExecution, ResultSet, BehindLatch
  <2>3. SendsQueued'
    BY <1>6 DEF NativeCrash, SendsQueued
  <2> QED BY <2>1, <2>2, <2>3 DEF DeliveryInv
<1>7. ASSUME NativeStart PROVE DeliveryInv'
  <2>1. Unannounced'
    BY <1>7 DEF NativeStart, DeliveryInv, Unannounced
  <2>2. ResultSet'
    BY <1>7 DEF NativeStart, DeliveryInv, ResultSet
  <2>3. SendsQueued'
    BY <1>7 DEF NativeStart, DeliveryInv, SendsQueued
  <2> QED BY <2>1, <2>2, <2>3 DEF DeliveryInv
<1>8. ASSUME NativeReject PROVE DeliveryInv'
  <2>1. Unannounced'
    BY <1>8 DEF NativeReject, ValidationResult, HasAttemptEvidence, DeliveryInv, Unannounced,
           UpToLatch
  <2>2. ResultSet'
    BY <1>8 DEF NativeReject, ValidationResult, ResultSet, BehindLatch
  <2>3. SendsQueued'
    BY <1>8 DEF NativeReject, DeliveryInv, SendsQueued
  <2> QED BY <2>1, <2>2, <2>3 DEF DeliveryInv
<1>9. ASSUME NativeObserve PROVE DeliveryInv'
  <2>1. Unannounced'
    BY <1>9 DEF NativeObserve, DeliveryInv, Unannounced, UpToLatch
  <2>2. ResultSet'
    BY <1>9 DEF NativeObserve, ResultSet
  <2>3. SendsQueued'
    BY <1>9 DEF NativeObserve, DeliveryInv, SendsQueued
  <2> QED BY <2>1, <2>2, <2>3 DEF DeliveryInv
<1>10. ASSUME NativeAttempt PROVE DeliveryInv'
  <2>1. Unannounced'
    BY <1>10, MoveFacts DEF NativeAttempt, HasAttemptEvidence, DeliveryInv, Unannounced,
           UpToLatch, SameRun
  <2>2. ResultSet'
    BY <1>10, MoveFacts, ResultFacts DEF ResultSet, BehindLatch
  <2>3. SendsQueued'
    BY <1>10 DEF NativeAttempt, DeliveryInv, SendsQueued
  <2> QED BY <2>1, <2>2, <2>3 DEF DeliveryInv
<1>11. ASSUME NativePreflight PROVE DeliveryInv'
  <2>1. Unannounced'
    BY <1>11, MoveFacts DEF NativePreflight, DeliveryInv, Unannounced, QueueInv,
           FirstAttemptOnly, FirstSteps, UpToLatch, SameRun
  <2>2. ResultSet'
    BY <1>11, ResultFacts DEF ResultSet, BehindLatch
  <2>3. SendsQueued'
    BY <1>11 DEF NativePreflight, DeliveryInv, SendsQueued
  <2> QED BY <2>1, <2>2, <2>3 DEF DeliveryInv
<1>12. ASSUME NativeOpenEndpoint PROVE DeliveryInv'
  <2>1. Unannounced'
    BY <1>12, MoveFacts DEF NativeOpenEndpoint, DeliveryInv, Unannounced, QueueInv,
           FirstAttemptOnly, FirstSteps, UpToLatch, SameRun
  <2>2. ResultSet'
    BY <1>12, MoveFacts, ResultFacts DEF ResultSet, BehindLatch
  <2>3. SendsQueued'
    BY <1>12 DEF NativeOpenEndpoint, DeliveryInv, SendsQueued
  <2> QED BY <2>1, <2>2, <2>3 DEF DeliveryInv
<1>13. ASSUME NativeRecordProgress PROVE DeliveryInv'
  <2>1. Unannounced'
    BY <1>13 DEF NativeRecordProgress, DeliveryInv, Unannounced, QueueInv, RunHolds, UpToLatch
  <2>2. ResultSet'
    BY <1>13 DEF NativeRecordProgress, ResultSet
  <2>3. SendsQueued'
    BY <1>13 DEF NativeRecordProgress, DeliveryInv, SendsQueued
  <2> QED BY <2>1, <2>2, <2>3 DEF DeliveryInv
<1>14. ASSUME NativeRegister PROVE DeliveryInv'
  <2>1. Unannounced'
    BY <1>14, MoveFacts, ResultFacts DEF NativeRegister, DeliveryInv, Unannounced, UpToLatch,
           SameRun
  <2>2. ResultSet'
    BY <1>14, ResultFacts DEF NativeRegister, DeliveryInv, ResultSet, BehindLatch
  <2>3. SendsQueued'
    BY <1>14 DEF NativeRegister, DeliveryInv, SendsQueued
  <2> QED BY <2>1, <2>2, <2>3 DEF DeliveryInv
<1>15. ASSUME NativeRecheck PROVE DeliveryInv'
  <2>1. Unannounced'
    BY <1>15 DEF NativeRecheck, DeliveryInv, Unannounced, UpToLatch
  <2>2. ResultSet'
    BY <1>15 DEF NativeRecheck, DeliveryInv, ResultSet, BehindLatch
  <2>3. SendsQueued'
    BY <1>15 DEF NativeRecheck, DeliveryInv, SendsQueued
  <2> QED BY <2>1, <2>2, <2>3 DEF DeliveryInv
<1>16. ASSUME NativeReconcile PROVE DeliveryInv'
  <2>1. Unannounced'
    BY <1>16 DEF NativeReconcile, DeliveryInv, Unannounced
  <2>2. ResultSet'
    BY <1>16 DEF NativeReconcile, DeliveryInv, ResultSet
  <2>3. SendsQueued'
    BY <1>16 DEF NativeReconcile, DeliveryInv, SendsQueued
  <2> QED BY <2>1, <2>2, <2>3 DEF DeliveryInv
<1>17. ASSUME NativeQueueCall PROVE DeliveryInv'
  <2>1. Unannounced'
    BY <1>17, MoveFacts, ResultFacts DEF NativeQueueCall, DeliveryInv, Unannounced, UpToLatch,
           SameRun
  <2>2. ResultSet'
    BY <1>17, ResultFacts DEF NativeQueueCall, DeliveryInv, ResultSet, BehindLatch
  <2>3. SendsQueued'
    BY <1>17 DEF NativeQueueCall, DeliveryInv, SendsQueued
  <2> QED BY <2>1, <2>2, <2>3 DEF DeliveryInv
<1>18. ASSUME NativeAwaitAck PROVE DeliveryInv'
  <2>1. Unannounced'
    BY <1>18, MoveFacts, ResultFacts DEF NativeAwaitAck, DeliveryInv, Unannounced, UpToLatch
  <2>2. ResultSet'
    BY <1>18, MoveFacts, ResultFacts DEF ResultSet, BehindLatch
  <2>3. SendsQueued'
    BY <1>18 DEF NativeAwaitAck, DeliveryInv, SendsQueued
  <2> QED BY <2>1, <2>2, <2>3 DEF DeliveryInv
<1>19. ASSUME NativeClose PROVE DeliveryInv'
  <2>1. Unannounced'
    BY <1>19 DEF NativeClose, Step, DeliveryInv, Unannounced, UpToLatch
  <2>2. ResultSet'
    BY <1>19 DEF NativeClose, Step, DeliveryInv, ResultSet, BehindLatch
  <2>3. SendsQueued'
    BY <1>19 DEF NativeClose, DeliveryInv, SendsQueued
  <2> QED BY <2>1, <2>2, <2>3 DEF DeliveryInv
<1>20. ASSUME NativeReport PROVE DeliveryInv'
  <2>1. Unannounced'
    <3>1. \A j \in NativeJobs : nJob'[j].attempt = nJob[j].attempt
                               /\ nJob'[j].progress = nJob[j].progress
      BY <1>20, ReportedRow
    <3>2. nRun'.pc \notin UpToLatch /\ nRun'.result # "failed"
      BY <1>20, ReportedRow DEF UpToLatch
    <3> QED BY <3>1, <3>2 DEF DeliveryInv, Unannounced
  <2>2. ResultSet'
    BY <1>20 DEF NativeReport, NoExecution, ResultSet, BehindLatch
  <2>3. SendsQueued'
    BY <1>20 DEF NativeReport, DeliveryInv, SendsQueued
  <2> QED BY <2>1, <2>2, <2>3 DEF DeliveryInv
<1>21. ASSUME NativeRenew PROVE DeliveryInv'
  <2>1. Unannounced'
    <3>1. \A j \in NativeJobs : /\ nJob'[j].attempt = nJob[j].attempt
                                /\ nJob'[j].progress = nJob[j].progress
      BY <1>21 DEF NativeRenew, NativeTypeOK, NativeRow, NativeExecution
    <3>2. /\ nRun'.pc = nRun.pc /\ nRun'.token = nRun.token /\ nRun'.job = nRun.job
          /\ nRun'.result = nRun.result /\ nRun.job \in NativeJobs
      BY <1>21 DEF NativeRenew, NativeTypeOK, NativeExecution
    <3> QED BY <3>1, <3>2 DEF DeliveryInv, Unannounced
  <2>2. ResultSet'
    BY <1>21 DEF NativeRenew, DeliveryInv, ResultSet, NativeTypeOK, NativeExecution
  <2>3. SendsQueued'
    BY <1>21 DEF NativeRenew, DeliveryInv, SendsQueued
  <2> QED BY <2>1, <2>2, <2>3 DEF DeliveryInv
<1>22. ASSUME NativeAbort PROVE DeliveryInv'
  <2>1. Unannounced'
    BY <1>22 DEF NativeAbort, NoExecution, DeliveryInv, Unannounced
  <2>2. ResultSet'
    BY <1>22 DEF NativeAbort, NoExecution, ResultSet, BehindLatch
  <2>3. SendsQueued'
    BY <1>22 DEF NativeAbort, DeliveryInv, SendsQueued
  <2> QED BY <2>1, <2>2, <2>3 DEF DeliveryInv
<1>23. ASSUME NEW c \in nCalls, NativeEnqueue(c) PROVE DeliveryInv'
  <2>1. Unannounced'
    BY <1>23 DEF NativeEnqueue, DeliveryInv, Unannounced
  <2>2. ResultSet'
    BY <1>23 DEF NativeEnqueue, DeliveryInv, ResultSet
  <2>3. SendsQueued'
    BY <1>23 DEF NativeEnqueue, DeliveryInv, SendsQueued, NativeTypeOK, NativeSend
  <2> QED BY <2>1, <2>2, <2>3 DEF DeliveryInv
<1>24. ASSUME NativeHostRestart PROVE DeliveryInv'
  <2>1. Unannounced'
    BY <1>24 DEF NativeHostRestart, DeliveryInv, Unannounced
  <2>2. ResultSet'
    BY <1>24 DEF NativeHostRestart, DeliveryInv, ResultSet
  <2>3. SendsQueued'
    BY <1>24 DEF NativeHostRestart, DeliveryInv, SendsQueued
  <2> QED BY <2>1, <2>2, <2>3 DEF DeliveryInv
<1>25. ASSUME NEW t \in ReplyTexts, NativeReplyAsk(t) PROVE DeliveryInv'
  <2>1. Unannounced'
    BY <1>25 DEF NativeReplyAsk, DeliveryInv, Unannounced
  <2>2. ResultSet'
    BY <1>25 DEF NativeReplyAsk, DeliveryInv, ResultSet
  <2>3. SendsQueued'
    BY <1>25 DEF NativeReplyAsk, DeliveryInv, SendsQueued
  <2> QED BY <2>1, <2>2, <2>3 DEF DeliveryInv
<1>26. ASSUME NEW s \in nSends, NativeReplySend(s) PROVE DeliveryInv'
  <2>1. Unannounced'
    BY <1>26 DEF NativeReplySend, DeliveryInv, Unannounced
  <2>2. ResultSet'
    BY <1>26 DEF NativeReplySend, DeliveryInv, ResultSet
  <2>3. SendsQueued'
    BY <1>26 DEF NativeReplySend, DeliveryInv, SendsQueued, NativeTypeOK, NativeSend
  <2> QED BY <2>1, <2>2, <2>3 DEF DeliveryInv
<1>27. ASSUME NEW s \in nSends, NativeReplySettle(s) PROVE DeliveryInv'
  <2>1. Unannounced'
    BY <1>27 DEF NativeReplySettle, DeliveryInv, Unannounced
  <2>2. ResultSet'
    BY <1>27 DEF NativeReplySettle, DeliveryInv, ResultSet
  <2>3. SendsQueued'
    BY <1>27 DEF NativeReplySettle, DeliveryInv, SendsQueued
  <2> QED BY <2>1, <2>2, <2>3 DEF DeliveryInv
<1>28. ASSUME UNCHANGED nativeVars PROVE DeliveryInv'
  BY <1>28 DEF nativeVars, DeliveryInv, Unannounced, ResultSet, SendsQueued
<1> QED BY <1>1, <1>2, <1>3, <1>4, <1>5, <1>6, <1>7, <1>8, <1>9, <1>10, <1>11, <1>12, <1>13,
       <1>14, <1>15, <1>16, <1>17, <1>18, <1>19, <1>20, <1>21, <1>22, <1>23, <1>24, <1>25,
       <1>26, <1>27, <1>28 DEF NativeNext, NativeExecute
\* All but these steps leave alone what a reader of Coordinate sees.
LEMMA QuietSteps ==
  ASSUME [NativeNext]_nativeVars
  PROVE  \/ UNCHANGED <<nJob, nQueued, nAsked>>
         \/ \E j \in NativeJobs : NativeExpire(j) \/ NativeCancel(j) \/ NativeClaim(j)
         \/ NativeRecordProgress \/ NativeReport \/ NativeRenew
         \/ \E c \in nCalls : NativeEnqueue(c)
         \/ \E s \in nSends : NativeReplySend(s)
BY DEF NativeNext, NativeExecute, nativeVars, nativeWorld, nativeDesktop, nativeReply, NativeTick,
  NativeEditProfile, NativeCrash, NativeStart, NativeReject, NativeObserve, NativeAttempt,
  NativePreflight, NativeOpenEndpoint, NativeRegister, NativeRecheck, NativeReconcile,
  NativeQueueCall, NativeAwaitAck, NativeClose, NativeAbort, NativeHostRestart, NativeReplyAsk,
  NativeReplySettle

\* A write that keeps every fate and every record is not seen.
LEMMA UnseenWrite ==
  ASSUME nQueued' = nQueued, nAsked' = nAsked,
         \A j \in NativeJobs : /\ Fate(nJob'[j].status) = Fate(nJob[j].status)
                               /\ nJob'[j].progress # 0 <=> nJob[j].progress # 0
  PROVE  UNCHANGED Delivery!vars
<1>1. NativeFate' = NativeFate
  BY DEF NativeFate
<1>2. NativeDelivered' = NativeDelivered
  BY DEF NativeDelivered
<1> QED BY <1>1, <1>2 DEF Delivery!vars

\* A write that ends an open job and keeps the records.
LEMMA EndingWrite ==
  ASSUME NativeTypeOK, NEW j \in NativeJobs, NEW status \in NativeStatus,
         Fate(nJob[j].status) = "open",
         nJob' \in [NativeJobs -> NativeRow],
         \A k \in NativeJobs : /\ nJob'[k].status = IF k = j THEN status ELSE nJob[k].status
                               /\ nJob'[k].progress = nJob[k].progress,
         nQueued' = nQueued, nAsked' = nAsked
  PROVE  Delivery!Ends(j, Fate(status))
<1>1. NativeFate' = [NativeFate EXCEPT ![j] = Fate(status)]
  BY DEF NativeFate
<1>2. NativeDelivered' = NativeDelivered
  BY DEF NativeDelivered
<1>3. NativeFate[j] = "open"
  BY DEF NativeFate
<1> QED BY <1>1, <1>2, <1>3 DEF Delivery!Ends

\* The initial states of the hand over are initial for NativeDelivery.
LEMMA DeliveryInitially == NativeInit => Delivery!Init /\ DeliveryInv
<1> SUFFICES ASSUME NativeInit PROVE Delivery!Init /\ DeliveryInv
  OBVIOUS
<1>1. Delivery!Init
  BY DEF NativeInit, Delivery!Init, NativeFate, NativeDelivered, Fate
<1>2. PICK j \in NativeJobs : nRun = NoExecution(j)
  BY DEF NativeInit
<1>3. DeliveryInv
  BY <1>2 DEF NativeInit, NoExecution, DeliveryInv, Unannounced, ResultSet, SendsQueued,
     UpToLatch, BehindLatch
<1> QED BY <1>1, <1>3

\* Every step is one of NativeDelivery's, or not seen.
LEMMA DeliverySimulated ==
  ASSUME NativeInv, DeliveryInv, NativeTypeOK', [NativeNext]_nativeVars
  PROVE  [Delivery!Next]_(Delivery!vars)
<1> DEFINE Seen == Delivery!Next \/ UNCHANGED Delivery!vars
<1> SUFFICES Seen
  OBVIOUS
<1> USE DEF NativeInv, nativeWorld, nativeDesktop, nativeReply
<1>t. /\ nJob \in [NativeJobs -> NativeRow] /\ nJob' \in [NativeJobs -> NativeRow]
      /\ nRun \in NativeExecution /\ nQueued \in [NativeJobs -> Nat]
      /\ nAsked \in [NativeJobs -> SUBSET ReplyTexts] /\ nRun.job \in NativeJobs
      /\ nSends \in SUBSET NativeSend /\ nCalls \in SUBSET NativeCall
  BY DEF NativeTypeOK, NativeExecution
<1>1. CASE UNCHANGED <<nJob, nQueued, nAsked>>
  BY <1>1, UnseenWrite
<1>2. ASSUME NEW j \in NativeJobs, NativeExpire(j) PROVE Seen
  <2>1. nJob' = [nJob EXCEPT ![j].status = "pending"] /\ nJob[j].status = "running"
    BY <1>2 DEF NativeExpire
  <2>2. \A k \in NativeJobs : /\ Fate(nJob'[k].status) = Fate(nJob[k].status)
                              /\ nJob'[k].progress = nJob[k].progress
    BY <1>t, <2>1 DEF Fate, NativeRow
  <2> QED BY <1>2, <2>2, UnseenWrite DEF NativeExpire
<1>3. ASSUME NEW j \in NativeJobs, NativeCancel(j) PROVE Seen
  <2>1. nJob' = [nJob EXCEPT ![j].status = "cancelled"] /\ Fate(nJob[j].status) = "open"
    BY <1>3 DEF NativeCancel, Fate
  <2>2. \A k \in NativeJobs :
          /\ nJob'[k].status = IF k = j THEN "cancelled" ELSE nJob[k].status
          /\ nJob'[k].progress = nJob[k].progress
    BY <1>t, <2>1 DEF NativeRow
  <2>3. "cancelled" \in NativeStatus /\ Fate("cancelled") = "cancelled"
    BY DEF NativeStatus, Fate
  <2>4. nQueued' = nQueued /\ nAsked' = nAsked
    BY <1>3 DEF NativeCancel
  <2>5. Delivery!Ends(j, "cancelled")
    BY <1>t, <2>1, <2>2, <2>3, <2>4, EndingWrite
  <2> QED BY <2>5 DEF Delivery!Next, Delivery!Cancel
<1>4. ASSUME NEW j \in NativeJobs, NativeClaim(j) PROVE Seen
  <2>1. /\ nJob' = [nJob EXCEPT ![j] = [@ EXCEPT !.status = "running",
                   !.attempt = nJob[j].attempt + 1, !.expires = nClock + NativeTTL]]
        /\ nJob[j].status = "pending"
    BY <1>4 DEF NativeClaim
  <2>2. \A k \in NativeJobs : /\ Fate(nJob'[k].status) = Fate(nJob[k].status)
                              /\ nJob'[k].progress = nJob[k].progress
    BY <1>t, <2>1 DEF Fate, NativeRow
  <2> QED BY <1>4, <2>2, UnseenWrite DEF NativeClaim
<1>5. CASE NativeRecordProgress
  <2>1. CASE nJob' = nJob
    BY <1>5, <2>1, UnseenWrite DEF NativeRecordProgress
  <2>2. CASE nJob' = [nJob EXCEPT ![nRun.job].progress = nRun.token] /\ NativeFenced(nRun.job, nRun.token)
    <3> DEFINE j == nRun.job
    <3>1. nRun.pc = "latch" /\ nQueued' = nQueued /\ nAsked' = nAsked
      BY <1>5 DEF NativeRecordProgress
    <3>2. nRun.token = 1 /\ nJob[j].progress = 0 /\ nQueued[j] = 0
      BY <1>t, <3>1 DEF QueueInv, FirstAttemptOnly, FirstSteps, NotCalledYet, NativeCalled,
         BeforeQueue, DeliveryInv, Unannounced, UpToLatch
    <3>3. \A k \in NativeJobs :
            /\ nJob'[k].status = nJob[k].status
            /\ nJob'[k].progress = IF k = j THEN 1 ELSE nJob[k].progress
      BY <1>t, <2>2, <3>2 DEF NativeRow
    <3>4. NativeFate' = NativeFate
      BY <3>3 DEF NativeFate
    <3>5. NativeDelivered' = [NativeDelivered EXCEPT ![j] = "possible"] /\ NativeDelivered[j] = "none"
      BY <1>t, <3>1, <3>2, <3>3 DEF NativeDelivered
    <3>6. NativeFate[j] = "open"
      BY <1>t, <2>2 DEF NativeFate, NativeFenced, NativeLive, Fate
    <3>7. Delivery!Announce(j)
      BY <3>1, <3>4, <3>5, <3>6 DEF Delivery!Announce
    <3> QED BY <1>t, <3>7 DEF Delivery!Next
  <2> QED BY <1>5, <2>1, <2>2 DEF NativeRecordProgress
<1>6. CASE NativeReport
  <2>1. CASE nJob' = nJob
    BY <1>6, <2>1, UnseenWrite DEF NativeReport
  <2>2. CASE /\ nJob' = [nJob EXCEPT ![nRun.job] = [@ EXCEPT !.status = nRun.result,
                                       !.evidence = ReportedEvidence]]
             /\ NativeFenced(nRun.job, nRun.token)
    <3> DEFINE j == nRun.job
    <3>1. nRun.pc = "report" /\ nQueued' = nQueued /\ nAsked' = nAsked
      BY <1>6 DEF NativeReport
    <3>2. nRun.result \in {"failed", "timed_out", "done"} /\ nRun.result \in NativeStatus
      BY <3>1 DEF DeliveryInv, ResultSet, NativeStatus
    <3>3. Fate(nJob[j].status) = "open"
      BY <2>2 DEF NativeFenced, NativeLive, Fate
    <3>4. \A k \in NativeJobs :
            /\ nJob'[k].status = IF k = j THEN nRun.result ELSE nJob[k].status
            /\ nJob'[k].progress = nJob[k].progress
      BY <1>t, <2>2 DEF NativeRow
    <3>5. Delivery!Ends(j, Fate(nRun.result))
      BY <1>t, <3>1, <3>2, <3>3, <3>4, EndingWrite
    <3>6. CASE nRun.result = "failed"
      <4>1. ~NativeCalled(j) /\ nJob[j].progress = 0
        BY <3>6 DEF QueueInv, RejectedUncalled, DeliveryInv, Unannounced
      <4>2. NativeDelivered[j] = "none"
        BY <1>t, <4>1 DEF NativeDelivered, NativeCalled
      <4>3. Delivery!Reject(j)
        BY <3>5, <3>6, <4>2 DEF Delivery!Reject, Fate
      <4> QED BY <1>t, <4>3 DEF Delivery!Next
    <3>7. CASE nRun.result = "timed_out"
      <4>1. Delivery!GiveUp(j)
        BY <3>5, <3>7 DEF Delivery!GiveUp, Fate
      <4> QED BY <1>t, <4>1 DEF Delivery!Next
    <3>8. CASE nRun.result = "done"
      <4>1. nAsked[j] # {}
        BY <3>8 DEF ReplyInv, RepliedBefore
      <4>2. Delivery!Complete(j)
        BY <3>5, <3>8, <4>1 DEF Delivery!Complete, Fate
      <4> QED BY <1>t, <4>2 DEF Delivery!Next
    <3> QED BY <3>2, <3>6, <3>7, <3>8
  <2> QED BY <1>6, <2>1, <2>2 DEF NativeReport
<1>7. CASE NativeRenew
  <2>1. \A k \in NativeJobs : /\ nJob'[k].status = nJob[k].status
                              /\ nJob'[k].progress = nJob[k].progress
    BY <1>t, <1>7 DEF NativeRenew, NativeRow
  <2> QED BY <1>7, <2>1, UnseenWrite DEF NativeRenew
<1>8. ASSUME NEW c \in nCalls, NativeEnqueue(c) PROVE Seen
  <2>1. CASE nQueued' = nQueued
    BY <1>8, <2>1, UnseenWrite DEF NativeEnqueue
  <2>2. CASE nQueued' = [nQueued EXCEPT ![c.job] = @ + 1]
    <3>1. c.job \in NativeJobs /\ nJob' = nJob /\ nAsked' = nAsked
      BY <1>t, <1>8 DEF NativeEnqueue, NativeCall
    <3>2. nJob[c.job].progress # 0 /\ nQueued[c.job] = 0
      BY <3>1 DEF QueueInv, EnqueueIsTraceable, AtMostOneEnqueue, NativeCalled
    <3>3. \A k \in NativeJobs : nQueued'[k] = IF k = c.job THEN 1 ELSE nQueued[k]
      BY <1>t, <2>2, <3>1, <3>2
    <3>4. /\ NativeDelivered' = [NativeDelivered EXCEPT ![c.job] = "queued"]
          /\ NativeDelivered[c.job] = "possible"
      BY <1>t, <3>1, <3>2, <3>3 DEF NativeDelivered
    <3>5. NativeFate' = NativeFate
      BY <3>1 DEF NativeFate
    <3>6. Delivery!Deliver(c.job)
      BY <3>1, <3>4, <3>5 DEF Delivery!Deliver
    <3> QED BY <3>1, <3>6 DEF Delivery!Next
  <2> QED BY <1>8, <2>1, <2>2 DEF NativeEnqueue
<1>9. ASSUME NEW s \in nSends, NativeReplySend(s) PROVE Seen
  <2>1. /\ s.job \in NativeJobs /\ s.text \in ReplyTexts /\ nJob' = nJob /\ nQueued' = nQueued
        /\ nAsked' = [nAsked EXCEPT ![s.job] = @ \cup {s.text}]
    BY <1>t, <1>9 DEF NativeReplySend, NativeSend
  <2>2. nAsked[s.job] \subseteq {s.text}
    BY <1>t, <2>1 DEF ReplyInv, OneText, Told
  <2>3. nAsked' = [nAsked EXCEPT ![s.job] = {s.text}]
    BY <2>1, <2>2
  <2>4. NativeDelivered[s.job] = "queued"
    <3>1. nQueued[s.job] = 1
      BY <1>t, <2>1 DEF QueueInv, AtMostOneEnqueue, DeliveryInv, SendsQueued
    <3> QED BY <2>1, <3>1 DEF NativeDelivered
  <2>5. NativeFate' = NativeFate /\ NativeDelivered' = NativeDelivered
    BY <2>1 DEF NativeFate, NativeDelivered
  <2>6. Delivery!Answer(s.job, s.text)
    BY <2>2, <2>3, <2>4, <2>5 DEF Delivery!Answer
  <2> QED BY <2>1, <2>6 DEF Delivery!Next
<1> QED BY <1>1, <1>2, <1>3, <1>4, <1>5, <1>6, <1>7, <1>8, <1>9, QuietSteps

\* Across attempts, expired leases, crashes, lost answers and late calls the hand
\* over of a job does what NativeDelivery says: process_native_job and
\* execute_native_job, for every set of jobs and texts.
THEOREM DeliveryRefined == NativeSpec => ImplementsDelivery
<1>1. NativeInv /\ DeliveryInv /\ [NativeNext]_nativeVars => NativeInv' /\ DeliveryInv'
  BY NativeTypeStep, QueueStep, ReplyStep, LeaseStep, DeliveryStep DEF NativeInv
<1>2. NativeInit => NativeInv /\ DeliveryInv /\ Delivery!Init
  BY NativeInitially, DeliveryInitially
<1>3. NativeInv /\ NativeInv' /\ DeliveryInv /\ [NativeNext]_nativeVars
        => [Delivery!Next]_(Delivery!vars)
  BY DeliverySimulated DEF NativeInv
<1> QED BY <1>1, <1>2, <1>3, PTL DEF NativeSpec, ImplementsDelivery, Delivery!Spec

\* A job reported as rejected did not reach the desktop, nor can it.
RejectedUndelivered ==
  \A j \in NativeJobs : NativeFate[j] = "rejected" => NativeDelivered[j] = "none"

\* What a reader of Coordinate learnt of a job stays true: an ended job keeps its
\* end, one that was queued stays queued, one that was answered is told nothing else.
ReadersStayInformed ==
  [][\A j \in NativeJobs :
       /\ NativeFate[j] # "open" => NativeFate'[j] = NativeFate[j]
       /\ NativeDelivered[j] = "queued" => NativeDelivered'[j] = "queued"
       /\ nAsked[j] # {} => nAsked'[j] = nAsked[j]]_nativeVars

\* No step of NativeDelivery takes back what a reader learnt.
LEMMA DeliveryFinal ==
  ASSUME [Delivery!Next]_(Delivery!vars), NEW j \in NativeJobs
  PROVE  /\ NativeFate[j] # "open" => NativeFate'[j] = NativeFate[j]
         /\ NativeDelivered[j] = "queued" => NativeDelivered'[j] = "queued"
         /\ nAsked[j] # {} => nAsked'[j] = nAsked[j]
         /\ RejectedUndelivered => (NativeFate'[j] = "rejected" => NativeDelivered'[j] = "none")
<1> DEFINE Kept == /\ NativeFate[j] # "open" => NativeFate'[j] = NativeFate[j]
                   /\ NativeDelivered[j] = "queued" => NativeDelivered'[j] = "queued"
                   /\ nAsked[j] # {} => nAsked'[j] = nAsked[j]
                   /\ RejectedUndelivered =>
                        (NativeFate'[j] = "rejected" => NativeDelivered'[j] = "none")
<1>1. CASE UNCHANGED Delivery!vars
  BY <1>1 DEF Delivery!vars, RejectedUndelivered
<1>2. ASSUME NEW i \in NativeJobs, Delivery!Announce(i) PROVE Kept
  BY <1>2 DEF Delivery!Announce, RejectedUndelivered
<1>3. ASSUME NEW i \in NativeJobs, Delivery!Deliver(i) PROVE Kept
  BY <1>3 DEF Delivery!Deliver, RejectedUndelivered
<1>4. ASSUME NEW i \in NativeJobs, NEW t \in ReplyTexts, Delivery!Answer(i, t) PROVE Kept
  BY <1>4 DEF Delivery!Answer, RejectedUndelivered
<1>5. ASSUME NEW i \in NativeJobs, Delivery!Reject(i) PROVE Kept
  BY <1>5 DEF Delivery!Reject, Delivery!Ends, RejectedUndelivered
<1>6. ASSUME NEW i \in NativeJobs, NEW f \in {"done", "uncertain", "cancelled"},
             Delivery!Ends(i, f)
      PROVE  Kept
  BY <1>6 DEF Delivery!Ends, RejectedUndelivered
<1> QED
  BY <1>1, <1>2, <1>3, <1>4, <1>5, <1>6
  DEF Delivery!Next, Delivery!Complete, Delivery!GiveUp, Delivery!Cancel

\* Neither late calls nor renewed leases nor another attempt unsettle what the
\* status, the progress record and the channel said (process_native_job), by way of
\* NativeDelivery.
THEOREM ReadersInformed == NativeSpec => ReadersStayInformed /\ []RejectedUndelivered
<1>1. Delivery!Init => RejectedUndelivered
  BY DEF Delivery!Init, RejectedUndelivered
<1>2. RejectedUndelivered /\ [Delivery!Next]_(Delivery!vars) => RejectedUndelivered'
  BY DeliveryFinal DEF RejectedUndelivered
<1>3. [Delivery!Next]_(Delivery!vars) =>
        \A j \in NativeJobs :
          /\ NativeFate[j] # "open" => NativeFate'[j] = NativeFate[j]
          /\ NativeDelivered[j] = "queued" => NativeDelivered'[j] = "queued"
          /\ nAsked[j] # {} => nAsked'[j] = nAsked[j]
  BY DeliveryFinal
<1> QED
  BY <1>1, <1>2, <1>3, DeliveryRefined, PTL
  DEF ImplementsDelivery, Delivery!Spec, ReadersStayInformed
=============================================================================
