---------------------------- MODULE DesktopNative ----------------------------
(***************************************************************************)
(* The hand over of a job to the session of a native desktop application:  *)
(* process_native_job, execute_native_job, the reply endpoint ActiveReply,  *)
(* and what they ask of Coordinate and of the desktop.  The desktop has no  *)
(* cancellation and no deduplication that outlives its scope, so the worker *)
(* must call the queue of a job at most once, whatever crashes or is lost.  *)
(* One worker process serves one agent, one job at a time.                  *)
(***************************************************************************)
EXTENDS Integers

CONSTANTS NativeJobs,      \* jobs assigned to the desktop agent
          ReplyTexts,      \* texts the native session may answer with
          NoText,          \* no reply digest was fixed yet
          NativeTTL,       \* lifetime of a lease
          NativeAttempts,  \* bound: claims of one job
          NativeMaxTime    \* bound: the clock stops here

ASSUME NativeConstants ==
  /\ NativeTTL \in Nat \ {0} /\ NativeAttempts \in Nat /\ NativeMaxTime \in Nat
  /\ NoText \notin ReplyTexts

VARIABLES
  nKind,       \* kind of the binding: codex or dsh
  nClock,      \* the time, the same for the worker and Coordinate
  nJob,        \* Coordinate's row of each job
  nProfileOk,  \* the private profile is the one the worker loaded
  nUp,         \* the worker process runs
  nAttempted,  \* DesktopNativeAdapter.attempted_jobs, lost with the process
  nRun,        \* execute_native_job of the current job
  nReply,      \* the reply endpoint of the current job
  nSends,      \* channel sends in worker threads, which nothing cancels
  nCalls,      \* queue calls on their way to the desktop
  nScopes,     \* scopes the desktop host holds open
  nQueued,     \* how often the desktop queued each job
  nAsked       \* reply texts sent to the channel under the key of each job

nativeVars == <<nKind, nClock, nJob, nProfileOk, nUp, nAttempted, nRun, nReply,
                nSends, nCalls, nScopes, nQueued, nAsked>>
nativeWorld == <<nKind, nClock, nJob, nProfileOk>>
nativeDesktop == <<nCalls, nScopes, nQueued>>
nativeReply == <<nReply, nSends, nAsked>>

NativeStatus == {"pending", "running", "done", "failed", "timed_out", "cancelled"}
NativePc == {"idle", "validate", "preflight", "endpoint", "latch", "register",
             "recheck", "answer", "await", "close", "report"}

\* progress is the attempt that recorded native_enqueue_started, 0 if none;
\* evidence is the attempt whose record the terminal report named, 0 if none.
NativeRow == [status : NativeStatus, attempt : Nat, expires : Nat,
              progress : Nat, evidence : Nat]
NativeExecution == [pc : NativePc, job : NativeJobs, token : Nat, seen : Nat,
                    latched : BOOLEAN, lost : BOOLEAN, started : Nat,
                    current : BOOLEAN, left : Int, result : NativeStatus]
NativeEndpoint == [active : BOOLEAN, digest : ReplyTexts \cup {NoText},
                   acknowledged : BOOLEAN]
NativeCall == [job : NativeJobs, token : Nat]
NativeSend == [job : NativeJobs, text : ReplyTexts, sent : BOOLEAN]

NativeTypeOK ==
  /\ nKind \in {"codex", "dsh"}
  /\ nClock \in Nat
  /\ nJob \in [NativeJobs -> NativeRow]
  /\ nProfileOk \in BOOLEAN
  /\ nUp \in BOOLEAN
  /\ nAttempted \in SUBSET NativeJobs
  /\ nRun \in NativeExecution
  /\ nReply \in NativeEndpoint
  /\ nSends \in SUBSET NativeSend
  /\ nCalls \in SUBSET NativeCall
  /\ nScopes \in SUBSET NativeCall
  /\ nQueued \in [NativeJobs -> Nat]
  /\ nAsked \in [NativeJobs -> SUBSET ReplyTexts]

NoExecution(j) ==
  [pc |-> "idle", job |-> j, token |-> 0, seen |-> 0, latched |-> FALSE,
   lost |-> FALSE, started |-> 0, current |-> FALSE, left |-> 0, result |-> "pending"]
NoEndpoint == [active |-> FALSE, digest |-> NoText, acknowledged |-> FALSE]

NativeInit ==
  /\ nKind \in {"codex", "dsh"}
  /\ nClock = 0
  /\ nJob = [j \in NativeJobs |-> [status |-> "pending", attempt |-> 0, expires |-> 0,
                                   progress |-> 0, evidence |-> 0]]
  /\ nProfileOk = TRUE
  /\ nUp = TRUE
  /\ nAttempted = {}
  /\ \E j \in NativeJobs : nRun = NoExecution(j)
  /\ nReply = NoEndpoint
  /\ nSends = {} /\ nCalls = {} /\ nScopes = {}
  /\ nQueued = [j \in NativeJobs |-> 0]
  /\ nAsked = [j \in NativeJobs |-> {}]

----------------------------------------------------------------------------
\* Coordinate and the operator

NativeLive(j) == nJob[j].status = "running" /\ nClock < nJob[j].expires

\* Coordinate accepts a write of an attempt under its own running lease.
NativeFenced(j, token) == NativeLive(j) /\ nJob[j].attempt = token

\* An expired lease makes the job claimable again.
NativeExpire(j) ==
  /\ nJob[j].status = "running" /\ ~NativeLive(j)
  /\ nJob' = [nJob EXCEPT ![j].status = "pending"]
  /\ UNCHANGED <<nKind, nClock, nProfileOk, nUp, nAttempted, nRun, nativeReply, nativeDesktop>>

\* An operator cancels a job that is not terminal.
NativeCancel(j) ==
  /\ nJob[j].status \in {"pending", "running"}
  /\ nJob' = [nJob EXCEPT ![j].status = "cancelled"]
  /\ UNCHANGED <<nKind, nClock, nProfileOk, nUp, nAttempted, nRun, nativeReply, nativeDesktop>>

NativeTick ==
  /\ nClock < NativeMaxTime
  /\ nClock' = nClock + 1
  /\ UNCHANGED <<nKind, nJob, nProfileOk, nUp, nAttempted, nRun, nativeReply, nativeDesktop>>

\* The operator edits the private profile or one of its credential files.
NativeEditProfile ==
  /\ nProfileOk' = ~nProfileOk
  /\ UNCHANGED <<nKind, nClock, nJob, nUp, nAttempted, nRun, nativeReply, nativeDesktop>>

----------------------------------------------------------------------------
\* The worker process

\* load_profile and credential_config are read again and must equal what the
\* adapter loaded at start (NativeIdentityError otherwise).
ConfigurationUnchanged == nProfileOk

Step(pc) == nRun' = [nRun EXCEPT !.pc = pc]
Finish(result) == nRun' = [nRun EXCEPT !.pc = "close", !.result = result]

\* _prior_progress: the record of an earlier attempt that the claimed row shows.
PriorProgress(j) == nJob[j].progress

NativeClaim(j) ==
  /\ nUp /\ nRun.pc = "idle"
  /\ nJob[j].status = "pending" /\ nJob[j].attempt < NativeAttempts
  /\ nJob' = [nJob EXCEPT ![j] = [@ EXCEPT !.status = "running",
             !.attempt = nJob[j].attempt + 1, !.expires = nClock + NativeTTL]]
  /\ nRun' = [NoExecution(j) EXCEPT !.pc = "validate", !.token = nJob[j].attempt + 1,
                                    !.seen = PriorProgress(j)]
  /\ UNCHANGED <<nKind, nClock, nProfileOk, nUp, nAttempted, nativeReply, nativeDesktop>>

\* Mutant: only the memory of this process counts as evidence.
HasAttemptEvidence_Memory == nRun.job \in nAttempted

\* _has_attempt_evidence: persisted progress or a later attempt, even if
\* the progress itself is lost or malformed.
HasAttemptEvidence == nRun.seen # 0 \/ nRun.token # 1

\* Mutant: a failed validation always rejects the request.
ValidationResult_Reject == "failed"

\* Mutant: the delivery state takes the place of the job's status.
ValidationResult_Delivery == IF HasAttemptEvidence THEN "uncertain" ELSE "rejected"

\* native_validation_result: without evidence nothing was queued and the
\* request is rejected; otherwise its delivery stays uncertain.
ValidationResult == IF HasAttemptEvidence THEN "timed_out" ELSE "failed"

\* _original_evidence: the record the claimed row shows, or nothing when the
\* payload, the binding it carries or the record itself cannot be validated.
OriginalEvidence == {0, nRun.seen}

\* _report_claim_job refuses the claim, or _validate_request the request: it
\* does not fit its binding, or the profile changed.
NativeReject ==
  /\ nRun.pc = "validate"
  /\ \E original \in OriginalEvidence :
       nRun' = [nRun EXCEPT !.pc = "report", !.result = ValidationResult, !.seen = original]
  /\ UNCHANGED <<nativeWorld, nUp, nAttempted, nativeReply, nativeDesktop>>

NativeScope == [job |-> nRun.job, token |-> nRun.token]

\* A later attempt only observes: on a dsh host, and with the original record, it
\* registers a scope of its own, queries and closes it; a close that fails leaves
\* the scope open.
NativeObserve ==
  /\ nRun.pc = "validate" /\ ConfigurationUnchanged /\ HasAttemptEvidence
  /\ \E original \in OriginalEvidence :
       /\ nRun' = [nRun EXCEPT !.pc = "report", !.result = "timed_out", !.seen = original]
       /\ \/ UNCHANGED nScopes
          \/ /\ nKind = "dsh" /\ original # 0 /\ ~nRun.lost
             /\ \A s \in nScopes : s.job # nRun.job
             /\ nScopes' = nScopes \cup {NativeScope}
  /\ UNCHANGED <<nativeWorld, nUp, nAttempted, nativeReply, nCalls, nQueued>>

\* The first attempt takes the adapter's lock; a job this process attempted
\* already is not attempted again.
NativeAttempt ==
  /\ nRun.pc = "validate" /\ ConfigurationUnchanged /\ ~HasAttemptEvidence
  /\ IF nRun.job \in nAttempted
     THEN Finish("timed_out") /\ UNCHANGED nAttempted
     ELSE Step("preflight") /\ nAttempted' = nAttempted \cup {nRun.job}
  /\ UNCHANGED <<nativeWorld, nUp, nativeReply, nativeDesktop>>

\* inspect: the thread is the bound one, it is another one, or nothing is known.
Inspection == {"bound", "other", "unavailable"}

\* preflight: a changed configuration or another native session is a definite
\* mismatch and rejects the request, any other failure is uncertain.
NativePreflight ==
  /\ nRun.pc = "preflight"
  /\ \E found \in Inspection :
       IF ~ConfigurationUnchanged \/ found = "other" THEN Finish("failed")
       ELSE IF found = "unavailable" THEN Finish("timed_out") ELSE Step("endpoint")
  /\ UNCHANGED <<nativeWorld, nUp, nAttempted, nativeReply, nativeDesktop>>

\* ActiveReply.__aenter__, which may fail; a lease that was lost meanwhile ends
\* the attempt.
NativeOpenEndpoint ==
  /\ nRun.pc = "endpoint"
  /\ \/ Finish("timed_out") /\ UNCHANGED nReply
     \/ ~nRun.lost /\ Step("latch") /\ nReply' = [NoEndpoint EXCEPT !.active = TRUE]
  /\ UNCHANGED <<nativeWorld, nUp, nAttempted, nSends, nAsked, nativeDesktop>>

\* Mutant: an answer that failed to arrive does not stop the attempt.
Latched_Unread(recorded, answered) == TRUE

\* The attempt goes on only if it read its own record back.
Latched(recorded, answered) == recorded /\ answered /\ ~nRun.lost

\* record_progress: Coordinate may record and the answer be lost; a stale
\* attempt is refused.
NativeRecordProgress ==
  /\ nRun.pc = "latch"
  /\ \E recorded, answered \in BOOLEAN :
       /\ recorded => NativeFenced(nRun.job, nRun.token)
       /\ nJob' = IF recorded THEN [nJob EXCEPT ![nRun.job].progress = nRun.token] ELSE nJob
       /\ nRun' = [nRun EXCEPT !.latched = TRUE,
                    !.pc = IF Latched(recorded, answered)
                           THEN IF nKind = "dsh" THEN "register" ELSE "recheck"
                           ELSE "close",
                    !.result = "timed_out"]
  /\ UNCHANGED <<nKind, nClock, nProfileOk, nUp, nAttempted, nativeReply, nativeDesktop>>

\* register_scope: the host refuses a second scope of one job.
NativeRegister ==
  /\ nRun.pc = "register"
  /\ \/ /\ \A s \in nScopes : s.job # nRun.job
        /\ nScopes' = nScopes \cup {NativeScope}
        /\ Step("recheck")
     \/ Finish("timed_out") /\ UNCHANGED nScopes
  /\ UNCHANGED <<nativeWorld, nUp, nAttempted, nativeReply, nCalls, nQueued>>

\* _confirm_enqueue_authority, the call: the time is taken first.
NativeRecheck ==
  /\ nRun.pc = "recheck"
  /\ nRun' = IF nRun.lost THEN [nRun EXCEPT !.pc = "close"]
             ELSE [nRun EXCEPT !.pc = "answer", !.started = nClock, !.current = FALSE]
  /\ UNCHANGED <<nativeWorld, nUp, nAttempted, nativeReply, nativeDesktop>>

\* reconcile_agent: what Coordinate says of the lease when it serves the call.  Its
\* timestamps drop fractions of a second; the renewal supervisor declares the
\* lease lost whole seconds before its end, which is more.
NativeReconcile ==
  /\ nRun.pc = "answer" /\ ~nRun.current
  /\ NativeFenced(nRun.job, nRun.token)
  /\ nRun' = [nRun EXCEPT !.current = TRUE, !.left = nJob[nRun.job].expires - nClock]
  /\ UNCHANGED <<nativeWorld, nUp, nAttempted, nativeReply, nativeDesktop>>

\* Mutant: the time the answer took is not counted.
StillAuthorised_NoElapsed == nRun.current /\ nRun.left > 0 /\ ~nRun.lost

\* The lease Coordinate named outlives the time the answer took.
StillAuthorised == nRun.current /\ nRun.left > nClock - nRun.started /\ ~nRun.lost

\* The answer arrives or fails.  An authority that is not confirmed counts as
\* a lost lease; a confirmed one starts the only queue call.
NativeQueueCall ==
  /\ nRun.pc = "answer"
  /\ \/ /\ StillAuthorised
        /\ nCalls' = nCalls \cup {NativeScope}
        /\ Step("await")
     \/ /\ nRun' = [nRun EXCEPT !.pc = "close", !.lost = TRUE]
        /\ UNCHANGED nCalls
  /\ UNCHANGED <<nativeWorld, nUp, nAttempted, nativeReply, nScopes, nQueued>>

\* Mutant: the answer of the queue call already completes the job.
Completed_OnQueue == nQueued[nRun.job] > 0 \/ nReply.acknowledged

\* Only the acknowledged reply completes the job.
Completed == nReply.acknowledged

\* asyncio.wait_for(endpoint.acknowledged.wait(), timeout).
NativeAwaitAck ==
  /\ nRun.pc = "await"
  /\ \/ Completed /\ Finish("done")
     \/ Finish("timed_out")
  /\ UNCHANGED <<nativeWorld, nUp, nAttempted, nativeReply, nativeDesktop>>

\* ActiveReply.__aexit__ and close_scope, whose failure is ignored.
CloseEverything ==
  /\ nReply' = [nReply EXCEPT !.active = FALSE]
  /\ \/ nScopes' = nScopes \ {NativeScope}
     \/ UNCHANGED nScopes

NativeClose ==
  /\ nRun.pc = "close"
  /\ Step("report")
  /\ CloseEverything
  /\ UNCHANGED <<nativeWorld, nUp, nAttempted, nSends, nAsked, nCalls, nQueued>>

\* _result: a report names the record of this attempt, or the original evidence.
ReportedEvidence == IF nRun.latched THEN nRun.token ELSE nRun.seen

\* report_job, unless the lease is lost; the call may be lost or refused.
NativeReport ==
  /\ nRun.pc = "report" /\ ~nRun.lost
  /\ \/ /\ NativeFenced(nRun.job, nRun.token)
        /\ nJob' = [nJob EXCEPT ![nRun.job] = [@ EXCEPT !.status = nRun.result,
                       !.evidence = ReportedEvidence]]
     \/ UNCHANGED nJob
  /\ nRun' = NoExecution(nRun.job)
  /\ UNCHANGED <<nKind, nClock, nProfileOk, nUp, nAttempted, nativeReply, nativeDesktop>>

\* The renewal supervisor extends the lease, or declares it lost.
NativeRenew ==
  /\ nRun.pc # "idle" /\ ~nRun.lost
  /\ \/ /\ NativeFenced(nRun.job, nRun.token)
        /\ nJob' = [nJob EXCEPT ![nRun.job].expires = nClock + NativeTTL]
        /\ UNCHANGED nRun
     \/ nRun' = [nRun EXCEPT !.lost = TRUE] /\ UNCHANGED nJob
  /\ UNCHANGED <<nKind, nClock, nProfileOk, nUp, nAttempted, nativeReply, nativeDesktop>>

\* process_native_job after a lost lease: the execution is cancelled at
\* whatever await it is in, its finally blocks run, nothing is reported.
NativeAbort ==
  /\ nRun.pc # "idle" /\ nRun.lost
  /\ nRun' = NoExecution(nRun.job)
  /\ CloseEverything
  /\ UNCHANGED <<nativeWorld, nUp, nAttempted, nSends, nAsked, nCalls, nQueued>>

\* The process dies: its memory and threads are gone, queue calls on their
\* way and scopes of the host are not.
NativeCrash ==
  /\ nUp
  /\ nUp' = FALSE /\ nAttempted' = {} /\ nSends' = {}
  /\ nRun' = NoExecution(nRun.job) /\ nReply' = NoEndpoint
  /\ UNCHANGED <<nativeWorld, nativeDesktop, nAsked>>

\* A new process: startup_check needs the profile it loaded.
NativeStart ==
  /\ ~nUp /\ ConfigurationUnchanged
  /\ nUp' = TRUE
  /\ UNCHANGED <<nativeWorld, nAttempted, nRun, nativeReply, nativeDesktop>>

----------------------------------------------------------------------------
\* The desktop and its reply

\* The desktop queues the message of a call, or the call is lost.  The dsh host
\* only serves the scope it holds.
NativeEnqueue(c) ==
  /\ c \in nCalls
  /\ nCalls' = nCalls \ {c}
  /\ \/ /\ nKind = "dsh" => c \in nScopes
        /\ nQueued' = [nQueued EXCEPT ![c.job] = @ + 1]
     \/ UNCHANGED nQueued
  /\ UNCHANGED <<nativeWorld, nUp, nAttempted, nRun, nativeReply, nScopes>>

\* The host restarts and forgets its scopes.
NativeHostRestart ==
  /\ nScopes # {}
  /\ nScopes' = {}
  /\ UNCHANGED <<nativeWorld, nUp, nAttempted, nRun, nativeReply, nCalls, nQueued>>

\* Mutant: a retry may change the text.
TextFits_Any(t) == t \in ReplyTexts

\* The first text asked for is the only one this endpoint will send.
TextFits(t) == nReply.digest \in {NoText, t}

\* ActiveReply.handle up to the send: the queued session answers through the
\* endpoint, whose digest is fixed before the send.
NativeReplyAsk(t) ==
  /\ nQueued[nRun.job] > 0
  /\ nReply.active /\ ~nRun.lost /\ TextFits(t) /\ ~nReply.acknowledged
  /\ ConfigurationUnchanged
  /\ nReply' = [nReply EXCEPT !.digest = t]
  /\ nSends' = nSends \cup {[job |-> nRun.job, text |-> t, sent |-> FALSE]}
  /\ UNCHANGED <<nativeWorld, nUp, nAttempted, nRun, nAsked, nativeDesktop>>

\* send_channel_reply in its thread; the send key is that of the job.
NativeReplySend(s) ==
  /\ s \in nSends /\ ~s.sent
  /\ nAsked' = [nAsked EXCEPT ![s.job] = @ \cup {s.text}]
  /\ nSends' = (nSends \ {s}) \cup {[s EXCEPT !.sent = TRUE]}
  /\ UNCHANGED <<nativeWorld, nUp, nAttempted, nRun, nReply, nativeDesktop>>

\* verified_receipt: the channel confirms the send under the sender's current
\* identity, or it does not.
Receipt == {"verified", "unverified"}

\* ActiveReply.handle after the send: a verified receipt settles the reply if the
\* endpoint is still active; a failed or unverified one, or a closed endpoint,
\* does not.
NativeReplySettle(s) ==
  /\ s \in nSends /\ s.sent
  /\ nSends' = nSends \ {s}
  /\ \E receipt \in Receipt :
       nReply' = IF receipt = "verified" /\ s.job = nRun.job /\ nReply.active /\ ~nRun.lost
                 THEN [nReply EXCEPT !.acknowledged = TRUE] ELSE nReply
  /\ UNCHANGED <<nativeWorld, nUp, nAttempted, nRun, nAsked, nativeDesktop>>

NativeExecute ==
  \/ NativeReject \/ NativeObserve \/ NativeAttempt \/ NativePreflight
  \/ NativeOpenEndpoint \/ NativeRecordProgress \/ NativeRegister \/ NativeRecheck
  \/ NativeReconcile \/ NativeQueueCall \/ NativeAwaitAck \/ NativeClose
  \/ NativeReport \/ NativeRenew \/ NativeAbort

NativeNext ==
  \/ \E j \in NativeJobs : NativeExpire(j) \/ NativeCancel(j) \/ NativeClaim(j)
  \/ NativeTick \/ NativeEditProfile \/ NativeCrash \/ NativeStart
  \/ NativeExecute
  \/ \E c \in nCalls : NativeEnqueue(c)
  \/ NativeHostRestart
  \/ \E t \in ReplyTexts : NativeReplyAsk(t)
  \/ \E s \in nSends : NativeReplySend(s) \/ NativeReplySettle(s)

NativeSpec == NativeInit /\ [][NativeNext]_nativeVars

----------------------------------------------------------------------------
NativeCalled(j) == nQueued[j] > 0 \/ \E c \in nCalls : c.job = j

\* A job reaches the desktop at most once, across lost answers, expired leases,
\* new attempts and crashes between the progress record and the queue call.
AtMostOneEnqueue ==
  /\ \A j \in NativeJobs : nQueued[j] <= 1
  /\ \A c \in nCalls : nQueued[c.job] = 0
  /\ \A c, d \in nCalls : c.job = d.job => c = d

\* Whatever reached the desktop left its record in Coordinate first and is never
\* reported as rejected, whichever attempt reports it and however little of the
\* claim that attempt can validate.  The report names no record but that one, and
\* a report of the attempt that made the call does name it; a later attempt may
\* name none.
EnqueueIsTraceable ==
  \A j \in NativeJobs : NativeCalled(j) =>
    LET job == nJob[j] IN
    /\ job.progress # 0
    /\ job.status # "failed"
    /\ job.evidence \in {0, job.progress}
    /\ job.status = "done" => job.evidence = job.progress
    /\ job.status = "timed_out" /\ job.attempt = job.progress => job.evidence = job.progress

\* A job is done only after its reply, and no other text, went to the channel.
DoneWasReplied ==
  \A j \in NativeJobs :
    /\ \A t, u \in nAsked[j] : t = u
    /\ nJob[j].status = "done" => nAsked[j] # {}

\* The queue call starts before the lease Coordinate granted runs out, although
\* the lease was read some time before.
CallsWithinLease ==
  [][\A c \in nCalls' \ nCalls : nClock < nJob[c.job].expires /\ nJob[c.job].attempt = c.token]_nativeVars

\* What the job's status and its progress record mean to a reader.
Fate(status) ==
  CASE status \in {"pending", "running"} -> "open"
    [] status = "failed" -> "rejected"
    [] status = "timed_out" -> "uncertain"
    [] OTHER -> status

NativeFate == [j \in NativeJobs |-> Fate(nJob[j].status)]
NativeDelivered ==
  [j \in NativeJobs |-> CASE nQueued[j] > 1 -> "repeated"
                          [] nQueued[j] = 1 -> "queued"
                          [] OTHER -> IF nJob[j].progress # 0 THEN "possible" ELSE "none"]

Delivery == INSTANCE NativeDelivery WITH
  Job <- NativeJobs, Text <- ReplyTexts,
  fate <- NativeFate, delivery <- NativeDelivered, said <- nAsked

\* Attempts, expired leases, crashes, lost answers and late calls together do what
\* NativeDelivery says: the states a reader of Coordinate sees come in its order.
ImplementsDelivery == Delivery!Spec
=============================================================================
