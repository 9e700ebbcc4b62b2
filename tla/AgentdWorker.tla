---------------------------- MODULE AgentdWorker ----------------------------
(***************************************************************************)
(* The agentd worker of one agent identity (multinexus/agentd/worker.py)   *)
(* and the part of Coordinate it talks to: the keyed claim loop with its    *)
(* uncertain, conflicting and rejected outcomes, the validation of a claim, *)
(* the provider started for it (fresh, session resume or recovery resume),  *)
(* the loss of its lease, and the fenced terminal report.                   *)
(*                                                                         *)
(* A process is one incarnation of `python -m multinexus.agentd`; several   *)
(* of them follow each other after stops, failures and crashes.  Requests   *)
(* are answered, answered without the answer arriving, or left on the wire  *)
(* and served later or never (late, lateReports, progressWire).  Coordinate *)
(* is external: its actions say what the client code and its tests rely on. *)
(* The clock of the lease is in LeaseRenewal; here it may expire any time.  *)
(***************************************************************************)
EXTENDS Naturals, FiniteSets

CONSTANTS Proc,         \* worker processes of the agent identity
          Job,          \* the jobs of the agent's queue
          Managed,      \* the jobs whose claims carry an execution lease
          NoJob,        \* "no claim in hand"
          FencedEmpty,  \* Coordinate closes a key it answered "not claimed"
          MaxSerial,    \* bound: claim keys a process may use
          MaxWire,      \* bound: requests on the wire nobody waits for
          MaxAttempts   \* bound: attempts Coordinate makes of one job

ASSUME ManagedIsSubset == Managed \subseteq Job
ASSUME NoJobIsNoJob    == NoJob \notin Job
ASSUME FencedIsBoolean == FencedEmpty \in BOOLEAN
ASSUME BoundsAreNat    == MaxSerial \in Nat /\ MaxAttempts \in Nat /\ MaxWire \in Nat

VARIABLES
  \* Coordinate
  jobStatus,     \* job -> pending, running, done, failed or timed_out
  attempt,       \* job -> its last attempt token
  keyClaim,      \* claim key -> the claim Coordinate recorded under it
  closed,        \* claim keys answered "not claimed" for good
  evidence,      \* <<job, attempt>> whose provider session id is on record
  \* requests whose sender no longer waits for the answer
  late,          \* claim requests
  lateReports,   \* terminal reports
  progressWire,  \* progress reports that carry a session id
  \* the worker processes
  pc,            \* where the process is in run() and _process_job()
  recovery,      \* process started in operator recovery mode
  serial,        \* number of the current claim_request_id of the process
  resp,          \* answer to the claim that is on its way back
  cur,           \* the claim being processed
  provider,      \* what the provider task is running
  result,        \* terminal status and session of the finished provider
  receipt,       \* answer to the report that is on its way back
  \* history
  executed,      \* <<job, attempt>> a provider was started for
  succeeded,     \* <<job, attempt>> whose provider returned success
  givenUp,       \* <<job, attempt>> dropped without a report
  saved          \* <<job, attempt>> whose session SessionStore keeps

coordinate == <<jobStatus, attempt, keyClaim, closed, evidence>>
wire       == <<late, lateReports, progressWire>>
worker     == <<pc, recovery, serial, resp, cur, provider, result, receipt>>
history    == <<executed, succeeded, givenUp, saved>>
vars       == <<coordinate, wire, worker, history>>

Attempt  == 0..MaxAttempts
Key      == Proc \X (1..MaxSerial)
Terminal == {"done", "failed", "timed_out"}
Claim    == [job: Job, attempt: Attempt, evid: BOOLEAN]
NoClaim  == [job |-> NoJob, attempt |-> 0, evid |-> FALSE]
Id(c)    == <<c.job, c.attempt>>

NoResp    == [kind |-> "none", claim |-> NoClaim]
NoResult  == [status |-> "none", sess |-> FALSE]
NoReceipt == [status |-> "none", attempt |-> 0]

Gone     == {"off", "exited", "failed"}
Alive(p) == pc[p] \notin Gone
KeyOf(p) == <<p, serial[p]>>

Init ==
  /\ jobStatus = [j \in Job |-> "pending"]
  /\ attempt = [j \in Job |-> 0]
  /\ keyClaim = [k \in Key |-> NoClaim]
  /\ closed = {} /\ evidence = {}
  /\ late = {} /\ lateReports = {} /\ progressWire = {}
  /\ pc = [p \in Proc |-> "off"]
  /\ recovery = [p \in Proc |-> FALSE]
  /\ serial = [p \in Proc |-> 1]
  /\ resp = [p \in Proc |-> NoResp]
  /\ cur = [p \in Proc |-> NoClaim]
  /\ provider = [p \in Proc |-> "none"]
  /\ result = [p \in Proc |-> NoResult]
  /\ receipt = [p \in Proc |-> NoReceipt]
  /\ executed = {} /\ succeeded = {} /\ givenUp = {} /\ saved = {}

-----------------------------------------------------------------------------
(* Coordinate: the claim, lease, progress and report operations.           *)

\* The attempt holds authority: it is the running attempt of its job.
Authority(j, a) == jobStatus[j] = "running" /\ attempt[j] = a

\* A normal claim takes pending jobs only; a recovery claim takes timed_out
\* jobs too.
Claimable(j, rec) ==
  /\ attempt[j] < MaxAttempts
  /\ jobStatus[j] = "pending" \/ (rec /\ jobStatus[j] = "timed_out")

\* What the claim response says of the job: does it carry a session id that
\* _recovery_session_id will find?
HasEvidence(j) == \E a \in Attempt : <<j, a>> \in evidence

\* Coordinate serves the claim request [key k, recoverable rec]; r is the
\* answer.  A key it has recorded is replayed while its attempt still runs
\* and is a conflict afterwards; a key it closed stays "not claimed".
ReplayClaim(k, r) ==
  /\ keyClaim[k] # NoClaim
  /\ LET c == keyClaim[k] IN
       r = IF Authority(c.job, c.attempt)
           THEN [kind |-> "claimed", claim |-> [c EXCEPT !.evid = HasEvidence(c.job)]]
           ELSE [kind |-> "refused", claim |-> NoClaim]
  /\ UNCHANGED coordinate

GrantClaim(k, rec, r) ==
  /\ keyClaim[k] = NoClaim /\ k \notin closed
  /\ \E j \in Job :
       LET c == [job |-> j, attempt |-> attempt[j] + 1, evid |-> HasEvidence(j)] IN
       /\ Claimable(j, rec)
       /\ r = [kind |-> "claimed", claim |-> c]
       /\ jobStatus' = [jobStatus EXCEPT ![j] = "running"]
       /\ attempt' = [attempt EXCEPT ![j] = @ + 1]
       /\ keyClaim' = [keyClaim EXCEPT ![k] = c]
  /\ UNCHANGED <<closed, evidence>>

\* Empty queue, exhausted capacity, blocked resource; or a rejection (4xx).
RefuseClaim(k, r) ==
  /\ keyClaim[k] = NoClaim
  /\ \E kind \in {"empty", "refused"} :
       /\ r = [kind |-> kind, claim |-> NoClaim]
       /\ closed' = IF FencedEmpty /\ kind = "empty" THEN closed \cup {k} ELSE closed
  /\ UNCHANGED <<jobStatus, attempt, keyClaim, evidence>>

ServeClaim(k, rec, r) == ReplayClaim(k, r) \/ GrantClaim(k, rec, r) \/ RefuseClaim(k, r)

\* A report without an attempt token (0) is not fenced.
Accepts(m) ==
  \/ Authority(m.job, m.attempt)
  \/ m.attempt = 0 /\ jobStatus[m.job] = "running"

\* Coordinate serves a report [job, attempt, status, sess]: the running
\* attempt settles the job, a settled attempt gets the stored record back
\* (or, after an expiry, a conflict), any other attempt conflicts.
ServeReport(m, r) ==
  \/ /\ Accepts(m)
     /\ jobStatus' = [jobStatus EXCEPT ![m.job] = m.status]
     /\ evidence' = IF m.sess THEN evidence \cup {<<m.job, attempt[m.job]>>} ELSE evidence
     /\ r = [status |-> m.status, attempt |-> attempt[m.job]]
     /\ UNCHANGED <<attempt, keyClaim, closed>>
  \/ /\ attempt[m.job] = m.attempt /\ jobStatus[m.job] \in Terminal
     /\ r = [status |-> jobStatus[m.job], attempt |-> m.attempt]
     /\ UNCHANGED coordinate
  \/ /\ ~Accepts(m)
     /\ attempt[m.job] # m.attempt \/ jobStatus[m.job] = "timed_out"
     /\ r = [status |-> "conflict", attempt |-> 0]
     /\ UNCHANGED coordinate

\* The lease of a managed job runs out, or is reaped, at Coordinate.
LeaseExpires(j) ==
  /\ j \in Managed /\ jobStatus[j] = "running"
  /\ jobStatus' = [jobStatus EXCEPT ![j] = "timed_out"]
  /\ UNCHANGED <<attempt, keyClaim, closed, evidence, wire, worker, history>>

\* A session-bearing progress report arrives; only the running attempt may
\* record it.
ProgressArrives(m) ==
  /\ progressWire' = progressWire \ {m}
  /\ evidence' = IF Authority(m[1], m[2]) THEN evidence \cup {m} ELSE evidence
  /\ UNCHANGED <<jobStatus, attempt, keyClaim, closed, late, lateReports, worker, history>>

LateClaimServed(m) ==
  /\ late' = late \ {m}
  /\ \E r \in [kind: {"claimed", "empty", "refused"},
               claim: Claim \cup {NoClaim}] : ServeClaim(m.key, m.rec, r)
  /\ UNCHANGED <<lateReports, progressWire, worker, history>>

LateReportServed(m) ==
  /\ lateReports' = lateReports \ {m}
  /\ \E s \in Terminal \cup {"conflict"}, a \in Attempt :
       ServeReport(m, [status |-> s, attempt |-> a])
  /\ UNCHANGED <<late, progressWire, worker, history>>

-----------------------------------------------------------------------------
(* The life of a process.                                                  *)

OthersGone(p) == \A q \in Proc \ {p} : pc[q] \in Gone

\* Mutant: recovery mode starts without the evidence.
RecoveryEvidence_Unchecked(p) == TRUE

\* --prior-process-stopped: run() refuses recovery without the operator's
\* evidence that no earlier process of this agent is left.
RecoveryEvidence(p) == OthersGone(p)

\* The operator also stops the automatic restart of the worker before a
\* recovery.  Apart from that, processes may overlap: one that hangs is
\* replaced before it is gone.
NoRecoveryUnderway == \A q \in Proc : Alive(q) => ~recovery[q]

\* Contract probe and adapter startup check: refuse, latch, or start to poll.
Start(p, rec) ==
  /\ pc[p] = "off"
  /\ IF rec THEN RecoveryEvidence(p) ELSE NoRecoveryUnderway
  /\ recovery' = [recovery EXCEPT ![p] = rec]
  /\ \E next \in {"exited", "latched", "claim"} : pc' = [pc EXCEPT ![p] = next]
  /\ UNCHANGED <<coordinate, wire, history, serial, resp, cur,
                 provider, result, receipt>>

\* Mutant: the report carries no attempt token.
ReportOf_NoToken(p) == [job |-> cur[p].job, attempt |-> 0,
                        status |-> result[p].status, sess |-> result[p].sess]

\* Mutant: every outcome is reported as done.
ReportOf_AlwaysDone(p) == [job |-> cur[p].job, attempt |-> cur[p].attempt,
                           status |-> "done", sess |-> result[p].sess]

\* The report of the finished claim, as report_job sends it.
ReportOf(p) == [job |-> cur[p].job, attempt |-> cur[p].attempt,
                status |-> result[p].status, sess |-> result[p].sess]

WireHasRoom ==
  Cardinality(late) + Cardinality(lateReports) + Cardinality(progressWire) < MaxWire

\* The process stops waiting for its claim or report request.  The request is
\* lost, or stays on the wire and may be served later.
AbandonRequest(p) ==
  \/ UNCHANGED wire
  \/ /\ pc[p] = "sent" /\ WireHasRoom
     /\ late' = late \cup {[key |-> KeyOf(p), rec |-> recovery[p]]}
     /\ UNCHANGED <<lateReports, progressWire>>
  \/ /\ pc[p] = "settled" /\ WireHasRoom
     /\ lateReports' = lateReports \cup {ReportOf(p)}
     /\ UNCHANGED <<late, progressWire>>

\* The process forgets its claim, provider and answers.
Forget(p) ==
  /\ resp' = [resp EXCEPT ![p] = NoResp]
  /\ cur' = [cur EXCEPT ![p] = NoClaim]
  /\ provider' = [provider EXCEPT ![p] = "none"]
  /\ result' = [result EXCEPT ![p] = NoResult]
  /\ receipt' = [receipt EXCEPT ![p] = NoReceipt]

\* The process ends, in the loop, by a crash or by an error.
Leave(p, how) ==
  /\ pc' = [pc EXCEPT ![p] = how]
  /\ recovery' = [recovery EXCEPT ![p] = FALSE]
  /\ AbandonRequest(p) /\ Forget(p)
  /\ UNCHANGED <<coordinate, history, serial>>

\* stop() was called some time ago: `while self._running` ends the loop, or
\* the wait of a latched worker.  Nothing else in the worker reads the flag.
LoopExit(p) == pc[p] \in {"claim", "latched"} /\ Leave(p, "exited")

Crash(p) == Alive(p) /\ Leave(p, "exited")

-----------------------------------------------------------------------------
(* The claim loop of run().                                                *)

\* A connector failure before the request is sent changes nothing: the loop
\* waits and comes back with the same key.
SendClaim(p) ==
  /\ pc[p] = "claim" /\ serial[p] <= MaxSerial
  /\ pc' = [pc EXCEPT ![p] = "sent"]
  /\ UNCHANGED <<coordinate, wire, history, recovery, serial, resp,
                 cur, provider, result, receipt>>

ClaimServed(p) ==
  /\ pc[p] = "sent"
  /\ \E r \in [kind: {"claimed", "empty", "refused"},
               claim: Claim \cup {NoClaim}] :
       ServeClaim(KeyOf(p), recovery[p], r) /\ resp' = [resp EXCEPT ![p] = r]
  /\ pc' = [pc EXCEPT ![p] = "answered"]
  /\ UNCHANGED <<wire, history, recovery, serial, cur, provider,
                 result, receipt>>

\* Mutant: the next iteration makes a new key.
SerialAfterUncertain_Fresh(n) == n + 1

\* The key the loop goes on with after an uncertain outcome: the same one.
SerialAfterUncertain(n) == n

\* Timeout, disconnect, malformed response or 5xx.  The request may still be
\* served; the loop goes to reconcile and keeps its key.
ClaimUncertain(p) ==
  /\ pc[p] \in {"sent", "answered"}
  /\ AbandonRequest(p)
  /\ pc' = [pc EXCEPT ![p] = "reconcile"]
  /\ serial' = [serial EXCEPT ![p] = SerialAfterUncertain(@)]
  /\ resp' = [resp EXCEPT ![p] = NoResp]
  /\ UNCHANGED <<coordinate, history, recovery, cur, provider,
                 result, receipt>>

\* _reconcile_claim_authority: a valid snapshot lets the loop retry, anything
\* else latches it.
Reconcile(p) ==
  /\ pc[p] = "reconcile"
  /\ \E next \in {"claim", "latched"} : pc' = [pc EXCEPT ![p] = next]
  /\ UNCHANGED <<coordinate, wire, history, recovery, serial, resp,
                 cur, provider, result, receipt>>

\* An answer of the CLI without a result envelope: an ordinary error, polled
\* again with the same key.
ClaimMalformed(p) ==
  /\ pc[p] = "answered"
  /\ pc' = [pc EXCEPT ![p] = "claim"]
  /\ resp' = [resp EXCEPT ![p] = NoResp]
  /\ UNCHANGED <<coordinate, wire, history, recovery, serial, cur,
                 provider, result, receipt>>

\* A replay conflict or a rejection is authoritative and latches the worker.
ClaimRefused(p) ==
  /\ pc[p] = "answered" /\ resp[p].kind = "refused"
  /\ pc' = [pc EXCEPT ![p] = "latched"]
  /\ resp' = [resp EXCEPT ![p] = NoResp]
  /\ UNCHANGED <<coordinate, wire, history, recovery, serial, cur,
                 provider, result, receipt>>

\* Mutant: the key survives the answer.
SerialAfterAnswer_Kept(n) == n

\* The key after an authoritative answer: a fresh one.
SerialAfterAnswer(n) == n + 1

ClaimAnswered(p) ==
  /\ pc[p] = "answered" /\ resp[p].kind \in {"claimed", "empty"}
  /\ pc' = [pc EXCEPT ![p] = IF resp[p].kind = "claimed" THEN "check" ELSE "claim"]
  /\ cur' = [cur EXCEPT ![p] = resp[p].claim]
  /\ serial' = [serial EXCEPT ![p] = SerialAfterAnswer(@)]
  /\ resp' = [resp EXCEPT ![p] = NoResp]
  /\ UNCHANGED <<coordinate, wire, history, recovery, provider,
                 result, receipt>>

-----------------------------------------------------------------------------
(* _process_job().                                                         *)

\* A malformed lease, or a managed payload without one: no provider, no
\* report; the lease is left to expire.
DropClaim(p) ==
  /\ pc[p] = "check"
  /\ givenUp' = givenUp \cup {Id(cur[p])}
  /\ pc' = [pc EXCEPT ![p] = "claim"]
  /\ Forget(p)
  /\ UNCHANGED <<coordinate, wire, recovery, serial, executed,
                 succeeded, saved>>

\* Payload, binding, context or lease cross-check fails: reported as failed.
RejectClaim(p) ==
  /\ pc[p] = "check"
  /\ result' = [result EXCEPT ![p] = [status |-> "failed", sess |-> FALSE]]
  /\ pc' = [pc EXCEPT ![p] = "settled"]
  /\ UNCHANGED <<coordinate, wire, history, recovery, serial, resp,
                 cur, provider, receipt>>

\* Mutant: the session row is looked at before the recovery evidence.
ProviderFor_RowFirst(c, active) ==
  IF active THEN "resume" ELSE IF c.evid THEN "recovery" ELSE "fresh"

\* _call_or_resume: recovery evidence always wins; otherwise an active
\* session row, if there is one, is resumed.
ProviderFor(c, active) ==
  IF c.evid THEN "recovery" ELSE IF active THEN "resume" ELSE "fresh"

StartProvider(p) ==
  /\ pc[p] = "check"
  /\ \E active \in BOOLEAN :
       provider' = [provider EXCEPT ![p] = ProviderFor(cur[p], active)]
  /\ executed' = executed \cup {Id(cur[p])}
  /\ pc' = [pc EXCEPT ![p] = "running"]
  /\ UNCHANGED <<coordinate, wire, recovery, serial, resp, cur,
                 result, receipt, succeeded, givenUp, saved>>

\* The progress callback posts the provider's session id.
SessionProgress(p) ==
  /\ pc[p] = "running" /\ WireHasRoom
  /\ progressWire' = progressWire \cup {Id(cur[p])}
  /\ UNCHANGED <<coordinate, late, lateReports, worker, history>>

\* A failed session resume whose row this attempt retired itself is followed
\* by one fresh call.
FreshFallback(p) ==
  /\ pc[p] = "running" /\ provider[p] = "resume"
  /\ provider' = [provider EXCEPT ![p] = "fresh"]
  /\ UNCHANGED <<coordinate, wire, history, pc, recovery, serial,
                 resp, cur, result, receipt>>

\* The results each kind of call can end with: its status and whether it
\* brings a session id.  (What a failed result says of a session is never
\* used again, so sess is FALSE there.)  A failed recovery resume is failed,
\* never timed_out; a failed session resume loses its session id.
Results(kind) ==
  [status: {"failed"}, sess: {FALSE}] \cup [status: {"done"}, sess: BOOLEAN] \cup
  CASE kind = "fresh"  -> [status: {"timed_out"}, sess: BOOLEAN]
    [] kind = "resume" -> [status: {"timed_out"}, sess: {FALSE}]
    [] OTHER           -> {}

\* The provider finishes first: the renewal task is cancelled.
ProviderFinishes(p) ==
  /\ pc[p] = "running"
  /\ \E r \in Results(provider[p]) :
       /\ result' = [result EXCEPT ![p] = r]
       /\ succeeded' = IF r.status = "done" THEN succeeded \cup {Id(cur[p])}
                                            ELSE succeeded
  /\ provider' = [provider EXCEPT ![p] = "none"]
  /\ pc' = [pc EXCEPT ![p] = "settled"]
  /\ UNCHANGED <<coordinate, wire, recovery, serial, resp, cur,
                 receipt, executed, givenUp, saved>>

\* Mutant: the loop goes on and leaves the provider task running.
LeaseLost_KeepsProvider(p) ==
  /\ pc[p] = "running" /\ cur[p].job \in Managed
  /\ givenUp' = givenUp \cup {Id(cur[p])}
  /\ pc' = [pc EXCEPT ![p] = "claim"]
  /\ cur' = [cur EXCEPT ![p] = NoClaim]
  /\ UNCHANGED <<coordinate, wire, recovery, serial, resp, provider, result,
                 receipt, executed, succeeded, saved>>

\* The renewal supervisor ends first (refusal, transport failure, deadline):
\* the provider is cancelled and nothing is reported.
LeaseLost(p) ==
  /\ pc[p] = "running" /\ cur[p].job \in Managed
  /\ givenUp' = givenUp \cup {Id(cur[p])}
  /\ pc' = [pc EXCEPT ![p] = "claim"]
  /\ Forget(p)
  /\ UNCHANGED <<coordinate, wire, recovery, serial, executed,
                 succeeded, saved>>

\* As LeaseLost, but stopping the provider raises: the error is caught with
\* those of the provider and reported as an internal failure of the attempt.
LeaseLostUnclean(p) ==
  /\ pc[p] = "running" /\ cur[p].job \in Managed
  /\ result' = [result EXCEPT ![p] = [status |-> "failed", sess |-> FALSE]]
  /\ provider' = [provider EXCEPT ![p] = "none"]
  /\ pc' = [pc EXCEPT ![p] = "settled"]
  /\ UNCHANGED <<coordinate, wire, history, recovery, serial, resp, cur, receipt>>

\* The report, or a retry of it with the same body, reaches Coordinate.
ReportServed(p) ==
  /\ pc[p] = "settled"
  /\ \E s \in Terminal \cup {"conflict"}, a \in Attempt :
       LET r == [status |-> s, attempt |-> a] IN
       ServeReport(ReportOf(p), r) /\ receipt' = [receipt EXCEPT ![p] = r]
  /\ UNCHANGED <<wire, history, pc, recovery, serial, resp, cur,
                 provider, result>>

\* Mutant: any answer to the report confirms it.
Confirmed_AnyAnswer(p) == TRUE

\* _reported_success_matches: the stored record is this attempt's success.
Confirmed(p) ==
  receipt[p] = [status |-> "done", attempt |-> cur[p].attempt]

ReportAnswered(p) ==
  /\ pc[p] = "settled" /\ receipt[p].status \in Terminal
  /\ saved' = IF result[p] = [status |-> "done", sess |-> TRUE] /\ Confirmed(p)
              THEN saved \cup {Id(cur[p])} ELSE saved
  /\ pc' = [pc EXCEPT ![p] = "claim"]
  /\ Forget(p)
  /\ UNCHANGED <<coordinate, wire, recovery, serial, executed,
                 succeeded, givenUp>>

\* A conflict, or no answer after the last retry: the error leaves
\* _process_job and run(), and the process ends.
ReportFails(p) == pc[p] = "settled" /\ Leave(p, "failed")

-----------------------------------------------------------------------------
ProcNext(p) ==
  \/ Start(p, FALSE) \/ Start(p, TRUE)
  \/ LoopExit(p) \/ Crash(p)
  \/ SendClaim(p) \/ ClaimServed(p)
  \/ ClaimUncertain(p) \/ Reconcile(p) \/ ClaimMalformed(p)
  \/ ClaimRefused(p) \/ ClaimAnswered(p)
  \/ DropClaim(p) \/ RejectClaim(p) \/ StartProvider(p)
  \/ SessionProgress(p) \/ FreshFallback(p) \/ ProviderFinishes(p)
  \/ LeaseLost(p) \/ LeaseLostUnclean(p)
  \/ ReportServed(p) \/ ReportAnswered(p) \/ ReportFails(p)

CoordinateNext ==
  \/ \E j \in Job : LeaseExpires(j)
  \/ \E m \in progressWire : ProgressArrives(m)
  \/ \E m \in late : LateClaimServed(m)
  \/ \E m \in lateReports : LateReportServed(m)

Next == CoordinateNext \/ \E p \in Proc : ProcNext(p)

Spec == Init /\ [][Next]_vars

-----------------------------------------------------------------------------
(* Properties.                                                             *)

ProcState == Gone \cup {"claim", "sent", "answered", "reconcile", "latched",
                        "check", "running", "settled"}

\* The variables have their types, and each process holds a claim, a
\* provider, an answer only in the part of the loop that uses it.
TypeOK ==
  /\ jobStatus \in [Job -> {"pending", "running"} \cup Terminal]
  /\ attempt \in [Job -> Attempt]
  /\ keyClaim \in [Key -> Claim \cup {NoClaim}]
  /\ closed \subseteq Key
  /\ evidence \subseteq Job \X Attempt
  /\ late \subseteq [key: Key, rec: BOOLEAN]
  /\ lateReports \subseteq [job: Job, attempt: Attempt, status: Terminal, sess: BOOLEAN]
  /\ progressWire \subseteq Job \X Attempt
  /\ pc \in [Proc -> ProcState]
  /\ recovery \in [Proc -> BOOLEAN]
  /\ serial \in [Proc -> 1..MaxSerial + 1]
  /\ resp \in [Proc -> [kind: {"none", "claimed", "empty", "refused"},
                        claim: Claim \cup {NoClaim}]]
  /\ cur \in [Proc -> Claim \cup {NoClaim}]
  /\ provider \in [Proc -> {"none", "fresh", "resume", "recovery"}]
  /\ result \in [Proc -> [status: Terminal \cup {"none"}, sess: BOOLEAN]]
  /\ receipt \in [Proc -> [status: Terminal \cup {"none", "conflict"}, attempt: Attempt]]
  /\ executed \subseteq Job \X Attempt
  /\ succeeded \subseteq Job \X Attempt
  /\ givenUp \subseteq Job \X Attempt
  /\ saved \subseteq Job \X Attempt
  /\ \A p \in Proc :
       /\ pc[p] \in {"sent", "answered"} => serial[p] \in 1..MaxSerial
       /\ cur[p] # NoClaim <=> pc[p] \in {"check", "running", "settled"}
       /\ provider[p] # "none" <=> pc[p] = "running"
       /\ result[p].status # "none" <=> pc[p] = "settled"
       /\ resp[p].kind # "none" <=> pc[p] = "answered"
       /\ resp[p].claim # NoClaim <=> resp[p].kind = "claimed"

\* A provider is started at most once for an attempt, whatever answers were
\* lost and however often the claim was replayed: the key is kept until an
\* authoritative answer and never used after it (run()).
EachAttemptRunsOnce ==
  [][\A p \in Proc : pc[p] = "check" /\ pc'[p] = "running"
                      => Id(cur[p]) \notin executed]_vars

\* An attempt that still has authority at Coordinate is known to the process
\* that asked for it: it is in hand, or its key is still the current one, so
\* that a replay will return it, or it was given up on purpose.  No lease is
\* stranded by an answer that got lost.
NoStrandedClaim ==
  \A p \in Proc, n \in 1..MaxSerial :
    LET c == keyClaim[<<p, n>>] IN
    /\ c # NoClaim
    /\ Alive(p)
    /\ Authority(c.job, c.attempt)
    => \/ n = serial[p]
       \/ Id(cur[p]) = Id(c)
       \/ Id(c) \in givenUp

\* Two processes never run providers for the same job, even when the lease of
\* the first expires under it: a timed out job goes to a recovery process
\* only, and that one starts when the others have stopped.
OneProviderPerJob ==
  \A p, q \in Proc :
    pc[p] = "running" /\ pc[q] = "running" /\ cur[p].job = cur[q].job => p = q

\* Once an earlier attempt left a session id at Coordinate, no later attempt
\* of the job starts a fresh session, not even as the fallback of a failed
\* resume ("no fresh duplicate", _call_or_resume).
NoFreshDuplicate ==
  \A p \in Proc : provider[p] = "fresh" =>
    ~ \E a \in 0..cur[p].attempt - 1 : <<cur[p].job, a>> \in evidence

\* A job is recorded as done only by the attempt whose provider succeeded:
\* the late report of an earlier attempt settles nothing.
DoneByItsOwnAttempt ==
  \A j \in Job : jobStatus[j] = "done" => <<j, attempt[j]>> \in succeeded

\* The session row is written only for an attempt whose success Coordinate
\* has on record, never for one that expired or was superseded meanwhile.
SavedOnlyIfRecorded ==
  \A j \in Job, a \in Attempt :
    <<j, a>> \in saved => jobStatus[j] = "done" /\ attempt[j] = a

\* The worker implements the ledger of attempts.
Ledger == INSTANCE AttemptLedger
          WITH status <- jobStatus, started <- executed, won <- succeeded

\* Every run of the worker processes is a run of the ledger: one attempt at a
\* time, one provider per attempt, and a success is recorded for the attempt
\* that had it (_process_job, _call_or_resume, report_job).
ImplementsLedger == Ledger!Spec

\* What the comment on _run_cli says of every Coordinate failure: the loop
\* backs off, it does not crash.
LoopSurvivesCoordinateErrors == \A p \in Proc : pc[p] # "failed"

=============================================================================
