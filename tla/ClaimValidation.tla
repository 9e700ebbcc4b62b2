-------------------------- MODULE ClaimValidation --------------------------
(***************************************************************************)
(* How a worker reads the answer to its claim before any provider runs:    *)
(* the lease, the payload, the executor binding, the execution context and *)
(* the job envelope must name one attempt of one job, this agent and one    *)
(* worktree of one host.  Only the lease is trusted with a report; a managed *)
(* claim without one is dropped without a word, and two kinds of answers    *)
(* raise an error nobody catches and end the worker.                       *)
(* Each part of an answer is one of the parts Coordinate made for some       *)
(* attempt: an answer may be put together of parts of several attempts.     *)
(***************************************************************************)
EXTENDS Naturals

CONSTANTS Attempts,     \* attempts Coordinate made, as it described them
          ClaimAgent,   \* this worker's agent
          ClaimAdapter, \* and its adapter
          Paths,        \* spellings of worktree paths
          NormalPath,   \* normalize_worktree_path, lexical: no file is looked at
          Dotted,       \* the paths with a segment . or ..
          Absent, Null, Malformed,  \* a missing, a null, an unreadable part
          NoResource,   \* a lease of a host or path that makes no resource
          MaxClaims     \* bound: answers to one worker

Attempt == [job : STRING, count : Nat \ {0}, agent : STRING, profile : STRING,
            adapter : STRING, host : STRING, path : Paths]

ASSUME ClaimConstants ==
  /\ Attempts \subseteq Attempt
  /\ NormalPath \in [Paths -> Paths]
  /\ \A p \in Paths : NormalPath[NormalPath[p]] = NormalPath[p]
  /\ {Absent, Null, Malformed} \cap Attempts = {}
  /\ MaxClaims \in Nat

ASSUME UnreadableParts == NoResource \notin Attempts \cup {Absent} /\ Dotted \subseteq Paths

VARIABLES
  vRuns,     \* history: the parts of every claim a provider was started for
  vReports,  \* failures reported to Coordinate
  vEnded,    \* an answer raised what _process_job does not catch
  vLeft      \* answers still to come

claimVars == <<vRuns, vReports, vEnded, vLeft>>

\* The envelope of the job may be without its id or its agent.  (A job that is
\* missing is one without an id whose context is not read.)
ClaimAnswer ==
  [lease : Attempts \cup {Absent, Malformed, NoResource}, key : Attempts,
   payload : BOOLEAN, binding : Attempts \cup {Absent, Null, Malformed},
   context : Attempts \cup {Malformed},
   job : Attempts \cup {Malformed}, named : BOOLEAN, assigned : BOOLEAN,
   token : Attempts \cup {Absent}]

\* What a provider was started with, and what a failure was reported as.
Run == [lease : Attempts \cup {Absent}, key : Paths, context : Attempts,
        job : Attempts, named : BOOLEAN, token : Nat]
Report == [job : Attempts \cup {Absent}, count : Nat, lease : Attempts \cup {Absent},
           managed : BOOLEAN]

ClaimTypeOK ==
  /\ vRuns \subseteq Run
  /\ vReports \subseteq Report
  /\ vEnded \in BOOLEAN
  /\ vLeft \in 0..MaxClaims

ClaimInit == vRuns = {} /\ vReports = {} /\ vEnded = FALSE /\ vLeft = MaxClaims

\* parse_execution_lease: an object with exactly the lease's fields, each of which
\* passes its own test.
LeaseWellFormed(c) == c.lease \in Attempts

\* parse_executor_binding: the same of the binding, with the digest over it.
BindingWellFormed(c) == c.binding \in Attempts

\* The same of the context, whose paths have no segment . or .. besides.
ContextWellFormed(c) == c.context \in Attempts /\ c.context.path \notin Dotted

\* build_worktree_resource and compute_resource_key: the digest of a host and a
\* normalized path, two paths with one normal form have one key.
ResourceKey(a) == <<a.host, NormalPath[a.path]>>

\* Mutant: a lease whose path is spelled another way is taken.
IsCanonical_Any(path) == TRUE

\* The lease's path must be its own normal form.
IsCanonical(path) == NormalPath[path] = path

\* validate_execution_lease without cross-links: the lease is for this agent, its
\* path is canonical and its key is that of its host and path.
LeaseReads(c) ==
  /\ LeaseWellFormed(c)
  /\ c.lease.agent = ClaimAgent
  /\ IsCanonical(c.lease.path)
  /\ ResourceKey(c.key) = ResourceKey(c.lease)

\* The lease agrees with the context and the attempt.
LeaseFitsContext(c) ==
  /\ c.lease.job = c.context.job /\ c.lease.count = c.token.count
  /\ c.lease.agent = c.context.agent /\ c.lease.host = c.context.host
  /\ c.lease.path = c.context.path

\* The lease agrees with the binding.
LeaseFitsBinding(c) ==
  c.lease.agent = c.binding.agent /\ c.lease.profile = c.binding.profile

\* validate_executor_binding: a typed binding names this agent, as its instance
\* and its profile, and this adapter.  A null one is no binding at all.
BindingReads(c) ==
  /\ BindingWellFormed(c)
  /\ c.binding.agent = ClaimAgent /\ c.binding.profile = ClaimAgent
  /\ c.binding.adapter = ClaimAdapter

\* parse_execution_context: it is well formed, for this agent and for the job of
\* the answer, if that has an id.
ContextReads(c) ==
  /\ ContextWellFormed(c)
  /\ c.named => c.context.job = c.job.job
  /\ c.context.agent = ClaimAgent

\* validate_claim_response: besides, the agent of the job, if it has one, is the
\* context's, and its attempt count the token of the answer.
ResponseReads(c) ==
  /\ c.token # Absent /\ ContextReads(c)
  /\ c.assigned => c.job.agent = c.context.agent
  /\ c.token.count = c.job.count

HasLease(c) == c.lease # Absent
Leased(c) == HasLease(c) /\ LeaseReads(c)

\* A ResourceIdentityError is no ExecutionLeaseError, and a job that is no object
\* has no payload to ask for: either error leaves run().
EndsWorker(c) ==
  \/ c.lease = NoResource
  \/ c.job = Malformed /\ (HasLease(c) => LeaseReads(c))

\* A provider runs when every part was read and all of them agree.
StartsProvider(c) ==
  /\ c.job # Malformed /\ c.payload /\ ResponseReads(c)
  /\ IF HasLease(c)
     THEN LeaseReads(c) /\ BindingReads(c) /\ LeaseFitsContext(c) /\ LeaseFitsBinding(c)
     ELSE c.binding = Absent

\* Mutant: a managed claim without a lease is reported when its context is bad.
Untyped_Managed(c) == ~HasLease(c) /\ c.payload

\* A claim without a lease and without any binding is one of the untyped kind.
Untyped(c) == ~HasLease(c) /\ c.payload /\ c.binding = Absent

\* Any failure is reported once the lease is read; without a lease only a bad
\* response of an untyped claim is, when its token is a number.
ReportsFailure(c) ==
  /\ c.job # Malformed
  /\ \/ Leased(c) /\ ~StartsProvider(c)
     \/ Untyped(c) /\ c.token # Absent /\ ~ResponseReads(c)

\* Mutant: a failure is reported for the job of the answer, not of the lease.
Trusted_Answer(c) == [job |-> c.job, count |-> c.token.count, lease |-> c.lease,
                      managed |-> c.binding # Absent]

\* The job and attempt a failure is reported for: the lease's, if there is one,
\* or the answer's; a job without an id is reported as "?".
Trusted(c) ==
  [job |-> IF HasLease(c) THEN c.lease ELSE IF c.named THEN c.job ELSE Absent,
   count |-> IF HasLease(c) THEN c.lease.count ELSE c.token.count,
   lease |-> c.lease, managed |-> c.binding # Absent]

\* _process_job up to the provider, for an adapter that runs here: no part of the
\* answer is used before it was read.
ProcessClaim(c) ==
  /\ vLeft > 0 /\ ~vEnded
  /\ vLeft' = vLeft - 1
  /\ vEnded' = EndsWorker(c)
  /\ vRuns' = IF StartsProvider(c)
              THEN vRuns \cup {[lease |-> c.lease, key |-> ResourceKey(c.key)[2],
                                context |-> c.context, job |-> c.job, named |-> c.named,
                                token |-> c.token.count]}
              ELSE vRuns
  /\ vReports' = IF ReportsFailure(c) THEN vReports \cup {Trusted(c)} ELSE vReports

ClaimNext == \E c \in ClaimAnswer : ProcessClaim(c)

ClaimSpec == ClaimInit /\ [][ClaimNext]_claimVars

----------------------------------------------------------------------------
\* A managed provider runs in the very tree its lease locks, for the attempt the
\* lease is for, and a failure is reported for the attempt of the lease only; a
\* claim that says it is managed and has no lease is never answered.  The tree is
\* the path of the context, locked under its key: two spellings of one path must
\* not get two locks.
OneAuthority ==
  /\ \A r \in vRuns : r.lease # Absent =>
       /\ r.key = r.context.path
       /\ r.lease.job = r.context.job /\ r.lease.count = r.token
       /\ r.lease.count = r.job.count /\ (r.named => r.lease.job = r.job.job)
  /\ \A f \in vReports :
       IF f.lease # Absent THEN f.job = f.lease /\ f.count = f.lease.count ELSE ~f.managed
=============================================================================
