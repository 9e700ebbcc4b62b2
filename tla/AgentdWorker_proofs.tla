------------------------ MODULE AgentdWorker_proofs -------------------------
(***************************************************************************)
(* The safety properties of AgentdWorker, for every set of processes and    *)
(* jobs and every bound.  IInv, at the end, is their inductive invariant;   *)
(* each of its parts is preserved by a lemma of its own.  A step is seen     *)
(* first from Coordinate (CoordinateStep: it grants one attempt or none)    *)
(* and then from one process (ProcessStep, SerialStep, HandStep, ...), so    *)
(* that the lemmas of the parts rarely have to look at single actions.      *)
(* The last part is the refinement of AttemptLedger and what it brings.     *)
(***************************************************************************)
EXTENDS AgentdWorker, TLAPS

USE ManagedIsSubset, NoJobIsNoJob, FencedIsBoolean, BoundsAreNat

\* The fields of a claim; NoClaim is none.
LEMMA ClaimShape ==
  /\ NoClaim \notin Claim
  /\ NoClaim.job = NoJob /\ NoClaim.attempt = 0 /\ NoClaim.evid = FALSE
  /\ \A c \in Claim : c.job \in Job /\ c.attempt \in Attempt /\ c.evid \in BOOLEAN
  BY DEF Claim, NoClaim

\* The initial state has its type.
LEMMA TypeInit == Init => TypeOK
<1> SUFFICES ASSUME Init PROVE TypeOK
  OBVIOUS
<1>1. 0 \in Attempt /\ 1 \in 1..MaxSerial + 1
  BY DEF Attempt
<1>2. /\ jobStatus \in [Job -> {"pending", "running"} \cup Terminal]
      /\ attempt \in [Job -> Attempt]
      /\ keyClaim \in [Key -> Claim \cup {NoClaim}]
      /\ serial \in [Proc -> 1..MaxSerial + 1]
      /\ cur \in [Proc -> Claim \cup {NoClaim}]
      /\ recovery \in [Proc -> BOOLEAN]
      /\ provider \in [Proc -> {"none", "fresh", "resume", "recovery"}]
      /\ pc \in [Proc -> ProcState]
  BY <1>1 DEF Init, ProcState, Gone
<1>3. /\ resp \in [Proc -> [kind: {"none", "claimed", "empty", "refused"},
                            claim: Claim \cup {NoClaim}]]
      /\ result \in [Proc -> [status: Terminal \cup {"none"}, sess: BOOLEAN]]
      /\ receipt \in [Proc -> [status: Terminal \cup {"none", "conflict"}, attempt: Attempt]]
  BY <1>1 DEF Init, NoResp, NoResult, NoReceipt
<1>4. \A p \in Proc : /\ pc[p] = "off" /\ cur[p] = NoClaim /\ provider[p] = "none"
                      /\ result[p].status = "none"
                      /\ resp[p].kind = "none" /\ resp[p].claim = NoClaim
  BY DEF Init, NoResp, NoResult
<1> QED
  BY <1>2, <1>3, <1>4 DEF Init, TypeOK

\* Serving a claim request keeps Coordinate's types, and only an answer
\* "claimed" carries a claim.
LEMMA TypeServeClaim ==
  ASSUME TypeOK, NEW k \in Key, NEW rec \in BOOLEAN, 
         NEW r \in [kind: {"claimed", "empty", "refused"}, claim: Claim \cup {NoClaim}],
         ServeClaim(k, rec, r)
  PROVE  /\ jobStatus' \in [Job -> {"pending", "running"} \cup Terminal]
         /\ attempt' \in [Job -> Attempt]
         /\ keyClaim' \in [Key -> Claim \cup {NoClaim}]
         /\ closed' \subseteq Key
         /\ evidence' \subseteq Job \X Attempt
         /\ r.claim # NoClaim <=> r.kind = "claimed"
<1>1. CASE ReplayClaim(k, r)
  <2>1. [keyClaim[k] EXCEPT !.evid = HasEvidence(keyClaim[k].job)] # NoClaim
    BY <1>1, ClaimShape DEF TypeOK, ReplayClaim, Claim
  <2> QED
    BY <1>1, <2>1 DEF TypeOK, ReplayClaim, coordinate
<1>2. CASE GrantClaim(k, rec, r)
  <2>1. PICK j \in Job : 
       LET c == [job |-> j, attempt |-> attempt[j] + 1, evid |-> HasEvidence(j)] IN
       /\ Claimable(j, rec)
       /\ r = [kind |-> "claimed", claim |-> c]
       /\ jobStatus' = [jobStatus EXCEPT ![j] = "running"]
       /\ attempt' = [attempt EXCEPT ![j] = @ + 1]
       /\ keyClaim' = [keyClaim EXCEPT ![k] = c]
    BY <1>2 DEF GrantClaim
  <2>2. attempt[j] + 1 \in Attempt
    BY <2>1 DEF TypeOK, Claimable, Attempt
  <2>3. r.claim \in Claim
    BY <2>1, <2>2 DEF Claim, HasEvidence
  <2> QED
    BY <1>2, <2>1, <2>2, <2>3, ClaimShape DEF TypeOK, GrantClaim
<1>3. CASE RefuseClaim(k, r)
  BY <1>3 DEF TypeOK, RefuseClaim
<1> QED
  BY <1>1, <1>2, <1>3 DEF ServeClaim

\* Serving a report keeps Coordinate's types.
LEMMA TypeServeReport ==
  ASSUME TypeOK, NEW m \in [job: Job, attempt: Attempt, status: Terminal, sess: BOOLEAN],
         NEW r, ServeReport(m, r)
  PROVE  /\ jobStatus' \in [Job -> {"pending", "running"} \cup Terminal]
         /\ attempt' \in [Job -> Attempt]
         /\ keyClaim' \in [Key -> Claim \cup {NoClaim}]
         /\ closed' \subseteq Key
         /\ evidence' \subseteq Job \X Attempt
  BY DEF TypeOK, ServeReport, Accepts, coordinate

\* The report of a settled process has the type of a report.
LEMMA TypeReportOf ==
  ASSUME TypeOK, NEW p \in Proc, pc[p] = "settled"
  PROVE  ReportOf(p) \in [job: Job, attempt: Attempt, status: Terminal, sess: BOOLEAN]
  BY ClaimShape DEF TypeOK, ReportOf

\* An abandoned request leaves well-typed messages on the wire.
LEMMA TypeAbandon ==
  ASSUME TypeOK, NEW p \in Proc, AbandonRequest(p)
  PROVE  /\ late' \subseteq [key: Key, rec: BOOLEAN]
         /\ lateReports' \subseteq [job: Job, attempt: Attempt, status: Terminal, sess: BOOLEAN]
         /\ progressWire' \subseteq Job \X Attempt
<1>1. pc[p] = "sent" => KeyOf(p) \in Key
  BY DEF TypeOK, KeyOf, Key
<1> QED
  BY <1>1, TypeReportOf DEF TypeOK, AbandonRequest, wire

\* A process that forgets its claim holds nothing; the others keep theirs.
LEMMA TypeForget ==
  ASSUME TypeOK, NEW p \in Proc, Forget(p)
  PROVE  /\ resp' \in [Proc -> [kind: {"none", "claimed", "empty", "refused"},
                                claim: Claim \cup {NoClaim}]]
         /\ cur' \in [Proc -> Claim \cup {NoClaim}]
         /\ provider' \in [Proc -> {"none", "fresh", "resume", "recovery"}]
         /\ result' \in [Proc -> [status: Terminal \cup {"none"}, sess: BOOLEAN]]
         /\ receipt' \in [Proc -> [status: Terminal \cup {"none", "conflict"},
                                   attempt: Attempt]]
         /\ cur'[p] = NoClaim /\ provider'[p] = "none" /\ result'[p].status = "none"
         /\ resp'[p].kind = "none" /\ resp'[p].claim = NoClaim
         /\ receipt'[p].status = "none"
         /\ \A q \in Proc \ {p} :
              /\ cur'[q] = cur[q] /\ provider'[q] = provider[q]
              /\ result'[q] = result[q] /\ resp'[q] = resp[q] /\ receipt'[q] = receipt[q]
  BY DEF TypeOK, Forget, NoResp, NoResult, NoReceipt, Attempt

\* The end of a process keeps the types.
LEMMA TypeLeave ==
  ASSUME TypeOK, NEW p \in Proc, NEW how \in {"exited", "failed"}, Leave(p, how)
  PROVE  TypeOK'
  BY TypeAbandon, TypeForget DEF TypeOK, Leave, coordinate, history, ProcState, Gone

\* A process in _process_job holds a claim of a job.
LEMMA IdType ==
  ASSUME TypeOK, NEW p \in Proc, pc[p] \in {"check", "running", "settled"}
  PROVE  cur[p] \in Claim /\ Id(cur[p]) \in Job \X Attempt
  BY ClaimShape DEF TypeOK, Id

\* Every step keeps the types.
LEMMA TypeStep == TypeOK /\ [Next]_vars => TypeOK'
<1> SUFFICES ASSUME TypeOK, [Next]_vars PROVE TypeOK'
  OBVIOUS
<1>1. CASE UNCHANGED vars
  BY <1>1 DEF vars, coordinate, wire, worker, history, TypeOK
<1>2. ASSUME NEW j \in Job, LeaseExpires(j) PROVE TypeOK'
  BY <1>2 DEF TypeOK, LeaseExpires, wire, worker, history, Terminal
<1>3. ASSUME NEW m \in progressWire, ProgressArrives(m) PROVE TypeOK'
  BY <1>3 DEF TypeOK, ProgressArrives, worker, history
<1>4. ASSUME NEW m \in late, LateClaimServed(m) PROVE TypeOK'
  BY <1>4, TypeServeClaim DEF TypeOK, LateClaimServed, worker, history
<1>5. ASSUME NEW m \in lateReports, LateReportServed(m) PROVE TypeOK'
  BY <1>5, TypeServeReport DEF TypeOK, LateReportServed, worker, history
<1>6. ASSUME NEW p \in Proc, NEW rec \in BOOLEAN, Start(p, rec) PROVE TypeOK'
  BY <1>6 DEF TypeOK, Start, coordinate, wire, history, ProcState, Gone
<1>7. ASSUME NEW p \in Proc, LoopExit(p) \/ Crash(p) \/ ReportFails(p) PROVE TypeOK'
  BY <1>7, TypeLeave DEF LoopExit, Crash, ReportFails
<1>8. ASSUME NEW p \in Proc, SendClaim(p) PROVE TypeOK'
  BY <1>8 DEF TypeOK, SendClaim, coordinate, wire, history, ProcState, Gone
<1>9. ASSUME NEW p \in Proc, ClaimServed(p) PROVE TypeOK'
  BY <1>9, TypeServeClaim DEF TypeOK, ClaimServed, KeyOf, Key, wire, history, ProcState, Gone
<1>10. ASSUME NEW p \in Proc, ClaimUncertain(p) PROVE TypeOK'
  BY <1>10, TypeAbandon DEF TypeOK, ClaimUncertain, SerialAfterUncertain, NoResp, coordinate,
         history, ProcState, Gone
<1>11. ASSUME NEW p \in Proc, Reconcile(p) PROVE TypeOK'
  BY <1>11 DEF TypeOK, Reconcile, coordinate, wire, history, ProcState, Gone
<1>12. ASSUME NEW p \in Proc, ClaimMalformed(p) \/ ClaimRefused(p) PROVE TypeOK'
  <2>1. CASE ClaimMalformed(p)
    BY <2>1 DEF TypeOK, ClaimMalformed, NoResp, coordinate, wire, history, ProcState, Gone
  <2>2. CASE ClaimRefused(p)
    BY <2>2 DEF TypeOK, ClaimRefused, NoResp, coordinate, wire, history, ProcState, Gone
  <2> QED
    BY <1>12, <2>1, <2>2
<1>13. ASSUME NEW p \in Proc, ClaimAnswered(p) PROVE TypeOK'
  BY <1>13 DEF TypeOK, ClaimAnswered, SerialAfterAnswer, NoResp, coordinate, wire, history,
         ProcState, Gone
<1>14. ASSUME NEW p \in Proc, DropClaim(p) \/ LeaseLost(p) \/ ReportAnswered(p)
       PROVE  TypeOK'
  <2>1. CASE DropClaim(p)
    BY <2>1, TypeForget, IdType DEF TypeOK, DropClaim, coordinate, wire, ProcState, Gone
  <2>2. CASE LeaseLost(p)
    BY <2>2, TypeForget, IdType DEF TypeOK, LeaseLost, coordinate, wire, ProcState, Gone
  <2>3. CASE ReportAnswered(p)
    BY <2>3, TypeForget, IdType DEF TypeOK, ReportAnswered, coordinate, wire, ProcState, Gone
  <2> QED
    BY <1>14, <2>1, <2>2, <2>3
<1>15. ASSUME NEW p \in Proc, RejectClaim(p) PROVE TypeOK'
  BY <1>15 DEF TypeOK, RejectClaim, Terminal, coordinate, wire, history, ProcState, Gone
<1>16. ASSUME NEW p \in Proc, StartProvider(p) PROVE TypeOK'
  BY <1>16, IdType DEF TypeOK, StartProvider, ProviderFor, coordinate, wire, ProcState, Gone
<1>17. ASSUME NEW p \in Proc, SessionProgress(p) PROVE TypeOK'
  BY <1>17, IdType DEF TypeOK, SessionProgress, coordinate, worker, history
<1>18. ASSUME NEW p \in Proc, FreshFallback(p) PROVE TypeOK'
  BY <1>18 DEF TypeOK, FreshFallback, coordinate, wire, history
<1>19. ASSUME NEW p \in Proc, ProviderFinishes(p) PROVE TypeOK'
  <2>1. \A r \in Results(provider[p]) : r \in [status: Terminal, sess: BOOLEAN] /\ r.status # "none"
    BY <1>19 DEF TypeOK, Results, Terminal, ProviderFinishes
  <2> QED
    BY <1>19, <2>1, IdType DEF TypeOK, ProviderFinishes, coordinate, wire, ProcState, Gone
<1>20. ASSUME NEW p \in Proc, LeaseLostUnclean(p) PROVE TypeOK'
  BY <1>20 DEF TypeOK, LeaseLostUnclean, Terminal, coordinate, wire, history, ProcState, Gone
<1>21. ASSUME NEW p \in Proc, ReportServed(p) PROVE TypeOK'
  BY <1>21, TypeReportOf, TypeServeReport DEF TypeOK, ReportServed, wire, history
<1> QED
  BY <1>1, <1>2, <1>3, <1>4, <1>5, <1>6, <1>7, <1>8, <1>9, <1>10, <1>11, <1>12, <1>13, <1>14, 
     <1>15, <1>16, <1>17, <1>18, <1>19, <1>20, <1>21 DEF Next, CoordinateNext, ProcNext

\* The state always has its type, for every set of processes, jobs and bounds.
THEOREM TypeCorrect == Spec => []TypeOK
  BY TypeInit, TypeStep, PTL DEF Spec

-----------------------------------------------------------------------------
(* What a step does to Coordinate.                                          *)

\* A claim request of process k[1] in mode rec that Coordinate may serve now.
Requested(k, rec) ==
  \/ k[1] \in Proc /\ pc[k[1]] = "sent" /\ k = KeyOf(k[1]) /\ rec = recovery[k[1]]
  \/ [key |-> k, rec |-> rec] \in late

\* The step grants the claim k an attempt of job j.
Granted(k, j, rec) ==
  /\ Requested(k, rec) /\ Claimable(j, rec)
  /\ keyClaim[k] = NoClaim /\ k \notin closed
  /\ jobStatus' = [jobStatus EXCEPT ![j] = "running"]
  /\ attempt' = [attempt EXCEPT ![j] = @ + 1]
  /\ keyClaim' = [keyClaim EXCEPT ![k] = [job |-> j, attempt |-> attempt[j] + 1,
                                          evid |-> HasEvidence(j)]]
  /\ UNCHANGED <<closed, evidence>>

\* The step grants nothing.
Quiet ==
  /\ UNCHANGED <<attempt, keyClaim>>
  /\ \A j \in Job : \/ jobStatus'[j] = jobStatus[j]
                    \/ jobStatus[j] = "running" /\ jobStatus'[j] \in Terminal
  /\ closed \subseteq closed'
  /\ \A k \in closed' \ closed : keyClaim[k] = NoClaim
  /\ evidence' \subseteq evidence \cup {<<j, attempt[j]>> : j \in Job}

\* Serving a claim request grants one attempt or none.
LEMMA ServeClaimStep ==
  ASSUME TypeOK, NEW k \in Key, NEW rec \in BOOLEAN, NEW r, Requested(k, rec),
         ServeClaim(k, rec, r)
  PROVE  Quiet \/ \E j \in Job : Granted(k, j, rec)
<1>1. CASE ReplayClaim(k, r)
  BY <1>1 DEF ReplayClaim, Quiet, coordinate
<1>2. CASE GrantClaim(k, rec, r)
  BY <1>2 DEF GrantClaim, Granted
<1>3. CASE RefuseClaim(k, r)
  BY <1>3 DEF RefuseClaim, Quiet
<1> QED
  BY <1>1, <1>2, <1>3 DEF ServeClaim

\* Serving a report grants nothing and settles only a running job.
LEMMA ServeReportStep ==
  ASSUME TypeOK, NEW m \in [job: Job, attempt: Attempt, status: Terminal, sess: BOOLEAN],
         NEW r, ServeReport(m, r)
  PROVE  Quiet
  BY DEF ServeReport, Accepts, Authority, Quiet, coordinate, TypeOK

\* Every step grants one attempt, to a key somebody asked with, or none.
LEMMA CoordinateStep ==
  ASSUME TypeOK, [Next]_vars
  PROVE  Quiet \/ \E k \in Key, j \in Job, rec \in BOOLEAN : Granted(k, j, rec)
<1>1. CASE UNCHANGED coordinate
  BY <1>1 DEF Quiet, coordinate
<1>2. ASSUME NEW j \in Job, LeaseExpires(j) PROVE Quiet
  BY <1>2 DEF LeaseExpires, Quiet, TypeOK, Terminal
<1>3. ASSUME NEW m \in progressWire, ProgressArrives(m) PROVE Quiet
  BY <1>3 DEF ProgressArrives, Authority, Quiet, TypeOK
<1>4. ASSUME NEW m \in late, LateClaimServed(m)
      PROVE  Quiet \/ \E k \in Key, j \in Job, rec \in BOOLEAN : Granted(k, j, rec)
  <2>1. m.key \in Key /\ m.rec \in BOOLEAN /\ Requested(m.key, m.rec)
    BY <1>4 DEF TypeOK, Requested
  <2> QED
    BY <1>4, <2>1, ServeClaimStep DEF LateClaimServed
<1>5. ASSUME NEW m \in lateReports, LateReportServed(m) PROVE Quiet
  BY <1>5, ServeReportStep DEF LateReportServed, TypeOK
<1>6. ASSUME NEW p \in Proc, ClaimServed(p)
      PROVE  Quiet \/ \E k \in Key, j \in Job, rec \in BOOLEAN : Granted(k, j, rec)
  <2>1. KeyOf(p) \in Key /\ recovery[p] \in BOOLEAN /\ Requested(KeyOf(p), recovery[p])
    BY <1>6 DEF TypeOK, Requested, ClaimServed, KeyOf, Key
  <2> QED
    BY <1>6, <2>1, ServeClaimStep DEF ClaimServed
<1>7. ASSUME NEW p \in Proc, ReportServed(p) PROVE Quiet
  BY <1>7, TypeReportOf, ServeReportStep DEF ReportServed
<1>8. ASSUME NEW p \in Proc, ProcNext(p), ~ClaimServed(p), ~ReportServed(p)
      PROVE  UNCHANGED coordinate
  BY <1>8 DEF ProcNext, Start, LoopExit, Crash, Leave, SendClaim, ClaimUncertain, Reconcile,
      ClaimMalformed, ClaimRefused, ClaimAnswered, DropClaim, RejectClaim, StartProvider,
      SessionProgress, FreshFallback, ProviderFinishes, LeaseLost, LeaseLostUnclean,
      ReportAnswered, ReportFails
<1>9. UNCHANGED vars => UNCHANGED coordinate
  BY DEF vars
<1> QED
  BY <1>1, <1>2, <1>3, <1>4, <1>5, <1>6, <1>7, <1>8, <1>9 DEF Next, CoordinateNext

\* A claim appears under a key only by a grant to that key.
LEMMA NewClaimGranted ==
  ASSUME TypeOK, [Next]_vars, NEW k \in Key, keyClaim'[k] # keyClaim[k]
  PROVE  \E j \in Job, rec \in BOOLEAN : Granted(k, j, rec)
<1>1. ~Quiet
  BY DEF Quiet
<1>2. PICK l \in Key, j \in Job, rec \in BOOLEAN : Granted(l, j, rec)
  BY <1>1, CoordinateStep
<1>3. l = k
  BY <1>2 DEF Granted, TypeOK
<1> QED
  BY <1>2, <1>3

\* Attempts only grow, a recorded claim stays, and nothing leaves a terminal
\* state but by a new attempt; done is final.
LEMMA CoordinateMonotone ==
  ASSUME TypeOK, [Next]_vars
  PROVE  /\ \A k \in Key : keyClaim[k] # NoClaim => keyClaim'[k] = keyClaim[k]
         /\ \A j \in Job : attempt[j] <= attempt'[j]
         /\ \A j \in Job : jobStatus[j] = "done" =>
                            jobStatus'[j] = "done" /\ attempt'[j] = attempt[j]
         /\ \A j \in Job, a \in Attempt :
              a <= attempt[j] /\ Authority(j, a)' => Authority(j, a)
         /\ closed \subseteq closed'
<1>1. CASE Quiet
  BY <1>1 DEF Quiet, TypeOK, Attempt, Authority, Terminal
<1>2. ASSUME NEW k \in Key, NEW j \in Job, NEW rec \in BOOLEAN, Granted(k, j, rec)
      PROVE  /\ \A l \in Key : keyClaim[l] # NoClaim => keyClaim'[l] = keyClaim[l]
             /\ \A i \in Job : attempt[i] <= attempt'[i]
             /\ \A i \in Job : jobStatus[i] = "done" =>
                            jobStatus'[i] = "done" /\ attempt'[i] = attempt[i]
             /\ \A i \in Job, a \in Attempt :
                   a <= attempt[i] /\ Authority(i, a)' => Authority(i, a)
             /\ closed \subseteq closed'
  BY <1>2 DEF Granted, Claimable, TypeOK, Attempt, Authority
<1> QED
  BY <1>1, <1>2, CoordinateStep

-----------------------------------------------------------------------------
(* The parts of the inductive invariant.                                    *)

\* Two keys never stand for the same attempt, and a key with a claim stays open.
ClaimKeys ==
  /\ \A k \in Key : keyClaim[k] # NoClaim =>
       /\ keyClaim[k].attempt \in 1..attempt[keyClaim[k].job]
       /\ k \notin closed
  /\ \A k1, k2 \in Key :
       keyClaim[k1] # NoClaim /\ Id(keyClaim[k1]) = Id(keyClaim[k2]) => k1 = k2

\* An answer, or a claim in hand, is the claim recorded under the key it was
\* asked with.
InHand ==
  \A p \in Proc :
    /\ resp[p].kind = "claimed" => Id(resp[p].claim) = Id(keyClaim[KeyOf(p)])
    /\ cur[p] # NoClaim => /\ serial[p] > 1
                           /\ Id(cur[p]) = Id(keyClaim[<<p, serial[p] - 1>>])

\* What was executed was in hand once, under a key that is not coming back.
ExecutedClaims ==
  \A e \in executed : \E p \in Proc, n \in 1..MaxSerial :
    /\ n < serial[p]
    /\ Id(keyClaim[<<p, n>>]) = e
    /\ n = serial[p] - 1 => pc[p] # "check"

\* A report of success, in hand or on the wire, has a token and a success.
Reports ==
  /\ \A m \in lateReports :
       /\ m.attempt > 0
       /\ m.status = "done" => <<m.job, m.attempt>> \in succeeded
  /\ \A p \in Proc : result[p].status = "done" => Id(cur[p]) \in succeeded

\* A receipt tells the truth about its job, then and later.
Receipts ==
  \A p \in Proc :
    /\ receipt[p].status # "none" => pc[p] = "settled"
    /\ receipt[p].status \in Terminal => ~Authority(cur[p].job, cur[p].attempt)
    /\ receipt[p].status = "done" /\ receipt[p].attempt = cur[p].attempt =>
         jobStatus[cur[p].job] = "done" /\ attempt[cur[p].job] = cur[p].attempt

\* Session evidence of an attempt before c's.
EvidenceBefore(c) == \E a \in Attempt : a < c.attempt /\ <<c.job, a>> \in evidence

\* A claim that was not told of evidence has none before it.
Evidence ==
  \A p \in Proc :
    /\ resp[p].kind = "claimed" /\ EvidenceBefore(resp[p].claim) => resp[p].claim.evid
    /\ cur[p] # NoClaim /\ EvidenceBefore(cur[p]) => cur[p].evid
    /\ provider[p] \in {"fresh", "resume"} => ~cur[p].evid

\* A recovery process is alone, and only it gets a second attempt of a job.
Recovery ==
  /\ \A j \in Job : jobStatus[j] = "pending" <=> attempt[j] = 0
  /\ \A p, q \in Proc : Alive(p) /\ Alive(q) /\ recovery[p] => p = q
  /\ \A m \in late : /\ pc[m.key[1]] # "off"
                     /\ Alive(m.key[1]) => m.rec = recovery[m.key[1]]
  /\ \A k \in Key : keyClaim[k] # NoClaim =>
       /\ pc[k[1]] # "off"
       /\ Alive(k[1]) /\ ~recovery[k[1]] => keyClaim[k].attempt = 1

\* Keys left behind were answered for good, keys to come were never asked.
Serials ==
  /\ \A p \in Proc :
       /\ resp[p].kind = "empty" /\ FencedEmpty => KeyOf(p) \in closed
       /\ \A n \in 1..MaxSerial :
            /\ n < serial[p] /\ FencedEmpty => keyClaim[<<p, n>>] # NoClaim \/ <<p, n>> \in closed
            /\ n > serial[p] => keyClaim[<<p, n>>] = NoClaim
  /\ \A m \in late : m.key[2] <= serial[m.key[1]]

-----------------------------------------------------------------------------
\* Grants number the attempts of a job and use each key once.
LEMMA ClaimKeysStep ==
  ASSUME TypeOK, ClaimKeys, [Next]_vars
  PROVE  ClaimKeys'
<1>1. CASE Quiet
  BY <1>1 DEF Quiet, ClaimKeys, Id
<1>2. ASSUME NEW k \in Key, NEW j \in Job, NEW rec \in BOOLEAN, Granted(k, j, rec)
      PROVE  ClaimKeys'
  <2>1. /\ \A l \in Key \ {k} : keyClaim'[l] = keyClaim[l]
        /\ keyClaim'[k].job = j /\ keyClaim'[k].attempt = attempt[j] + 1
        /\ attempt'[j] = attempt[j] + 1 /\ \A i \in Job \ {j} : attempt'[i] = attempt[i]
        /\ closed' = closed /\ k \notin closed
        /\ attempt[j] \in Nat
    BY <1>2 DEF Granted, TypeOK, Attempt
  <2>2. ASSUME NEW l \in Key \ {k}, keyClaim[l] # NoClaim
        PROVE  /\ keyClaim[l].job \in Job /\ keyClaim[l].attempt \in 1..attempt[keyClaim[l].job]
               /\ Id(keyClaim[l]) # Id(keyClaim'[k])
    BY <2>1, <2>2, ClaimShape DEF ClaimKeys, Id, TypeOK
  <2>3. Id(NoClaim) # Id(keyClaim'[k])
    BY <2>1, ClaimShape DEF Id
  <2>4. \A l \in Key : keyClaim'[l] # NoClaim =>
          keyClaim'[l].attempt \in 1..attempt'[keyClaim'[l].job] /\ l \notin closed'
    <3>1. ASSUME NEW l \in Key \ {k}, keyClaim[l] # NoClaim
          PROVE  keyClaim[l].attempt \in 1..attempt'[keyClaim[l].job] /\ l \notin closed
      BY <2>1, <2>2, <3>1, SMTT(30) DEF ClaimKeys, TypeOK, Attempt
    <3>2. keyClaim'[k].attempt \in 1..attempt'[keyClaim'[k].job]
      BY <2>1
    <3> QED
      BY <2>1, <3>1, <3>2
  <2>5. \A k1, k2 \in Key :
          keyClaim'[k1] # NoClaim /\ Id(keyClaim'[k1]) = Id(keyClaim'[k2]) => k1 = k2
    BY <2>1, <2>2, <2>3 DEF ClaimKeys
  <2> QED
    BY <2>4, <2>5 DEF ClaimKeys, Id
<1> QED
  BY <1>1, <1>2, CoordinateStep

\* A claim in hand is recorded under a key its process has used.
LEMMA InHandRecorded ==
  ASSUME TypeOK, InHand, NEW p \in Proc
  PROVE  /\ resp[p].kind = "claimed" =>
              /\ KeyOf(p) \in Key /\ keyClaim[KeyOf(p)] # NoClaim
              /\ resp[p].claim \in Claim
         /\ cur[p] # NoClaim =>
              /\ <<p, serial[p] - 1>> \in Key /\ keyClaim[<<p, serial[p] - 1>>] # NoClaim
              /\ cur[p] \in Claim
<1>1. ASSUME resp[p].kind = "claimed"
      PROVE  /\ KeyOf(p) \in Key /\ keyClaim[KeyOf(p)] # NoClaim
             /\ resp[p].claim \in Claim
  <2>1. resp[p].claim \in Claim /\ pc[p] = "answered"
    BY <1>1 DEF TypeOK
  <2>2. KeyOf(p) \in Key
    BY <2>1 DEF TypeOK, KeyOf, Key
  <2>3. keyClaim[KeyOf(p)].job = resp[p].claim.job
    BY <1>1 DEF InHand, Id
  <2> QED
    BY <2>1, <2>2, <2>3, ClaimShape
<1>2. ASSUME cur[p] # NoClaim
      PROVE  /\ <<p, serial[p] - 1>> \in Key /\ keyClaim[<<p, serial[p] - 1>>] # NoClaim
             /\ cur[p] \in Claim
  <2>1. cur[p] \in Claim
    BY <1>2 DEF TypeOK
  <2>2. <<p, serial[p] - 1>> \in Key
    BY <1>2 DEF TypeOK, InHand, Key
  <2>3. keyClaim[<<p, serial[p] - 1>>].job = cur[p].job
    BY <1>2 DEF InHand, Id
  <2> QED
    BY <2>1, <2>2, <2>3, ClaimShape
<1> QED
  BY <1>1, <1>2

\* Only the three groups of actions below touch a claim in hand.
LEMMA InHandStep ==
  ASSUME TypeOK, TypeOK', InHand, [Next]_vars
  PROVE  InHand'
<1> DEFINE HandOf(q) == 
      /\ resp'[q].kind = "claimed" => Id(resp'[q].claim) = Id(keyClaim'[<<q, serial'[q]>>])
      /\ cur'[q] # NoClaim => /\ serial'[q] > 1
                              /\ Id(cur'[q]) = Id(keyClaim'[<<q, serial'[q] - 1>>])
<1>1. ASSUME NEW q \in Proc, resp'[q] = resp[q], cur'[q] = cur[q], serial'[q] = serial[q]
      PROVE  HandOf(q)
  BY <1>1, InHandRecorded, CoordinateMonotone DEF InHand, KeyOf
<1>2. ASSUME NEW p \in Proc, ClaimServed(p) PROVE \A q \in Proc : HandOf(q)
  <2>1. \A q \in Proc \ {p} : resp'[q] = resp[q]
    BY <1>2 DEF ClaimServed, TypeOK
  <2>2. UNCHANGED <<cur, serial>> /\ cur[p] = NoClaim
    BY <1>2 DEF ClaimServed, TypeOK
  <2>3. resp'[p].kind = "claimed" => Id(resp'[p].claim) = Id(keyClaim'[KeyOf(p)])
    <3>1. PICK r : ServeClaim(KeyOf(p), recovery[p], r) /\ resp' = [resp EXCEPT ![p] = r]
      BY <1>2 DEF ClaimServed
    <3>2. KeyOf(p) \in Key
      BY <1>2 DEF ClaimServed, TypeOK, KeyOf, Key
    <3>3. CASE ReplayClaim(KeyOf(p), r)
      BY <3>1, <3>2, <3>3 DEF ReplayClaim, TypeOK, Id, coordinate, Claim
    <3>4. CASE GrantClaim(KeyOf(p), recovery[p], r)
      BY <3>1, <3>2, <3>4 DEF GrantClaim, TypeOK, Id
    <3>5. CASE RefuseClaim(KeyOf(p), r)
      BY <3>1, <3>2, <3>5 DEF RefuseClaim, TypeOK
    <3> QED
      BY <3>1, <3>3, <3>4, <3>5 DEF ServeClaim
  <2> QED
    BY <1>1, <2>1, <2>2, <2>3 DEF KeyOf
<1>3. ASSUME NEW p \in Proc, ClaimAnswered(p) PROVE \A q \in Proc : HandOf(q)
  <2>1. \A q \in Proc \ {p} : resp'[q] = resp[q] /\ cur'[q] = cur[q] /\ serial'[q] = serial[q]
    BY <1>3 DEF ClaimAnswered, TypeOK
  <2>2. /\ resp'[p].kind = "none" /\ cur'[p] = resp[p].claim /\ serial'[p] = serial[p] + 1
        /\ keyClaim' = keyClaim
    BY <1>3 DEF ClaimAnswered, TypeOK, NoResp, SerialAfterAnswer, coordinate
  <2>3. resp[p].claim # NoClaim => resp[p].kind = "claimed"
    BY DEF TypeOK
  <2>4. serial[p] \in 1..MaxSerial
    BY <1>3 DEF ClaimAnswered, TypeOK
  <2>5. cur'[p] # NoClaim => Id(cur'[p]) = Id(keyClaim'[<<p, serial[p]>>])
    BY <2>2, <2>3 DEF InHand, KeyOf
  <2>6. serial'[p] - 1 = serial[p] /\ serial'[p] > 1
    BY <2>2, <2>4
  <2>7. HandOf(p)
    BY <2>2, <2>5, <2>6
  <2> QED
    BY <1>1, <2>1, <2>7
<1>4. ASSUME NEW p \in Proc, Forget(p), serial' = serial PROVE \A q \in Proc : HandOf(q)
  BY <1>1, <1>4, TypeForget
<1>5. ASSUME NEW p \in Proc, ClaimUncertain(p) \/ ClaimMalformed(p) \/ ClaimRefused(p)
      PROVE  \A q \in Proc : HandOf(q)
  <2>1. /\ resp' = [resp EXCEPT ![p] = NoResp] /\ cur' = cur
        /\ \A q \in Proc : serial'[q] = serial[q]
    BY <1>5 DEF ClaimUncertain, ClaimMalformed, ClaimRefused, SerialAfterUncertain, TypeOK
  <2>2. pc[p] \in {"sent", "answered"}
    BY <1>5 DEF ClaimUncertain, ClaimMalformed, ClaimRefused
  <2>3. cur'[p] = NoClaim
    BY <2>1, <2>2 DEF TypeOK
  <2>6. resp'[p].kind = "none"
    BY <2>1 DEF TypeOK, NoResp
  <2>4. HandOf(p)
    BY <2>3, <2>6
  <2>5. \A q \in Proc \ {p} : resp'[q] = resp[q]
    BY <2>1 DEF TypeOK
  <2> QED
    BY <1>1, <2>1, <2>4, <2>5
<1>6. ASSUME UNCHANGED <<resp, cur, serial>> PROVE \A q \in Proc : HandOf(q)
  <2>1. \A q \in Proc : resp'[q] = resp[q] /\ cur'[q] = cur[q] /\ serial'[q] = serial[q]
    BY <1>6
  <2> HIDE DEF HandOf
  <2> QED
    BY <1>1, <2>1
<1> HIDE DEF HandOf
<1>7. ASSUME NEW p \in Proc, ProcNext(p) PROVE \A q \in Proc : HandOf(q)
  BY <1>2, <1>3, <1>4, <1>5, <1>6, <1>7
  DEF ProcNext, Start, LoopExit, Crash, Leave, SendClaim, Reconcile, DropClaim, RejectClaim,
      StartProvider, SessionProgress, FreshFallback, ProviderFinishes, LeaseLost,
      LeaseLostUnclean, ReportServed, ReportAnswered, ReportFails, worker
<1>8. ASSUME CoordinateNext PROVE \A q \in Proc : HandOf(q)
  BY <1>6, <1>8 DEF CoordinateNext, LeaseExpires, ProgressArrives, LateClaimServed,
      LateReportServed, worker
<1>9. \A q \in Proc : HandOf(q)
  BY <1>6, <1>7, <1>8 DEF Next, vars, worker
<1> QED
  BY <1>9 DEF InHand, KeyOf, HandOf

-----------------------------------------------------------------------------
(* What a step does to the processes.                                       *)

SameWorker(q) ==
  /\ pc'[q] = pc[q] /\ recovery'[q] = recovery[q] /\ serial'[q] = serial[q]
  /\ resp'[q] = resp[q] /\ cur'[q] = cur[q] /\ provider'[q] = provider[q]
  /\ result'[q] = result[q] /\ receipt'[q] = receipt[q]

\* A process touches only its own variables.
LEMMA OthersUnchanged ==
  ASSUME TypeOK, NEW p \in Proc, NEW q \in Proc \ {p}, ProcNext(p)
  PROVE  SameWorker(q)
<1>1. ASSUME NEW rec \in BOOLEAN, Start(p, rec) PROVE SameWorker(q)
  BY <1>1 DEF Start, SameWorker, TypeOK
<1>2. CASE LoopExit(p) \/ Crash(p) \/ ReportFails(p)
  BY <1>2, TypeForget DEF LoopExit, Crash, ReportFails, Leave, SameWorker, TypeOK
<1>3. CASE SendClaim(p) \/ Reconcile(p) \/ ClaimMalformed(p) \/ ClaimRefused(p)
  BY <1>3 DEF SendClaim, Reconcile, ClaimMalformed, ClaimRefused, SameWorker, TypeOK
<1>4. CASE ClaimServed(p) \/ ClaimUncertain(p) \/ ClaimAnswered(p)
  BY <1>4 DEF ClaimServed, ClaimUncertain, ClaimAnswered, SameWorker, TypeOK
<1>5. CASE DropClaim(p) \/ LeaseLost(p) \/ ReportAnswered(p)
  BY <1>5, TypeForget DEF DropClaim, LeaseLost, ReportAnswered, SameWorker, TypeOK
<1>6. CASE RejectClaim(p) \/ StartProvider(p) \/ SessionProgress(p) \/ FreshFallback(p)
  BY <1>6 DEF RejectClaim, StartProvider, SessionProgress, FreshFallback, SameWorker,
              TypeOK, worker
<1>7. CASE ProviderFinishes(p) \/ LeaseLostUnclean(p) \/ ReportServed(p)
  BY <1>7, ZenonT(60) DEF ProviderFinishes, LeaseLostUnclean, ReportServed, SameWorker, TypeOK
<1> QED
  BY <1>1, <1>2, <1>3, <1>4, <1>5, <1>6, <1>7 DEF ProcNext

\* A step is one of process q or leaves q alone.
LEMMA ProcessStep ==
  ASSUME TypeOK, [Next]_vars, NEW q \in Proc
  PROVE  SameWorker(q) \/ ProcNext(q)
<1>1. ASSUME CoordinateNext PROVE UNCHANGED worker
  BY <1>1 DEF CoordinateNext, LeaseExpires, ProgressArrives, LateClaimServed, LateReportServed
<1>2. UNCHANGED worker => SameWorker(q)
  BY DEF worker, SameWorker
<1> QED
  BY <1>1, <1>2, OthersUnchanged DEF Next, vars

\* A process that leaves its claim loop with a claim uses a new key.
LEMMA SerialStep ==
  ASSUME TypeOK, [Next]_vars, NEW p \in Proc
  PROVE  \/ serial'[p] = serial[p] /\ (pc'[p] = "check" => pc[p] = "check")
         \/ serial'[p] = serial[p] + 1 /\ ClaimAnswered(p)
<1>1. CASE ClaimAnswered(p)
  BY <1>1 DEF ClaimAnswered, SerialAfterAnswer, TypeOK
<1>2. CASE ProcNext(p) /\ ~ClaimAnswered(p)
  <2>1. serial'[p] = serial[p]
    BY <1>2 DEF TypeOK, ProcNext, Start, LoopExit, Crash, Leave, SendClaim, ClaimServed,
      ClaimUncertain, SerialAfterUncertain, Reconcile, ClaimMalformed, ClaimRefused, DropClaim,
      RejectClaim, StartProvider, SessionProgress, FreshFallback, ProviderFinishes, LeaseLost,
      LeaseLostUnclean, ReportServed, ReportAnswered, ReportFails, worker
  <2>2. pc'[p] = "check" => pc[p] = "check"
    BY <1>2 DEF TypeOK, ProcNext, Start, LoopExit, Crash, Leave, SendClaim, ClaimServed,
      ClaimUncertain, Reconcile, ClaimMalformed, ClaimRefused, DropClaim,
      RejectClaim, StartProvider, SessionProgress, FreshFallback, ProviderFinishes, LeaseLost,
      LeaseLostUnclean, ReportServed, ReportAnswered, ReportFails, worker
  <2> QED
    BY <2>1, <2>2
<1> QED
  BY <1>1, <1>2, ProcessStep DEF SameWorker

\* Only StartProvider executes an attempt.
LEMMA ExecutedStep ==
  ASSUME [Next]_vars
  PROVE  executed' = executed \/ \E p \in Proc : StartProvider(p)
  BY DEF Next, CoordinateNext, ProcNext, LeaseExpires, ProgressArrives, LateClaimServed,
      LateReportServed, Start, LoopExit, Crash, Leave, SendClaim, ClaimServed,
      ClaimUncertain, Reconcile, ClaimMalformed, ClaimRefused, ClaimAnswered, DropClaim,
      RejectClaim, SessionProgress, FreshFallback, ProviderFinishes, LeaseLost,
      LeaseLostUnclean, ReportServed, ReportAnswered, ReportFails, vars, history

\* What was executed stays behind a used key.
LEMMA ExecutedClaimsStep ==
  ASSUME TypeOK, TypeOK', InHand, ExecutedClaims, [Next]_vars
  PROVE  ExecutedClaims'
<1>1. ASSUME NEW e \in executed
      PROVE  \E p \in Proc, n \in 1..MaxSerial :
               n < serial'[p] /\ Id(keyClaim'[<<p, n>>]) = e
               /\ (n = serial'[p] - 1 => pc'[p] # "check")
  <2>1. PICK p \in Proc, n \in 1..MaxSerial :
          n < serial[p] /\ Id(keyClaim[<<p, n>>]) = e /\ (n = serial[p] - 1 => pc[p] # "check")
    BY <1>1 DEF ExecutedClaims
  <2>2. keyClaim[<<p, n>>] # NoClaim
    BY <1>1, <2>1, ClaimShape DEF TypeOK, Id
  <2>3. keyClaim'[<<p, n>>] = keyClaim[<<p, n>>]
    BY <2>2, CoordinateMonotone DEF Key
  <2>4. serial[p] \in Nat
    BY DEF TypeOK
  <2> QED
    BY <2>1, <2>3, <2>4, SerialStep
<1>2. ASSUME NEW p \in Proc, StartProvider(p)
      PROVE  /\ executed' = executed \cup {Id(cur[p])} /\ pc'[p] = "running"
             /\ serial[p] - 1 \in 1..MaxSerial /\ serial'[p] = serial[p]
             /\ Id(keyClaim'[<<p, serial[p] - 1>>]) = Id(cur[p])
  <2>1. cur[p] # NoClaim /\ serial[p] \in 1..MaxSerial + 1
    BY <1>2 DEF StartProvider, TypeOK
  <2>2. serial[p] - 1 \in 1..MaxSerial
    <3>1. serial[p] > 1
      BY <2>1 DEF InHand
    <3> QED
      BY <2>1, <3>1
  <2>3. keyClaim' = keyClaim /\ serial' = serial /\ executed' = executed \cup {Id(cur[p])}
    BY <1>2 DEF StartProvider, coordinate
  <2>4. pc'[p] = "running"
    BY <1>2 DEF StartProvider, TypeOK
  <2> QED
    BY <2>1, <2>2, <2>3, <2>4 DEF InHand
<1>3. ASSUME NEW p \in Proc, StartProvider(p) PROVE ExecutedClaims'
  <2>1. serial[p] \in Nat
    BY DEF TypeOK
  <2>5. serial'[p] = serial[p]
    BY <1>2, <1>3
  <2>2. serial[p] - 1 < serial'[p]
    BY <2>1, <2>5
  <2>3. \E n \in 1..MaxSerial :
          n < serial'[p] /\ Id(keyClaim'[<<p, n>>]) = Id(cur[p])
          /\ (n = serial'[p] - 1 => pc'[p] # "check")
    BY <1>2, <1>3, <2>2
  <2>4. \A e \in executed' : e \in executed \/ e = Id(cur[p])
    BY <1>2, <1>3
  <2> QED
    BY <1>1, <2>3, <2>4 DEF ExecutedClaims, Id
<1> QED
  BY <1>1, <1>3, ExecutedStep DEF ExecutedClaims, Id

\* The run's property: an attempt in hand is not among the executed ones.
LEMMA InHandNotExecuted ==
  ASSUME TypeOK, ClaimKeys, InHand, ExecutedClaims, NEW p \in Proc, pc[p] = "check"
  PROVE  Id(cur[p]) \notin executed
<1>1. cur[p] # NoClaim
  BY DEF TypeOK
<1>2. /\ <<p, serial[p] - 1>> \in Key /\ keyClaim[<<p, serial[p] - 1>>] # NoClaim
      /\ Id(cur[p]) = Id(keyClaim[<<p, serial[p] - 1>>])
  BY <1>1, InHandRecorded DEF InHand
<1>3. SUFFICES ASSUME Id(cur[p]) \in executed PROVE FALSE
  OBVIOUS
<1>4. PICK q \in Proc, n \in 1..MaxSerial :
        Id(keyClaim[<<q, n>>]) = Id(cur[p]) /\ (n = serial[q] - 1 => pc[q] # "check")
  BY <1>3 DEF ExecutedClaims
<1>5. <<q, n>> \in Key /\ Id(keyClaim[<<p, serial[p] - 1>>]) = Id(keyClaim[<<q, n>>])
  BY <1>2, <1>4 DEF Key
<1>6. <<p, serial[p] - 1>> = <<q, n>>
  BY <1>2, <1>5 DEF ClaimKeys
<1> QED
  BY <1>4, <1>6

\* A claim in hand belongs to an attempt Coordinate made.
LEMMA InHandAttempt ==
  ASSUME TypeOK, ClaimKeys, InHand, NEW p \in Proc
  PROVE  /\ resp[p].kind = "claimed" =>
              /\ resp[p].claim.job \in Job
              /\ resp[p].claim.attempt \in 1..attempt[resp[p].claim.job]
         /\ cur[p] # NoClaim => /\ cur[p].job \in Job
                                /\ cur[p].attempt \in 1..attempt[cur[p].job]
<1>1. ASSUME NEW k \in Key, keyClaim[k] # NoClaim, NEW c \in Claim, Id(c) = Id(keyClaim[k])
      PROVE  c.job \in Job /\ c.attempt \in 1..attempt[c.job]
  BY <1>1, ClaimShape DEF ClaimKeys, Id
<1> QED
  BY <1>1, InHandRecorded DEF InHand, KeyOf

-----------------------------------------------------------------------------
\* A success is never forgotten.
LEMMA SucceededGrows == ASSUME [Next]_vars PROVE succeeded \subseteq succeeded'
<1>1. ASSUME NEW p \in Proc, ProviderFinishes(p) PROVE succeeded \subseteq succeeded'
  BY <1>1 DEF ProviderFinishes
<1>2. ASSUME NEW p \in Proc, ProcNext(p), ~ProviderFinishes(p) PROVE UNCHANGED succeeded
  BY <1>2 DEF ProcNext, Start, LoopExit, Crash, Leave, SendClaim, ClaimServed,
      ClaimUncertain, Reconcile, ClaimMalformed, ClaimRefused, ClaimAnswered, DropClaim,
      RejectClaim, StartProvider, SessionProgress, FreshFallback, LeaseLost,
      LeaseLostUnclean, ReportServed, ReportAnswered, ReportFails, history
<1>3. ASSUME CoordinateNext \/ UNCHANGED vars PROVE UNCHANGED succeeded
  BY <1>3 DEF CoordinateNext, LeaseExpires, ProgressArrives, LateClaimServed,
      LateReportServed, vars, history
<1> QED
  BY <1>1, <1>2, <1>3 DEF Next

\* A report comes on the wire from a settled process only.
LEMMA LateReportsStep ==
  ASSUME [Next]_vars
  PROVE  \/ lateReports' \subseteq lateReports
         \/ \E p \in Proc : pc[p] = "settled" /\ lateReports' = lateReports \cup {ReportOf(p)}
<1>1. ASSUME NEW p \in Proc, AbandonRequest(p)
      PROVE \/ lateReports' \subseteq lateReports
            \/ pc[p] = "settled" /\ lateReports' = lateReports \cup {ReportOf(p)}
  BY <1>1 DEF AbandonRequest, wire
<1>2. ASSUME NEW p \in Proc, ProcNext(p), ~AbandonRequest(p) PROVE UNCHANGED lateReports
  BY <1>2 DEF ProcNext, Start, LoopExit, Crash, Leave, SendClaim, ClaimServed,
      ClaimUncertain, Reconcile, ClaimMalformed, ClaimRefused, ClaimAnswered, DropClaim,
      RejectClaim, StartProvider, SessionProgress, FreshFallback, ProviderFinishes, LeaseLost,
      LeaseLostUnclean, ReportServed, ReportAnswered, ReportFails, wire
<1>3. ASSUME CoordinateNext \/ UNCHANGED vars PROVE lateReports' \subseteq lateReports
  BY <1>3 DEF CoordinateNext, LeaseExpires, ProgressArrives, LateClaimServed,
      LateReportServed, vars, wire
<1> QED
  BY <1>1, <1>2, <1>3 DEF Next

\* The result of a process changes when its provider ends, and is dropped
\* with its claim.
LEMMA ResultStep ==
  ASSUME TypeOK, [Next]_vars, NEW p \in Proc, result'[p].status = "done"
  PROVE  \/ result[p].status = "done" /\ cur'[p] = cur[p]
         \/ cur'[p] = cur[p] /\ Id(cur[p]) \in succeeded'
<1>1. CASE SameWorker(p)
  BY <1>1 DEF SameWorker
<1>2. CASE Forget(p)
  BY <1>2, TypeForget
<1>3. CASE RejectClaim(p) \/ LeaseLostUnclean(p)
  BY <1>3 DEF RejectClaim, LeaseLostUnclean, TypeOK
<1>4. CASE ProviderFinishes(p)
  BY <1>4 DEF ProviderFinishes, TypeOK
<1>5. CASE ClaimAnswered(p)
  BY <1>5 DEF ClaimAnswered, TypeOK
<1>6. ASSUME ProcNext(p), ~Forget(p), ~RejectClaim(p), ~LeaseLostUnclean(p),
             ~ProviderFinishes(p), ~ClaimAnswered(p)
      PROVE  UNCHANGED <<result, cur>>
  BY <1>6 DEF ProcNext, Start, LoopExit, Crash, Leave, SendClaim, ClaimServed,
      ClaimUncertain, Reconcile, ClaimMalformed, ClaimRefused, DropClaim,
      StartProvider, SessionProgress, FreshFallback, LeaseLost,
      ReportServed, ReportAnswered, ReportFails, worker
<1> QED
  BY <1>1, <1>2, <1>3, <1>4, <1>5, <1>6, ProcessStep

\* Reports of success stay true.
LEMMA ReportsStep ==
  ASSUME TypeOK, TypeOK', ClaimKeys, InHand, Reports, [Next]_vars
  PROVE  Reports'
<1>1. ASSUME NEW p \in Proc, result'[p].status = "done" PROVE Id(cur'[p]) \in succeeded'
  BY <1>1, ResultStep, SucceededGrows DEF Reports
<1>2. ASSUME NEW p \in Proc, pc[p] = "settled"
      PROVE  /\ ReportOf(p).attempt > 0
             /\ ReportOf(p).status = "done" =>
                  <<ReportOf(p).job, ReportOf(p).attempt>> \in succeeded
  BY <1>2, InHandAttempt DEF TypeOK, ReportOf, Reports, Id
<1>3. ASSUME NEW m \in lateReports'
      PROVE  m.attempt > 0 /\ (m.status = "done" => <<m.job, m.attempt>> \in succeeded)
  BY <1>2, LateReportsStep DEF Reports
<1> QED
  BY <1>1, <1>3, SucceededGrows DEF Reports, Id

-----------------------------------------------------------------------------
\* An answer to a report is held as long as the claim it was made for.
LEMMA ReceiptStep ==
  ASSUME TypeOK, TypeOK', Receipts, [Next]_vars, NEW p \in Proc, receipt'[p].status # "none"
  PROVE  \/ /\ receipt[p].status # "none" /\ receipt'[p] = receipt[p]
            /\ cur'[p] = cur[p] /\ pc'[p] = pc[p]
         \/ ReportServed(p)
<1>1. CASE SameWorker(p)
  BY <1>1 DEF SameWorker
<1>2. CASE Forget(p)
  BY <1>2, TypeForget
<1>3. CASE ProcNext(p) /\ pc[p] # "settled"
  <2>1. receipt[p].status = "none"
    BY <1>3 DEF Receipts
  <2>2. ~ReportServed(p) /\ ~Forget(p) => receipt' = receipt
    BY <1>3 DEF ProcNext, Start, LoopExit, Crash, Leave, SendClaim, ClaimServed,
      ClaimUncertain, Reconcile, ClaimMalformed, ClaimRefused, ClaimAnswered, DropClaim,
      RejectClaim, StartProvider, SessionProgress, FreshFallback, ProviderFinishes, LeaseLost,
      LeaseLostUnclean, ReportAnswered, ReportFails, worker
  <2> QED
    BY <1>2, <2>1, <2>2
<1>4. CASE ProcNext(p) /\ pc[p] = "settled"
  BY <1>2, <1>4 DEF ProcNext, Start, LoopExit, Crash, Leave, SendClaim, ClaimServed,
      ClaimUncertain, Reconcile, ClaimMalformed, ClaimRefused, ClaimAnswered, DropClaim,
      RejectClaim, StartProvider, SessionProgress, FreshFallback, ProviderFinishes, LeaseLost,
      LeaseLostUnclean, ReportAnswered, ReportFails, worker, Gone
<1> QED
  BY <1>1, <1>3, <1>4, ProcessStep

\* Receipts stay true: a settled attempt never runs again, done is final.
LEMMA ReceiptsStep ==
  ASSUME TypeOK, TypeOK', ClaimKeys, InHand, Receipts, [Next]_vars
  PROVE  Receipts'
<1> SUFFICES ASSUME NEW p \in Proc, receipt'[p].status # "none"
             PROVE  /\ pc'[p] = "settled"
                    /\ receipt'[p].status \in Terminal =>
                         ~Authority(cur[p].job, cur[p].attempt)' 
                    /\ receipt'[p].status = "done" /\ receipt'[p].attempt = cur'[p].attempt =>
                         /\ jobStatus'[cur'[p].job] = "done"
                         /\ attempt'[cur'[p].job] = cur'[p].attempt
  BY DEF Receipts, Authority, Terminal
<1>1. CASE receipt[p].status # "none" /\ receipt'[p] = receipt[p]
           /\ cur'[p] = cur[p] /\ pc'[p] = pc[p]
  <2>1. /\ pc[p] = "settled" /\ cur[p].job \in Job /\ cur[p].attempt \in 1..attempt[cur[p].job]
        /\ cur[p].attempt \in Attempt
    BY <1>1, InHandAttempt, IdType, ClaimShape DEF Receipts, TypeOK
  <2>2. Authority(cur[p].job, cur[p].attempt)' => Authority(cur[p].job, cur[p].attempt)
    BY <1>1, <2>1, CoordinateMonotone DEF Authority, TypeOK
  <2> QED
    BY <1>1, <2>1, <2>2, CoordinateMonotone DEF Receipts
<1>2. CASE ReportServed(p)
  <2>1. /\ cur[p].job \in Job /\ cur[p].attempt \in 1..attempt[cur[p].job]
        /\ cur'[p] = cur[p] /\ pc'[p] = "settled"
    BY <1>2, InHandAttempt DEF ReportServed, TypeOK
  <2>2. PICK r : ServeReport(ReportOf(p), r) /\ receipt' = [receipt EXCEPT ![p] = r]
    BY <1>2 DEF ReportServed
  <2>3. /\ receipt'[p] = r
        /\ ReportOf(p).job = cur[p].job /\ ReportOf(p).attempt = cur[p].attempt
        /\ ReportOf(p).status \in Terminal
    BY <1>2, <2>2, TypeReportOf DEF TypeOK, ReportOf, ReportServed
  <2> QED
    BY <2>1, <2>2, <2>3 DEF ServeReport, Accepts, Authority, TypeOK, Terminal, coordinate
<1> QED
  BY <1>1, <1>2, ReceiptStep

\* SessionStore is written in one place, after the receipt was compared.
LEMMA SavedStep ==
  ASSUME TypeOK, [Next]_vars
  PROVE  \/ saved' = saved
         \/ \E p \in Proc : Confirmed(p) /\ ReportAnswered(p) /\ saved' = saved \cup {Id(cur[p])}
<1>1. ASSUME NEW p \in Proc, ReportAnswered(p)
      PROVE saved' = saved \/ (Confirmed(p) /\ saved' = saved \cup {Id(cur[p])})
  BY <1>1 DEF ReportAnswered
<1>2. ASSUME NEW p \in Proc, ProcNext(p), ~ReportAnswered(p) PROVE UNCHANGED saved
  BY <1>2 DEF ProcNext, Start, LoopExit, Crash, Leave, SendClaim, ClaimServed,
      ClaimUncertain, Reconcile, ClaimMalformed, ClaimRefused, ClaimAnswered, DropClaim,
      RejectClaim, StartProvider, SessionProgress, FreshFallback, ProviderFinishes, LeaseLost,
      LeaseLostUnclean, ReportServed, ReportFails, history
<1>3. ASSUME CoordinateNext \/ UNCHANGED vars PROVE UNCHANGED saved
  BY <1>3 DEF CoordinateNext, LeaseExpires, ProgressArrives, LateClaimServed,
      LateReportServed, vars, history
<1> QED
  BY <1>1, <1>2, <1>3 DEF Next

\* SavedOnlyIfRecorded is preserved.
LEMMA SavedOnlyIfRecordedStep ==
  ASSUME TypeOK, Receipts, SavedOnlyIfRecorded, [Next]_vars
  PROVE  SavedOnlyIfRecorded'
<1>1. ASSUME NEW j \in Job, NEW a \in Attempt, <<j, a>> \in saved
      PROVE  jobStatus'[j] = "done" /\ attempt'[j] = a
  BY <1>1, CoordinateMonotone DEF SavedOnlyIfRecorded
<1>2. ASSUME NEW p \in Proc, Confirmed(p), ReportAnswered(p)
      PROVE  /\ jobStatus[cur[p].job] = "done" /\ attempt[cur[p].job] = cur[p].attempt
             /\ cur[p].job \in Job
  BY <1>2, IdType, ClaimShape DEF Confirmed, Receipts, ReportAnswered
<1>3. ASSUME NEW p \in Proc, Confirmed(p), ReportAnswered(p)
      PROVE  jobStatus'[cur[p].job] = "done" /\ attempt'[cur[p].job] = cur[p].attempt
  BY <1>2, <1>3, CoordinateMonotone
<1> QED
  BY <1>1, <1>3, SavedStep DEF SavedOnlyIfRecorded, Id

\* A job becomes done by the report of an attempt, fenced by its token.
LEMMA DoneByItsOwnAttemptStep ==
  ASSUME TypeOK, ClaimKeys, InHand, Reports, DoneByItsOwnAttempt, [Next]_vars
  PROVE  DoneByItsOwnAttempt'
<1>1. ASSUME NEW m \in [job: Job, attempt: Attempt, status: Terminal, sess: BOOLEAN], NEW r,
             ServeReport(m, r), m.attempt > 0,
             m.status = "done" => <<m.job, m.attempt>> \in succeeded,
             NEW j \in Job, jobStatus[j] # "done", jobStatus'[j] = "done"
      PROVE  <<j, attempt'[j]>> \in succeeded
  <2>1. m.attempt # 0
    BY <1>1 DEF Attempt
  <2>2. CASE Accepts(m) /\ jobStatus' = [jobStatus EXCEPT ![m.job] = m.status] /\ attempt' = attempt
    <3>1. j = m.job /\ m.status = "done"
      BY <1>1, <2>2 DEF TypeOK
    <3>2. attempt[j] = m.attempt
      BY <2>1, <2>2, <3>1 DEF Accepts, Authority
    <3> QED
      BY <1>1, <2>2, <3>1, <3>2
  <2>3. CASE UNCHANGED coordinate
    BY <1>1, <2>3 DEF coordinate
  <2> QED
    BY <1>1, <2>2, <2>3 DEF ServeReport
<1>2. ASSUME NEW p \in Proc, ReportServed(p)
      PROVE  /\ ReportOf(p).attempt > 0
             /\ ReportOf(p).status = "done" =>
                  <<ReportOf(p).job, ReportOf(p).attempt>> \in succeeded
  BY <1>2, InHandAttempt DEF TypeOK, ReportOf, Reports, Id, ReportServed
<1>3. ASSUME NEW j \in Job, jobStatus[j] # "done", jobStatus'[j] = "done"
      PROVE  \/ \E p \in Proc : ReportServed(p)
             \/ \E m \in lateReports : LateReportServed(m)
  <2>1. jobStatus'[j] # jobStatus[j]
    BY <1>3
  <2>2. ASSUME NEW i \in Job, LeaseExpires(i) PROVE FALSE
    BY <1>3, <2>2 DEF LeaseExpires, TypeOK
  <2>3. ASSUME NEW k \in Key, NEW rec \in BOOLEAN, NEW r, ServeClaim(k, rec, r) PROVE FALSE
    BY <1>3, <2>3 DEF ServeClaim, ReplayClaim, GrantClaim, RefuseClaim, coordinate, TypeOK
  <2>4. ASSUME NEW p \in Proc, ClaimServed(p) PROVE FALSE
    BY <2>3, <2>4 DEF ClaimServed, KeyOf, Key, TypeOK
  <2>5. ASSUME NEW m \in late, LateClaimServed(m) PROVE FALSE
    BY <2>3, <2>5 DEF LateClaimServed, TypeOK
  <2>6. ASSUME NEW p \in Proc, ProcNext(p), ~ClaimServed(p), ~ReportServed(p) PROVE FALSE
    BY <1>3, <2>6 DEF ProcNext, Start, LoopExit, Crash, Leave, SendClaim,
      ClaimUncertain, Reconcile, ClaimMalformed, ClaimRefused, ClaimAnswered, DropClaim,
      RejectClaim, StartProvider, SessionProgress, FreshFallback, ProviderFinishes, LeaseLost,
      LeaseLostUnclean, ReportAnswered, ReportFails, coordinate
  <2> QED
    BY <2>1, <2>2, <2>4, <2>5, <2>6 DEF Next, CoordinateNext, ProgressArrives, vars, coordinate
<1>4. ASSUME NEW j \in Job, jobStatus[j] # "done", jobStatus'[j] = "done"
      PROVE  <<j, attempt'[j]>> \in succeeded
  <2>1. ASSUME NEW p \in Proc, ReportServed(p) PROVE <<j, attempt'[j]>> \in succeeded
    BY <1>1, <1>2, <1>4, <2>1, TypeReportOf DEF ReportServed
  <2>2. ASSUME NEW m \in lateReports, LateReportServed(m)
        PROVE  <<j, attempt'[j]>> \in succeeded
    BY <1>1, <1>4, <2>2 DEF LateReportServed, Reports, TypeOK
  <2> QED
    BY <1>3, <1>4, <2>1, <2>2
<1>5. ASSUME NEW j \in Job, jobStatus[j] = "done" PROVE <<j, attempt'[j]>> \in succeeded
  BY <1>5, CoordinateMonotone DEF DoneByItsOwnAttempt
<1> QED
  BY <1>4, <1>5, SucceededGrows DEF DoneByItsOwnAttempt

-----------------------------------------------------------------------------
\* A report or a session-bearing progress message records the session of the
\* attempt that runs, never of an earlier one.
LEMMA EvidenceStep ==
  ASSUME TypeOK, [Next]_vars, NEW c, c.job \in Job, c.attempt \in 1..attempt[c.job],
         EvidenceBefore(c)'
  PROVE  EvidenceBefore(c)
<1>1. PICK a \in Attempt : a < c.attempt /\ <<c.job, a>> \in evidence'
  BY DEF EvidenceBefore
<1>2. evidence' \subseteq evidence \cup {<<j, attempt[j]>> : j \in Job}
  BY CoordinateStep DEF Quiet, Granted
<1>3. <<c.job, a>> \in evidence
  BY <1>1, <1>2 DEF Attempt, TypeOK
<1> QED
  BY <1>1, <1>3 DEF EvidenceBefore

\* The answer to a claim says whether the job has evidence by now.
LEMMA AnswerEvidence ==
  ASSUME TypeOK, NEW p \in Proc, ClaimServed(p), resp'[p].kind = "claimed",
         NEW c, c = resp'[p].claim, EvidenceBefore(c)'
  PROVE  c.evid
<1>1. PICK r : ServeClaim(KeyOf(p), recovery[p], r) /\ resp' = [resp EXCEPT ![p] = r]
  BY DEF ClaimServed
<1>2. resp'[p] = r
  BY <1>1 DEF TypeOK
<1>3. evidence' = evidence
  BY <1>1 DEF ServeClaim, ReplayClaim, GrantClaim, RefuseClaim, coordinate
<1>4. EvidenceBefore(c) => HasEvidence(c.job)
  BY DEF EvidenceBefore, HasEvidence
<1>5. EvidenceBefore(c)
  BY <1>3 DEF EvidenceBefore
<1>6. KeyOf(p) \in Key
  BY DEF ClaimServed, TypeOK, KeyOf, Key
<1>7. CASE ReplayClaim(KeyOf(p), r)
  BY <1>2, <1>4, <1>5, <1>6, <1>7 DEF ReplayClaim, TypeOK, Claim
<1>8. CASE GrantClaim(KeyOf(p), recovery[p], r)
  BY <1>2, <1>4, <1>5, <1>8 DEF GrantClaim
<1>9. CASE RefuseClaim(KeyOf(p), r)
  BY <1>2, <1>9 DEF RefuseClaim
<1> QED
  BY <1>1, <1>7, <1>8, <1>9 DEF ServeClaim

\* How a claim in hand, or a provider, comes to be.
LEMMA HandStep ==
  ASSUME TypeOK, [Next]_vars, NEW p \in Proc
  PROVE  /\ \/ resp'[p].kind # "claimed" \/ resp'[p] = resp[p] \/ ClaimServed(p)
         /\ \/ cur'[p] = NoClaim
            \/ cur'[p] = cur[p]
            \/ cur'[p] = resp[p].claim /\ resp[p].kind = "claimed" /\ provider'[p] = "none"
         /\ \/ provider'[p] \notin {"fresh", "resume"}
            \/ cur'[p] = cur[p] /\ provider[p] \in {"fresh", "resume"}
            \/ cur'[p] = cur[p] /\ ~cur[p].evid
<1>1. CASE SameWorker(p)
  BY <1>1 DEF SameWorker
<1>2. CASE Forget(p)
  BY <1>2, TypeForget
<1>3. CASE ClaimServed(p)
  BY <1>3 DEF ClaimServed, TypeOK
<1>4. CASE ClaimAnswered(p)
  <2>1. resp'[p].kind = "none" /\ cur'[p] = resp[p].claim /\ provider'[p] = provider[p]
    BY <1>4 DEF ClaimAnswered, TypeOK, NoResp
  <2>2. provider[p] = "none"
    BY <1>4 DEF ClaimAnswered, TypeOK
  <2>3. resp[p].claim # NoClaim => resp[p].kind = "claimed"
    BY DEF TypeOK
  <2> QED
    BY <2>1, <2>2, <2>3
<1>5. CASE ClaimUncertain(p) \/ ClaimMalformed(p) \/ ClaimRefused(p)
  <2>1. resp'[p].kind = "none" /\ cur'[p] = cur[p] /\ provider'[p] = provider[p]
    BY <1>5 DEF ClaimUncertain, ClaimMalformed, ClaimRefused, TypeOK, NoResp
  <2> QED
    BY <2>1
<1>6. CASE StartProvider(p)
  BY <1>6 DEF StartProvider, ProviderFor, TypeOK
<1>7. CASE FreshFallback(p)
  BY <1>7 DEF FreshFallback, TypeOK
<1>8. CASE ProviderFinishes(p) \/ LeaseLostUnclean(p)
  BY <1>8 DEF ProviderFinishes, LeaseLostUnclean, TypeOK
<1>9. ASSUME ProcNext(p), ~Forget(p), ~ClaimServed(p), ~ClaimAnswered(p), ~ClaimUncertain(p),
             ~ClaimMalformed(p), ~ClaimRefused(p), ~StartProvider(p), ~FreshFallback(p),
             ~ProviderFinishes(p), ~LeaseLostUnclean(p)
      PROVE  UNCHANGED <<resp, cur, provider>>
  BY <1>9 DEF ProcNext, Start, LoopExit, Crash, Leave, SendClaim, Reconcile, DropClaim,
      RejectClaim, SessionProgress, LeaseLost, ReportServed, ReportAnswered, ReportFails, worker
<1> QED
  BY <1>1, <1>2, <1>3, <1>4, <1>5, <1>6, <1>7, <1>8, <1>9, ProcessStep

\* A claim that was told of no evidence never has any before it.
LEMMA EvidenceInvStep ==
  ASSUME TypeOK, TypeOK', ClaimKeys, InHand, ClaimKeys', InHand', Evidence, [Next]_vars
  PROVE  Evidence'
<1>1. ASSUME NEW p \in Proc, NEW c, c = resp'[p].claim, resp'[p].kind = "claimed",
             EvidenceBefore(c)'
      PROVE  c.evid
  <2>1. CASE ClaimServed(p)
    BY <1>1, <2>1, AnswerEvidence
  <2>2. CASE resp'[p] = resp[p]
    <3>1. EvidenceBefore(c)
      BY <1>1, <2>2, InHandAttempt, EvidenceStep
    <3> QED
      BY <1>1, <2>2, <3>1 DEF Evidence
  <2> QED
    BY <1>1, <2>1, <2>2, HandStep
<1>2. ASSUME NEW p \in Proc, NEW c, c = cur'[p], c # NoClaim, EvidenceBefore(c)'
      PROVE  c.evid
  <2>1. CASE cur'[p] = cur[p]
    <3>1. EvidenceBefore(c)
      BY <1>2, <2>1, InHandAttempt, EvidenceStep
    <3> QED
      BY <1>2, <2>1, <3>1 DEF Evidence
  <2>2. CASE cur'[p] = resp[p].claim /\ resp[p].kind = "claimed"
    <3>1. EvidenceBefore(c)
      BY <1>2, <2>2, InHandAttempt, EvidenceStep
    <3> QED
      BY <1>2, <2>2, <3>1 DEF Evidence
  <2> QED
    BY <1>2, <2>1, <2>2, HandStep
<1>3. ASSUME NEW p \in Proc, provider'[p] \in {"fresh", "resume"} PROVE ~cur'[p].evid
  BY <1>3, HandStep DEF Evidence
<1> QED
  BY <1>1, <1>2, <1>3 DEF Evidence, EvidenceBefore

\* NoFreshDuplicate follows from Evidence.
LEMMA NoFreshDuplicateFromEvidence ==
  ASSUME TypeOK, Evidence
  PROVE  NoFreshDuplicate
<1> SUFFICES ASSUME NEW p \in Proc, provider[p] = "fresh",
                    NEW a \in 0..cur[p].attempt - 1, <<cur[p].job, a>> \in evidence
             PROVE  FALSE
  BY DEF NoFreshDuplicate
<1>1. cur[p] # NoClaim /\ cur[p].attempt \in Attempt
  BY IdType, ClaimShape DEF TypeOK
<1>2. a \in Attempt /\ a < cur[p].attempt
  BY <1>1 DEF Attempt
<1> QED
  BY <1>1, <1>2 DEF Evidence, EvidenceBefore

-----------------------------------------------------------------------------
\* A process lives from its start in the mode it was started in.
LEMMA AliveStep ==
  ASSUME TypeOK, [Next]_vars, NEW p \in Proc
  PROVE  /\ pc'[p] = "off" => pc[p] = "off"
         /\ \/ Alive(p)' /\ Alive(p) /\ recovery'[p] = recovery[p]
            \/ ~Alive(p)'
            \/ \E rec \in BOOLEAN : Start(p, rec) /\ recovery'[p] = rec
<1>1. CASE SameWorker(p)
  BY <1>1 DEF SameWorker, Alive
<1>2. ASSUME NEW how \in {"exited", "failed"}, Leave(p, how)
      PROVE  pc'[p] # "off" /\ ~Alive(p)'
  BY <1>2 DEF Leave, Alive, Gone, TypeOK
<1>3. ASSUME NEW rec \in BOOLEAN, Start(p, rec)
      PROVE  pc'[p] # "off" /\ recovery'[p] = rec
  BY <1>3 DEF Start, TypeOK
<1>4. ASSUME ProcNext(p), \A rec \in BOOLEAN : ~Start(p, rec),
             \A how \in {"exited", "failed"} : ~Leave(p, how)
      PROVE  pc'[p] # "off" /\ Alive(p) /\ recovery'[p] = recovery[p]
  <2>1. recovery' = recovery /\ pc[p] \notin Gone
    BY <1>4 DEF ProcNext, LoopExit, Crash, SendClaim, ClaimServed, ClaimUncertain, Reconcile,
      ClaimMalformed, ClaimRefused, ClaimAnswered, DropClaim, RejectClaim, StartProvider,
      SessionProgress, FreshFallback, ProviderFinishes, LeaseLost, LeaseLostUnclean,
      ReportServed, ReportAnswered, ReportFails, worker, Gone
  <2>2. pc'[p] # "off"
    BY <1>4, <2>1, ZenonT(60) DEF ProcNext, LoopExit, Crash, SendClaim, ClaimServed,
         ClaimUncertain, Reconcile, ClaimMalformed, ClaimRefused, ClaimAnswered, DropClaim,
         RejectClaim, StartProvider, SessionProgress, FreshFallback, ProviderFinishes,
         LeaseLost, LeaseLostUnclean, ReportServed, ReportAnswered, ReportFails, worker, Gone,
         TypeOK
  <2> QED
    BY <2>1, <2>2 DEF Alive
<1> QED
  BY <1>1, <1>2, <1>3, <1>4, ProcessStep DEF Alive

\* A claim request comes on the wire from a process that sent it.
LEMMA LateStep ==
  ASSUME [Next]_vars
  PROVE  \/ late' \subseteq late
         \/ \E p \in Proc : /\ pc[p] = "sent"
                            /\ late' = late \cup {[key |-> KeyOf(p), rec |-> recovery[p]]}
<1>1. ASSUME NEW p \in Proc, AbandonRequest(p)
      PROVE  \/ late' \subseteq late
             \/ pc[p] = "sent" /\ late' = late \cup {[key |-> KeyOf(p), rec |-> recovery[p]]}
  BY <1>1 DEF AbandonRequest, wire
<1>2. ASSUME NEW p \in Proc, ProcNext(p), ~AbandonRequest(p) PROVE UNCHANGED late
  BY <1>2 DEF ProcNext, Start, LoopExit, Crash, Leave, SendClaim, ClaimServed,
      ClaimUncertain, Reconcile, ClaimMalformed, ClaimRefused, ClaimAnswered, DropClaim,
      RejectClaim, StartProvider, SessionProgress, FreshFallback, ProviderFinishes, LeaseLost,
      LeaseLostUnclean, ReportServed, ReportAnswered, ReportFails, wire
<1>3. ASSUME CoordinateNext \/ UNCHANGED vars PROVE late' \subseteq late
  BY <1>3 DEF CoordinateNext, LeaseExpires, ProgressArrives, LateClaimServed,
      LateReportServed, vars, wire
<1> QED
  BY <1>1, <1>2, <1>3 DEF Next

\* The mode of a request that may be served is that of its process.
LEMMA RequestedMode ==
  ASSUME TypeOK, Recovery, NEW k \in Key, NEW rec \in BOOLEAN, Requested(k, rec)
  PROVE  /\ k[1] \in Proc /\ pc[k[1]] # "off"
         /\ Alive(k[1]) => rec = recovery[k[1]]
<1>1. k[1] \in Proc
  BY DEF Key
<1> QED
  BY <1>1 DEF Requested, Recovery

\* Recovery processes stay alone, and second attempts stay with them.
LEMMA RecoveryStep ==
  ASSUME TypeOK, TypeOK', ClaimKeys, Recovery, [Next]_vars
  PROVE  Recovery'
<1>1. \A j \in Job : jobStatus'[j] = "pending" <=> attempt'[j] = 0
  <2>1. CASE Quiet
    BY <2>1 DEF Quiet, Recovery, Terminal
  <2>2. ASSUME NEW k \in Key, NEW i \in Job, NEW rec \in BOOLEAN, Granted(k, i, rec)
        PROVE  \A j \in Job : jobStatus'[j] = "pending" <=> attempt'[j] = 0
    BY <2>2 DEF Granted, Recovery, TypeOK, Attempt
  <2> QED
    BY <2>1, <2>2, CoordinateStep
<1>2. ASSUME NEW p \in Proc, NEW q \in Proc, p # q, Alive(p)', Alive(q)', recovery'[p]
      PROVE  FALSE
  <2>1. CASE Alive(p) /\ Alive(q) /\ recovery'[p] = recovery[p]
    BY <1>2, <2>1 DEF Recovery
  <2>2. ASSUME NEW rec \in BOOLEAN, Start(p, rec), recovery'[p] = rec PROVE FALSE
    <3>1. SameWorker(q)
      BY <1>2, <2>2, OthersUnchanged DEF ProcNext
    <3>2. ~Alive(q)
      BY <1>2, <2>2 DEF Start, RecoveryEvidence, OthersGone, Alive
    <3> QED
      BY <1>2, <3>1, <3>2 DEF SameWorker, Alive
  <2>3. ASSUME NEW rec \in BOOLEAN, Start(q, rec) PROVE FALSE
    <3>1. SameWorker(p)
      BY <1>2, <2>3, OthersUnchanged DEF ProcNext
    <3>2. ~Alive(p) \/ ~recovery[p]
      BY <1>2, <2>3 DEF Start, RecoveryEvidence, OthersGone, NoRecoveryUnderway, Alive
    <3> QED
      BY <1>2, <3>1, <3>2 DEF SameWorker, Alive
  <2> QED
    BY <1>2, <2>1, <2>2, <2>3, AliveStep
<1>3. ASSUME NEW p \in Proc, pc[p] # "off", Alive(p)'
      PROVE  Alive(p) /\ recovery'[p] = recovery[p]
  BY <1>3, AliveStep DEF Start
<1>4. ASSUME NEW m \in late'
      PROVE  /\ pc'[m.key[1]] # "off"
             /\ Alive(m.key[1])' => m.rec = recovery'[m.key[1]]
  <2>1. m.key \in Key /\ m.key[1] \in Proc
    BY DEF TypeOK, Key
  <2>2. pc[m.key[1]] # "off" /\ (Alive(m.key[1]) => m.rec = recovery[m.key[1]])
    BY LateStep DEF Recovery, KeyOf
  <2> QED
    BY <1>3, <2>1, <2>2, AliveStep
<1>5. ASSUME NEW k \in Key, keyClaim[k] # NoClaim
      PROVE  /\ pc'[k[1]] # "off" /\ keyClaim'[k] = keyClaim[k]
             /\ Alive(k[1])' /\ ~recovery'[k[1]] => keyClaim[k].attempt = 1
  <2>1. k[1] \in Proc
    BY DEF Key
  <2> QED
    BY <1>3, <1>5, <2>1, AliveStep, CoordinateMonotone DEF Recovery
<1>6. ASSUME NEW k \in Key, keyClaim[k] = NoClaim, keyClaim'[k] # NoClaim
      PROVE  /\ pc'[k[1]] # "off"
             /\ Alive(k[1])' /\ ~recovery'[k[1]] => keyClaim'[k].attempt = 1
  <2>1. PICK j \in Job, rec \in BOOLEAN : Granted(k, j, rec)
    BY <1>6, NewClaimGranted
  <2>2. k[1] \in Proc /\ pc[k[1]] # "off" /\ (Alive(k[1]) => rec = recovery[k[1]])
    BY <2>1, RequestedMode DEF Granted
  <2>3. keyClaim'[k].attempt = attempt[j] + 1
    BY <2>1 DEF Granted, TypeOK
  <2>4. ~rec => attempt[j] = 0
    BY <2>1 DEF Granted, Claimable, Recovery
  <2> QED
    BY <1>3, <2>2, <2>3, <2>4, AliveStep
<1> QED
  BY <1>1, <1>2, <1>4, <1>5, <1>6 DEF Recovery, Alive

\* OneProviderPerJob follows: two processes at once are both normal ones, whose
\* claims are first attempts, and a first attempt has one key.
LEMMA OneProviderFromRecovery ==
  ASSUME TypeOK, ClaimKeys, InHand, Recovery
  PROVE  OneProviderPerJob
<1> SUFFICES ASSUME NEW p \in Proc, NEW q \in Proc, pc[p] = "running", pc[q] = "running",
                    cur[p].job = cur[q].job, p # q
             PROVE  FALSE
  BY DEF OneProviderPerJob
<1>1. Alive(p) /\ Alive(q) /\ ~recovery[p] /\ ~recovery[q]
  BY DEF Alive, Gone, Recovery
<1>2. ASSUME NEW r \in Proc, pc[r] = "running", Alive(r), ~recovery[r]
      PROVE  /\ cur[r].attempt = 1 /\ <<r, serial[r] - 1>> \in Key
             /\ keyClaim[<<r, serial[r] - 1>>] # NoClaim
             /\ Id(keyClaim[<<r, serial[r] - 1>>]) = Id(cur[r])
  <2>1. cur[r] # NoClaim
    BY <1>2 DEF TypeOK
  <2>2. /\ <<r, serial[r] - 1>> \in Key /\ keyClaim[<<r, serial[r] - 1>>] # NoClaim
        /\ Id(keyClaim[<<r, serial[r] - 1>>]) = Id(cur[r])
    BY <2>1, InHandRecorded DEF InHand
  <2>3. keyClaim[<<r, serial[r] - 1>>].attempt = 1
    BY <1>2, <2>2 DEF Recovery
  <2> QED
    BY <2>2, <2>3 DEF Id
<1>3. Id(cur[p]) = Id(cur[q])
  BY <1>1, <1>2 DEF Id
<1>4. <<p, serial[p] - 1>> = <<q, serial[q] - 1>>
  BY <1>1, <1>2, <1>3 DEF ClaimKeys
<1> QED
  BY <1>4

-----------------------------------------------------------------------------
\* An answer is kept until it is handled, and its key with it.
LEMMA RespStep ==
  ASSUME TypeOK, [Next]_vars, NEW p \in Proc
  PROVE  \/ resp'[p].kind = "none"
         \/ resp'[p] = resp[p] /\ serial'[p] = serial[p]
         \/ ClaimServed(p) /\ serial'[p] = serial[p]
<1>1. CASE SameWorker(p)
  BY <1>1 DEF SameWorker
<1>2. CASE Forget(p)
  BY <1>2, TypeForget
<1>3. CASE ClaimServed(p)
  BY <1>3 DEF ClaimServed
<1>4. CASE ClaimAnswered(p)
  BY <1>4 DEF ClaimAnswered, TypeOK, NoResp
<1>5. CASE ClaimUncertain(p) \/ ClaimMalformed(p) \/ ClaimRefused(p)
  BY <1>5 DEF ClaimUncertain, ClaimMalformed, ClaimRefused, TypeOK, NoResp
<1>6. ASSUME ProcNext(p), ~Forget(p), ~ClaimServed(p), ~ClaimAnswered(p), ~ClaimUncertain(p),
             ~ClaimMalformed(p), ~ClaimRefused(p)
      PROVE  UNCHANGED <<resp, serial>>
  BY <1>6 DEF ProcNext, Start, LoopExit, Crash, Leave, SendClaim, Reconcile, DropClaim,
      RejectClaim, StartProvider, SessionProgress, FreshFallback, ProviderFinishes, LeaseLost,
      LeaseLostUnclean, ReportServed, ReportAnswered, ReportFails, worker
<1> QED
  BY <1>1, <1>2, <1>3, <1>4, <1>5, <1>6, ProcessStep

\* Coordinate closes the key of a claim it answers "not claimed".
LEMMA EmptyCloses ==
  ASSUME TypeOK, FencedEmpty, NEW p \in Proc, ClaimServed(p), resp'[p].kind = "empty"
  PROVE  KeyOf(p) \in closed'
<1>1. PICK r : ServeClaim(KeyOf(p), recovery[p], r) /\ resp' = [resp EXCEPT ![p] = r]
  BY DEF ClaimServed
<1>2. resp'[p] = r
  BY <1>1 DEF TypeOK
<1> QED
  BY <1>1, <1>2 DEF ServeClaim, ReplayClaim, GrantClaim, RefuseClaim

\* A request on the wire never names a key its process has not come to.
LEMMA RequestedSerial ==
  ASSUME TypeOK, Serials, NEW p \in Proc, NEW n \in 1..MaxSerial, NEW rec \in BOOLEAN,
         Requested(<<p, n>>, rec)
  PROVE  n <= serial[p]
<1>1. CASE <<p, n>> = KeyOf(p)
  BY <1>1 DEF KeyOf
<1>2. CASE [key |-> <<p, n>>, rec |-> rec] \in late
  BY <1>2 DEF Serials
<1> QED
  BY <1>1, <1>2 DEF Requested

\* Keys left behind stay answered, keys to come stay unasked.
LEMMA SerialsStep ==
  ASSUME TypeOK, TypeOK', ClaimKeys, InHand, Serials, [Next]_vars
  PROVE  Serials'
<1>1. ASSUME NEW p \in Proc
      PROVE  /\ serial[p] \in Nat /\ serial'[p] \in Nat
             /\ serial[p] <= serial'[p] /\ serial'[p] <= serial[p] + 1
  <2>1. serial[p] \in Nat /\ serial'[p] \in Nat
    BY DEF TypeOK
  <2>2. serial'[p] = serial[p] \/ serial'[p] = serial[p] + 1
    BY SerialStep
  <2> QED
    BY <2>1, <2>2
<1>2. ASSUME NEW p \in Proc, resp'[p].kind = "empty", FencedEmpty
      PROVE  <<p, serial'[p]>> \in closed'
  BY <1>2, RespStep, EmptyCloses, CoordinateMonotone DEF Serials, KeyOf
<1>3. ASSUME NEW p \in Proc, NEW n \in 1..MaxSerial, n < serial'[p], FencedEmpty
      PROVE  keyClaim'[<<p, n>>] # NoClaim \/ <<p, n>> \in closed'
  <2>1. <<p, n>> \in Key
    BY DEF Key
  <2>2. CASE n < serial[p]
    BY <1>3, <2>1, <2>2, CoordinateMonotone DEF Serials
  <2>3. CASE ~(n < serial[p])
    <3>1. n = serial[p] /\ ClaimAnswered(p)
      BY <1>1, <1>3, <2>3, SerialStep
    <3>2. resp[p].kind = "empty" \/ resp[p].kind = "claimed"
      BY <3>1 DEF ClaimAnswered
    <3>3. keyClaim[<<p, n>>] # NoClaim \/ <<p, n>> \in closed
      BY <1>3, <3>1, <3>2, InHandRecorded DEF Serials, KeyOf
    <3> QED
      BY <2>1, <3>3, CoordinateMonotone
  <2> QED
    BY <2>2, <2>3
<1>4. ASSUME NEW p \in Proc, NEW n \in 1..MaxSerial, n > serial'[p]
      PROVE  keyClaim'[<<p, n>>] = NoClaim
  <2>1. n > serial[p]
    BY <1>1, <1>4, SerialStep DEF TypeOK
  <2>2. keyClaim[<<p, n>>] = NoClaim
    BY <2>1 DEF Serials
  <2>3. ASSUME keyClaim'[<<p, n>>] # keyClaim[<<p, n>>] PROVE FALSE
    <3>1. <<p, n>> \in Key
      BY DEF Key
    <3>2. PICK j \in Job, rec \in BOOLEAN : Granted(<<p, n>>, j, rec)
      BY <2>3, <3>1, NewClaimGranted
    <3>3. n <= serial[p]
      BY <3>2, RequestedSerial DEF Granted
    <3> QED
      BY <1>1, <2>1, <3>3
  <2> QED
    BY <2>2, <2>3
<1>5. ASSUME NEW m \in late' PROVE m.key[2] <= serial'[m.key[1]]
  <2>1. m.key[1] \in Proc /\ m.key[2] \in 1..MaxSerial
    BY DEF TypeOK, Key
  <2>2. m \in late \/ \E p \in Proc : m.key = <<p, serial[p]>>
    BY LateStep DEF KeyOf
  <2>3. m.key[2] <= serial[m.key[1]]
    BY <1>1, <2>1, <2>2 DEF Serials
  <2>4. serial[m.key[1]] \in Nat /\ serial'[m.key[1]] \in Nat
        /\ serial[m.key[1]] <= serial'[m.key[1]]
    BY <1>1, <2>1
  <2> QED
    BY <2>1, <2>3, <2>4
<1> QED
  BY <1>2, <1>3, <1>4, <1>5 DEF Serials, KeyOf

\* A process drops its claim in hand after a report, on purpose, or by ending.
LEMMA GivenUpStep ==
  ASSUME TypeOK, [Next]_vars, NEW p \in Proc, cur[p] # NoClaim, cur'[p] # cur[p]
  PROVE  \/ Id(cur[p]) \in givenUp'
         \/ ~Alive(p)'
         \/ receipt[p].status \in Terminal
<1>1. CASE SameWorker(p)
  BY <1>1 DEF SameWorker
<1>2. CASE DropClaim(p) \/ LeaseLost(p)
  BY <1>2 DEF DropClaim, LeaseLost
<1>3. CASE ReportAnswered(p)
  BY <1>3 DEF ReportAnswered
<1>4. CASE LoopExit(p) \/ Crash(p) \/ ReportFails(p)
  BY <1>4 DEF LoopExit, Crash, ReportFails, Leave, Alive, Gone, TypeOK
<1>5. CASE ClaimAnswered(p)
  BY <1>5 DEF ClaimAnswered, TypeOK
<1>6. ASSUME ProcNext(p), ~DropClaim(p), ~LeaseLost(p), ~ReportAnswered(p), ~LoopExit(p),
             ~Crash(p), ~ReportFails(p), ~ClaimAnswered(p)
      PROVE  UNCHANGED cur
  BY <1>6 DEF ProcNext, Start, SendClaim, ClaimServed, ClaimUncertain, Reconcile,
      ClaimMalformed, ClaimRefused, RejectClaim, StartProvider, SessionProgress,
      FreshFallback, ProviderFinishes, LeaseLostUnclean, ReportServed, worker
<1> QED
  BY <1>1, <1>2, <1>3, <1>4, <1>5, <1>6, ProcessStep

\* What was given up stays so.
LEMMA GivenUpGrows == ASSUME [Next]_vars PROVE givenUp \subseteq givenUp'
<1>1. ASSUME NEW p \in Proc, DropClaim(p) \/ LeaseLost(p) PROVE givenUp \subseteq givenUp'
  BY <1>1 DEF DropClaim, LeaseLost
<1>2. ASSUME NEW p \in Proc, ProcNext(p), ~DropClaim(p), ~LeaseLost(p) PROVE UNCHANGED givenUp
  BY <1>2 DEF ProcNext, Start, LoopExit, Crash, Leave, SendClaim, ClaimServed,
      ClaimUncertain, Reconcile, ClaimMalformed, ClaimRefused, ClaimAnswered,
      RejectClaim, StartProvider, SessionProgress, FreshFallback, ProviderFinishes,
      LeaseLostUnclean, ReportServed, ReportAnswered, ReportFails, history
<1>3. ASSUME CoordinateNext \/ UNCHANGED vars PROVE UNCHANGED givenUp
  BY <1>3 DEF CoordinateNext, LeaseExpires, ProgressArrives, LateClaimServed,
      LateReportServed, vars, history
<1> QED
  BY <1>1, <1>2, <1>3 DEF Next

\* NoStrandedClaim is preserved if Coordinate closes the keys of empty answers.
LEMMA NoStrandedClaimStep ==
  ASSUME TypeOK, TypeOK', FencedEmpty, ClaimKeys, InHand, Receipts, Recovery, Serials,
         NoStrandedClaim, [Next]_vars
  PROVE  NoStrandedClaim'
<1> SUFFICES ASSUME NEW p \in Proc, NEW n \in 1..MaxSerial, NEW c, c = keyClaim'[<<p, n>>],
                    c # NoClaim, Alive(p)', Authority(c.job, c.attempt)'
             PROVE  \/ n = serial'[p]
                    \/ Id(cur'[p]) = Id(c)
                    \/ Id(c) \in givenUp'
  BY DEF NoStrandedClaim, Id, Authority
<1>1. <<p, n>> \in Key /\ c \in Claim /\ serial[p] \in Nat
  BY DEF TypeOK, Key
<1>2. CASE keyClaim[<<p, n>>] # NoClaim
  <2>1. keyClaim[<<p, n>>] = c
    BY <1>1, <1>2, CoordinateMonotone
  <2>2. c.job \in Job /\ c.attempt \in Attempt /\ c.attempt \in 1..attempt[c.job]
    BY <1>1, <1>2, <2>1, ClaimShape DEF ClaimKeys
  <2>3. Authority(c.job, c.attempt)
    BY <2>2, CoordinateMonotone DEF TypeOK
  <2>4. Alive(p)
    BY <1>1, <1>2, AliveStep DEF Recovery, Start
  <2>5. CASE n = serial[p]
    <3>1. CASE serial'[p] = serial[p]
      BY <2>5, <3>1
    <3>2. CASE ClaimAnswered(p)
      <4>1. resp[p].kind # "empty"
        BY <1>1, <1>2, <2>5 DEF Serials, ClaimKeys, KeyOf
      <4>2. resp[p].kind = "claimed" /\ cur'[p] = resp[p].claim
        BY <3>2, <4>1 DEF ClaimAnswered, TypeOK
      <4> QED
        BY <2>1, <2>5, <4>2 DEF InHand, KeyOf
    <3> QED
      BY <3>1, <3>2, SerialStep
  <2>6. CASE Id(cur[p]) = Id(c)
    <3>1. cur[p] # NoClaim
      BY <2>2, <2>6, ClaimShape DEF Id
    <3>2. receipt[p].status \notin Terminal
      BY <2>3, <2>6 DEF Receipts, Id
    <3> QED
      BY <2>6, <3>1, <3>2, GivenUpStep
  <2>7. CASE Id(c) \in givenUp
    BY <2>7, GivenUpGrows
  <2> QED
    BY <1>2, <2>1, <2>3, <2>4, <2>5, <2>6, <2>7 DEF NoStrandedClaim
<1>3. CASE keyClaim[<<p, n>>] = NoClaim
  <2>1. PICK j \in Job, rec \in BOOLEAN : Granted(<<p, n>>, j, rec)
    BY <1>1, <1>3, NewClaimGranted
  <2>2. n <= serial[p]
    BY <2>1, RequestedSerial DEF Granted
  <2>3. ~(n < serial[p])
    BY <1>3, <2>1 DEF Serials, Granted
  <2>4. ~ClaimAnswered(p)
    BY <1>3 DEF ClaimAnswered, coordinate
  <2> QED
    BY <1>1, <2>2, <2>3, <2>4, SerialStep
<1> QED
  BY <1>2, <1>3

-----------------------------------------------------------------------------
(* The inductive invariant and the theorems.                                *)

IInv == /\ TypeOK /\ ClaimKeys /\ InHand /\ ExecutedClaims /\ Reports /\ Receipts
        /\ Evidence /\ Recovery /\ Serials

\* The initial state satisfies the invariants.
LEMMA InvInit == Init => IInv /\ DoneByItsOwnAttempt /\ SavedOnlyIfRecorded /\ NoStrandedClaim
<1> SUFFICES ASSUME Init
             PROVE  IInv /\ DoneByItsOwnAttempt /\ SavedOnlyIfRecorded /\ NoStrandedClaim
  OBVIOUS
<1>1. TypeOK
  BY TypeInit
<1>2. /\ \A k \in Key : keyClaim[k] = NoClaim
      /\ \A j \in Job : jobStatus[j] = "pending" /\ attempt[j] = 0
      /\ evidence = {} /\ executed = {} /\ saved = {} /\ late = {} /\ lateReports = {}
  BY DEF Init
<1>3. \A p \in Proc : /\ pc[p] = "off" /\ serial[p] = 1
                      /\ resp[p].kind = "none" /\ cur[p] = NoClaim /\ provider[p] = "none"
                      /\ result[p].status = "none" /\ receipt[p].status = "none"
  BY DEF Init, NoResp, NoResult, NoReceipt
<1>4. ClaimKeys /\ InHand /\ ExecutedClaims /\ Reports
  BY <1>2, <1>3 DEF ClaimKeys, InHand, ExecutedClaims, Reports
<1>5. Receipts /\ Evidence
  BY <1>3 DEF Receipts, Evidence, Terminal
<1>6. Recovery
  BY <1>2, <1>3 DEF Recovery, Alive, Gone
<1>7. Serials
  BY <1>2, <1>3 DEF Serials, Key
<1>8. DoneByItsOwnAttempt /\ SavedOnlyIfRecorded
  BY <1>2 DEF DoneByItsOwnAttempt, SavedOnlyIfRecorded
<1>9. NoStrandedClaim
  BY <1>2 DEF NoStrandedClaim, Key
<1> QED
  BY <1>1, <1>4, <1>5, <1>6, <1>7, <1>8, <1>9 DEF IInv

\* Every step preserves the inductive invariant.
LEMMA InvStep == IInv /\ [Next]_vars => IInv'
<1> SUFFICES ASSUME IInv, [Next]_vars PROVE IInv'
  OBVIOUS
<1>1. TypeOK'
  BY TypeStep DEF IInv
<1>2. ClaimKeys'
  BY ClaimKeysStep DEF IInv
<1>3. InHand'
  BY <1>1, InHandStep DEF IInv
<1> QED
  BY <1>1, <1>2, <1>3, ExecutedClaimsStep, ReportsStep, ReceiptsStep, EvidenceInvStep,
     RecoveryStep, SerialsStep DEF IInv

\* The inductive invariant holds.
LEMMA Invariant == Spec => []IInv
  BY InvInit, InvStep, PTL DEF Spec

\* However claims are lost, repeated and replayed, no attempt gets a second
\* provider.
THEOREM AttemptsRunOnce == Spec => EachAttemptRunsOnce
<1>1. IInv /\ [Next]_vars =>
        [\A p \in Proc : pc[p] = "check" /\ pc'[p] = "running"
                          => Id(cur[p]) \notin executed]_vars
  BY InHandNotExecuted DEF IInv
<1> QED
  BY <1>1, Invariant, PTL DEF EachAttemptRunsOnce, Spec

\* Two processes never run the same job at once, whatever restarts and
\* operator recoveries there are.
THEOREM ProvidersExclusive == Spec => []OneProviderPerJob
<1>1. IInv => OneProviderPerJob
  BY OneProviderFromRecovery DEF IInv
<1> QED
  BY <1>1, Invariant, PTL

\* Evidence of an earlier attempt's session rules out a fresh session.
THEOREM FreshNeverDuplicates == Spec => []NoFreshDuplicate
<1>1. IInv => NoFreshDuplicate
  BY NoFreshDuplicateFromEvidence DEF IInv
<1> QED
  BY <1>1, Invariant, PTL

\* A job is done by the attempt that has it, never by a late report.
THEOREM DoneIsOwn == Spec => []DoneByItsOwnAttempt
<1>1. Init => DoneByItsOwnAttempt
  BY InvInit
<1>2. IInv /\ DoneByItsOwnAttempt /\ [Next]_vars => DoneByItsOwnAttempt'
  BY DoneByItsOwnAttemptStep DEF IInv
<1> QED
  BY <1>1, <1>2, Invariant, PTL DEF Spec

\* The local session row only follows a success that Coordinate recorded.
THEOREM SavedIsRecorded == Spec => []SavedOnlyIfRecorded
<1>1. Init => SavedOnlyIfRecorded
  BY InvInit
<1>2. IInv /\ SavedOnlyIfRecorded /\ [Next]_vars => SavedOnlyIfRecorded'
  BY SavedOnlyIfRecordedStep DEF IInv
<1> QED
  BY <1>1, <1>2, Invariant, PTL DEF Spec

\* No lease is stranded by a lost answer, provided Coordinate closes the key
\* of a claim it answered "not claimed".
THEOREM ClaimsNotStranded ==
  ASSUME FencedEmpty
  PROVE  Spec => []NoStrandedClaim
<1>1. Init => NoStrandedClaim
  BY InvInit
<1>2. IInv /\ IInv' /\ NoStrandedClaim /\ [Next]_vars => NoStrandedClaim'
  BY NoStrandedClaimStep DEF IInv
<1> QED
  BY <1>1, <1>2, Invariant, PTL DEF Spec

-----------------------------------------------------------------------------
(* The refinement of AttemptLedger.                                         *)

\* A provider that runs was started.
RunningStarted == \A p \in Proc : pc[p] = "running" => Id(cur[p]) \in executed

\* RunningStarted is preserved: a claim is not exchanged under its provider.
LEMMA RunningStartedStep ==
  ASSUME TypeOK, TypeOK', RunningStarted, [Next]_vars
  PROVE  RunningStarted'
<1> SUFFICES ASSUME NEW p \in Proc, pc'[p] = "running" PROVE Id(cur'[p]) \in executed'
  BY DEF RunningStarted, Id
<1>1. CASE StartProvider(p)
  BY <1>1 DEF StartProvider
<1>2. CASE SameWorker(p)
  BY <1>2, ExecutedStep DEF SameWorker, RunningStarted, StartProvider
<1>3. CASE SessionProgress(p) \/ FreshFallback(p)
  BY <1>3 DEF SessionProgress, FreshFallback, worker, history, RunningStarted
<1>4. ASSUME ProcNext(p), ~StartProvider(p), ~SessionProgress(p), ~FreshFallback(p)
      PROVE  FALSE
  BY <1>4 DEF ProcNext, Start, LoopExit, Crash, Leave, SendClaim, ClaimServed,
      ClaimUncertain, Reconcile, ClaimMalformed, ClaimRefused, ClaimAnswered, DropClaim,
      RejectClaim, ProviderFinishes, LeaseLost, LeaseLostUnclean, ReportServed,
      ReportAnswered, ReportFails, TypeOK
<1> QED
  BY <1>1, <1>2, <1>3, <1>4, ProcessStep

\* What the worker does to executed and succeeded.
LEMMA HistoryStep ==
  ASSUME [Next]_vars
  PROVE  \/ UNCHANGED <<executed, succeeded>>
         \/ \E p \in Proc : StartProvider(p) \/ ProviderFinishes(p)
  BY DEF Next, CoordinateNext, ProcNext, LeaseExpires, ProgressArrives, LateClaimServed,
      LateReportServed, Start, LoopExit, Crash, Leave, SendClaim, ClaimServed,
      ClaimUncertain, Reconcile, ClaimMalformed, ClaimRefused, ClaimAnswered, DropClaim,
      RejectClaim, SessionProgress, FreshFallback, LeaseLost,
      LeaseLostUnclean, ReportServed, ReportAnswered, ReportFails, vars, history

\* A step that settles jobs settles one.
LEMMA SettleStep ==
  ASSUME TypeOK, [Next]_vars, UNCHANGED <<attempt, executed, succeeded>>, Quiet,
         DoneByItsOwnAttempt'
  PROVE  [Ledger!Next]_(Ledger!vars)
<1>1. CASE jobStatus' = jobStatus
  BY <1>1 DEF Ledger!vars
<1>2. ASSUME NEW j \in Job, NEW s \in Terminal, jobStatus' = [jobStatus EXCEPT ![j] = s],
             jobStatus[j] = "running"
      PROVE  Ledger!Next
  <2>1. s = "done" => <<j, attempt[j]>> \in succeeded
    BY <1>2 DEF DoneByItsOwnAttempt, TypeOK
  <2>2. Ledger!Settle(j, s)
    BY <1>2, <2>1 DEF Ledger!Settle
  <2> QED
    BY <2>2 DEF Ledger!Next, Terminal
<1>3. CASE jobStatus' # jobStatus
  <2>1. \E j \in Job, s \in Terminal :
          jobStatus' = [jobStatus EXCEPT ![j] = s] /\ jobStatus[j] = "running"
    <3>1. ASSUME NEW m \in [job: Job, attempt: Attempt, status: Terminal, sess: BOOLEAN],
                 NEW r, ServeReport(m, r)
          PROVE  \E j \in Job, s \in Terminal :
                   jobStatus' = [jobStatus EXCEPT ![j] = s] /\ jobStatus[j] = "running"
      BY <1>3, <3>1 DEF ServeReport, Accepts, Authority, coordinate
    <3>2. ASSUME NEW p \in Proc, ReportServed(p)
          PROVE  \E j \in Job, s \in Terminal :
                   jobStatus' = [jobStatus EXCEPT ![j] = s] /\ jobStatus[j] = "running"
      BY <3>1, <3>2, TypeReportOf DEF ReportServed
    <3>3. ASSUME NEW m \in lateReports, LateReportServed(m)
          PROVE  \E j \in Job, s \in Terminal :
                   jobStatus' = [jobStatus EXCEPT ![j] = s] /\ jobStatus[j] = "running"
      BY <3>1, <3>3 DEF LateReportServed, TypeOK
    <3>4. ASSUME NEW i \in Job, LeaseExpires(i)
          PROVE  \E j \in Job, s \in Terminal :
                   jobStatus' = [jobStatus EXCEPT ![j] = s] /\ jobStatus[j] = "running"
      BY <3>4 DEF LeaseExpires, Terminal
    <3>5. ASSUME NEW k \in Key, NEW rec \in BOOLEAN, NEW r, ServeClaim(k, rec, r) PROVE FALSE
      BY <1>3, <3>5 DEF ServeClaim, ReplayClaim, GrantClaim, RefuseClaim, coordinate, TypeOK,
         Attempt
    <3>6. ASSUME NEW p \in Proc, ClaimServed(p) PROVE FALSE
      BY <3>5, <3>6 DEF ClaimServed, KeyOf, Key, TypeOK
    <3>7. ASSUME NEW m \in late, LateClaimServed(m) PROVE FALSE
      BY <3>5, <3>7 DEF LateClaimServed, TypeOK
    <3>8. ASSUME NEW p \in Proc, ProcNext(p), ~ClaimServed(p), ~ReportServed(p) PROVE FALSE
      BY <1>3, <3>8 DEF ProcNext, Start, LoopExit, Crash, Leave, SendClaim,
        ClaimUncertain, Reconcile, ClaimMalformed, ClaimRefused, ClaimAnswered, DropClaim,
        RejectClaim, StartProvider, SessionProgress, FreshFallback, ProviderFinishes, LeaseLost,
        LeaseLostUnclean, ReportAnswered, ReportFails, coordinate
    <3> QED
      BY <1>3, <3>2, <3>3, <3>4, <3>6, <3>7, <3>8
      DEF Next, CoordinateNext, ProgressArrives, vars, coordinate
  <2> QED
    BY <1>2, <2>1
<1> QED
  BY <1>1, <1>3

\* Every step of the worker and Coordinate is a step of the ledger or none.
LEMMA LedgerStep ==
  ASSUME IInv, RunningStarted, DoneByItsOwnAttempt', [Next]_vars
  PROVE  [Ledger!Next]_(Ledger!vars)
<1> USE DEF IInv
<1>1. ASSUME NEW p \in Proc, StartProvider(p) PROVE Ledger!Next
  <2>1. cur[p] # NoClaim /\ pc[p] = "check"
    BY <1>1 DEF StartProvider, TypeOK
  <2>2. cur[p].job \in Job /\ cur[p].attempt \in 1..attempt[cur[p].job]
    BY <2>1, InHandAttempt
  <2>3. Id(cur[p]) \notin executed
    BY <2>1, InHandNotExecuted
  <2>4. Ledger!Begin(cur[p].job, cur[p].attempt)
    BY <1>1, <2>3 DEF Ledger!Begin, StartProvider, Id, coordinate
  <2> QED
    BY <2>2, <2>4 DEF Ledger!Next
<1>2. ASSUME NEW p \in Proc, ProviderFinishes(p) PROVE [Ledger!Next]_(Ledger!vars)
  <2>1. UNCHANGED <<jobStatus, attempt, executed>>
    BY <1>2 DEF ProviderFinishes, coordinate
  <2>2. CASE succeeded' = succeeded
    BY <2>1, <2>2 DEF Ledger!vars
  <2>3. CASE succeeded' = succeeded \cup {Id(cur[p])}
    <3>1. cur[p] # NoClaim /\ Id(cur[p]) \in executed
      BY <1>2 DEF ProviderFinishes, TypeOK, RunningStarted
    <3>2. cur[p].job \in Job /\ cur[p].attempt \in 1..attempt[cur[p].job]
      BY <3>1, InHandAttempt
    <3>3. Ledger!Win(cur[p].job, cur[p].attempt)
      BY <2>1, <2>3, <3>1 DEF Ledger!Win, Id
    <3> QED
      BY <3>2, <3>3 DEF Ledger!Next
  <2> QED
    BY <1>2, <2>2, <2>3 DEF ProviderFinishes
<1>3. CASE UNCHANGED <<executed, succeeded>>
  <2>1. CASE Quiet
    BY <1>3, <2>1, SettleStep DEF Quiet
  <2>2. ASSUME NEW k \in Key, NEW j \in Job, NEW rec \in BOOLEAN, Granted(k, j, rec)
        PROVE  Ledger!Next
    <3>1. Ledger!NewAttempt(j)
      BY <1>3, <2>2 DEF Granted, Claimable, Ledger!NewAttempt
    <3> QED
      BY <3>1 DEF Ledger!Next
  <2> QED
    BY <2>1, <2>2, CoordinateStep
<1> QED
  BY <1>1, <1>2, <1>3, HistoryStep

\* The worker with Coordinate implements the ledger of attempts.
THEOREM LedgerRefined == Spec => ImplementsLedger
<1>1. Init => Ledger!Init /\ RunningStarted
  BY DEF Init, Ledger!Init, RunningStarted
<1>2. IInv /\ IInv' /\ RunningStarted /\ [Next]_vars => RunningStarted'
  BY RunningStartedStep DEF IInv
<1>3. IInv /\ RunningStarted /\ DoneByItsOwnAttempt' /\ [Next]_vars => [Ledger!Next]_(Ledger!vars)
  BY LedgerStep
<1> QED
  BY <1>1, <1>2, <1>3, Invariant, DoneIsOwn, PTL DEF Spec, ImplementsLedger, Ledger!Spec

\* A job recorded as done or failed stays so, under the attempt that settled it:
\* no claim, late report, expired lease or restart reopens it.  Only a job that
\* timed out may be claimed again.
OutcomesAreFinal ==
  [][\A j \in Job : jobStatus[j] \in {"done", "failed"} =>
       jobStatus'[j] = jobStatus[j] /\ attempt'[j] = attempt[j]]_vars

\* In the ledger, a settled job has no step left that concerns it.
LEMMA LedgerFinal ==
  ASSUME [Ledger!Next]_(Ledger!vars), NEW j \in Job, jobStatus[j] \in {"done", "failed"}
  PROVE  jobStatus'[j] = jobStatus[j] /\ attempt'[j] = attempt[j]
<1>1. CASE UNCHANGED Ledger!vars
  BY <1>1 DEF Ledger!vars
<1>2. ASSUME NEW i \in Job, Ledger!NewAttempt(i)
      PROVE  jobStatus'[j] = jobStatus[j] /\ attempt'[j] = attempt[j]
  BY <1>2 DEF Ledger!NewAttempt
<1>3. ASSUME NEW i \in Job, NEW s, Ledger!Settle(i, s)
      PROVE  jobStatus'[j] = jobStatus[j] /\ attempt'[j] = attempt[j]
  BY <1>3 DEF Ledger!Settle
<1>4. ASSUME NEW i \in Job, NEW a, Ledger!Begin(i, a) \/ Ledger!Win(i, a)
      PROVE  jobStatus'[j] = jobStatus[j] /\ attempt'[j] = attempt[j]
  BY <1>4 DEF Ledger!Begin, Ledger!Win
<1> QED
  BY <1>1, <1>2, <1>3, <1>4 DEF Ledger!Next

\* The outcome the worker and Coordinate agree on is final (report_job,
\* claim_next_job), by way of the ledger.
THEOREM OutcomeFinal == Spec => OutcomesAreFinal
<1>1. [Ledger!Next]_(Ledger!vars) =>
        \A j \in Job : jobStatus[j] \in {"done", "failed"} =>
          jobStatus'[j] = jobStatus[j] /\ attempt'[j] = attempt[j]
  BY LedgerFinal
<1> QED
  BY <1>1, LedgerRefined, PTL DEF ImplementsLedger, Ledger!Spec, OutcomesAreFinal
=============================================================================
