---------------------------- MODULE Host_proofs ----------------------------
(***************************************************************************)
(* Proofs about ClaimValidation, for every set of attempts, every worker    *)
(* and every normalization of paths; about RegistryAuthority, for every     *)
(* registry and runtime file; and about Washer, for every finite set of     *)
(* messages and every limit of a pass.  With DesktopNative_proofs and        *)
(* ZCode_proofs, about the suite of them all.                               *)
(***************************************************************************)
EXTENDS MCHost, DesktopNative_proofs, ZCode_proofs, FiniteSetTheorems, FunctionTheorems,
        WellFoundedInduction, TLAPS

----------------------------------------------------------------------------
(* The answer to a claim. *)

\* Equal keys are keys of one normal form.
LEMMA KeysNamePaths ==
  ASSUME NEW a, NEW b, ResourceKey(a) = ResourceKey(b)
  PROVE  NormalPath[a.path] = NormalPath[b.path]
BY DEF ResourceKey

\* The parts of an answer a provider is started for are parts of a run.
LEMMA RunTypes ==
  ASSUME NEW c \in ClaimAnswer, StartsProvider(c)
  PROVE  [lease |-> c.lease, key |-> ResourceKey(c.key)[2], context |-> c.context,
          job |-> c.job, named |-> c.named, token |-> c.token.count] \in Run
<1>1. c.lease \in Attempts \cup {Absent}
  BY DEF StartsProvider, LeaseReads, LeaseWellFormed, HasLease
<1>2. c.context \in Attempts
  BY DEF StartsProvider, ResponseReads, ContextReads, ContextWellFormed
<1>3. c.key \in Attempts /\ c.job \in Attempts /\ c.token \in Attempts /\ c.named \in BOOLEAN
  BY DEF ClaimAnswer, StartsProvider, ResponseReads
<1>4. c.key.path \in Paths /\ c.token.count \in Nat
  BY <1>3, ClaimConstants DEF Attempt
<1>5. ResourceKey(c.key)[2] \in Paths
  BY <1>4, ClaimConstants DEF ResourceKey
<1> QED BY <1>1, <1>2, <1>3, <1>4, <1>5 DEF Run

\* What is reported is a report.
LEMMA ReportTypes ==
  ASSUME NEW c \in ClaimAnswer, ReportsFailure(c)
  PROVE  Trusted(c) \in Report
<1>1. c.lease \in Attempts \cup {Absent} /\ (HasLease(c) => c.lease \in Attempts)
  BY DEF ReportsFailure, Leased, Untyped, LeaseReads, LeaseWellFormed, HasLease
<1>2. c.job \in Attempts /\ (~HasLease(c) => c.token \in Attempts)
  BY DEF ClaimAnswer, ReportsFailure, Leased, Untyped
<1>3. \A a \in Attempts : a.count \in Nat
  BY ClaimConstants DEF Attempt
<1> QED BY <1>1, <1>2, <1>3 DEF Trusted, Report

\* A managed provider runs in the tree its lease locks, for the lease's attempt.
LEMMA RunsUnderLease ==
  ASSUME NEW c \in ClaimAnswer, StartsProvider(c), c.lease # Absent
  PROVE  /\ ResourceKey(c.key)[2] = c.context.path
         /\ c.lease.job = c.context.job /\ c.lease.count = c.token.count
         /\ c.lease.count = c.job.count /\ (c.named => c.lease.job = c.job.job)
<1>1. LeaseReads(c) /\ LeaseFitsContext(c) /\ ResponseReads(c)
  BY DEF StartsProvider, HasLease
<1>2. NormalPath[c.key.path] = NormalPath[c.lease.path] /\ NormalPath[c.lease.path] = c.lease.path
  BY <1>1, KeysNamePaths DEF LeaseReads, IsCanonical
<1>3. ResourceKey(c.key)[2] = c.context.path
  BY <1>1, <1>2 DEF ResourceKey, LeaseFitsContext
<1> QED BY <1>1, <1>3 DEF LeaseFitsContext, ResponseReads, ContextReads

\* A failure is reported for the lease, or for a claim that has no binding.
LEMMA ReportsForLease ==
  ASSUME NEW c \in ClaimAnswer, ReportsFailure(c)
  PROVE  LET f == Trusted(c)
         IN IF f.lease # Absent THEN f.job = f.lease /\ f.count = f.lease.count ELSE ~f.managed
BY DEF Trusted, ReportsFailure, HasLease, Leased, Untyped

\* Every answer keeps the types and the authority.
LEMMA ClaimPreserved ==
  ClaimTypeOK /\ OneAuthority /\ [ClaimNext]_claimVars => ClaimTypeOK' /\ OneAuthority'
<1> SUFFICES ASSUME ClaimTypeOK, OneAuthority, [ClaimNext]_claimVars
             PROVE  ClaimTypeOK' /\ OneAuthority'
  OBVIOUS
<1>1. ASSUME NEW c \in ClaimAnswer, ProcessClaim(c) PROVE ClaimTypeOK' /\ OneAuthority'
  <2> DEFINE run == [lease |-> c.lease, key |-> ResourceKey(c.key)[2],
                     context |-> c.context, job |-> c.job, named |-> c.named,
                     token |-> c.token.count]
             report == Trusted(c)
  <2>1. vRuns' = (IF StartsProvider(c) THEN vRuns \cup {run} ELSE vRuns)
        /\ vReports' = (IF ReportsFailure(c) THEN vReports \cup {report} ELSE vReports)
        /\ vLeft > 0 /\ vLeft' = vLeft - 1
    BY <1>1 DEF ProcessClaim
  <2>8. vEnded' \in BOOLEAN
    BY <1>1 DEF ProcessClaim, EndsWorker
  <2>2. StartsProvider(c) => run \in Run
    BY RunTypes
  <2>3. ReportsFailure(c) => report \in Report
    BY ReportTypes
  <2>4. ClaimTypeOK'
    <3> HIDE DEF run, report
    <3> QED BY <2>1, <2>2, <2>3, <2>8, ClaimConstants DEF ClaimTypeOK
  <2>5. StartsProvider(c) /\ run.lease # Absent =>
          /\ run.key = run.context.path
          /\ run.lease.job = run.context.job /\ run.lease.count = run.token
          /\ run.lease.count = run.job.count /\ (run.named => run.lease.job = run.job.job)
    BY RunsUnderLease
  <2>6. ReportsFailure(c) =>
          IF report.lease # Absent
          THEN report.job = report.lease /\ report.count = report.lease.count
          ELSE ~report.managed
    BY ReportsForLease
  <2>7. OneAuthority'
    <3> HIDE DEF run, report
    <3> QED BY <2>1, <2>5, <2>6 DEF OneAuthority
  <2> QED BY <2>4, <2>7
<1>2. ASSUME UNCHANGED claimVars PROVE ClaimTypeOK' /\ OneAuthority'
  BY <1>2 DEF claimVars, ClaimTypeOK, OneAuthority
<1> QED BY <1>1, <1>2 DEF ClaimNext

\* Nothing ran and nothing was reported at first.
LEMMA ClaimInitially == ClaimInit => ClaimTypeOK /\ OneAuthority
<1>1. ClaimInit => ClaimTypeOK
  <2>1. MaxClaims \in 0..MaxClaims
    BY ClaimConstants
  <2> QED BY <2>1 DEF ClaimInit, ClaimTypeOK
<1>2. ClaimInit => OneAuthority
  BY DEF ClaimInit, OneAuthority
<1> QED BY <1>1, <1>2

\* Every run and every report is made of parts that were read.
THEOREM ClaimTypes == ClaimSpec => []ClaimTypeOK
BY ClaimInitially, ClaimPreserved, PTL DEF ClaimSpec

\* Whatever parts an answer mixes, a managed provider runs in the tree its lease
\* locks and a failure is reported for the lease: _process_job with
\* validate_execution_lease and validate_claim_response.
THEOREM ProviderUnderOneAuthority == ClaimSpec => []OneAuthority
BY ClaimInitially, ClaimPreserved, PTL DEF ClaimSpec
----------------------------------------------------------------------------
(* The registry and the runtime configuration. *)

\* The entries of a registry that did not raise, and what was kept of them.
CleanAuthority ==
  /\ gAuthority.roster = {Roster(a) : a \in gRead.authority}
  /\ \A a, b \in gRead.authority : a.id = b.id => a = b
  /\ \A a \in gRead.authority :
       a.def \in Definitions =>
         a.type = "managed" /\ [id |-> a.id, def |-> a.def] \in gAuthority.bindings

\* The entries of a runtime file without errors, and what was kept of them.
CleanRuntime ==
  /\ gRuntime.roster = {Roster(e) : e \in gRead.runtime}
  /\ \A e, f \in gRead.runtime : e.id = f.id => e = f
  /\ \A e \in gRead.runtime : e.id \in gRuntime.seen
  /\ \A e \in gRead.runtime : e.type = "managed" => gRuntime.adapters[e.id] = e.adapter

RegistryInv ==
  /\ IsFiniteSet(gRead.authority) /\ IsFiniteSet(gRead.runtime)
  /\ gStage = "runtime" => ~gAuthority.raised
  /\ ~gAuthority.raised => CleanAuthority
  /\ ~gRuntime.errors => CleanRuntime
  /\ gRead.twice => gAuthority.raised \/ gRuntime.errors
  /\ gOk => gStage = "compared" /\ ~gAuthority.raised /\ Parity

\* The parts of an entry that the roster keeps.
LEMMA RosterParts ==
  ASSUME NEW e, NEW f
  PROVE  /\ Roster(e).id = e.id /\ Roster(e).did = e.did /\ Roster(e).type = e.type
         /\ Roster(e) = Roster(f) => e.id = f.id /\ e.type = f.type
BY DEF Roster

\* Nothing was read at first.
LEMMA RegistryInitially == RegistryInit => RegistryTypeOK /\ RegistryInv
<1> SUFFICES ASSUME RegistryInit PROVE RegistryTypeOK /\ RegistryInv
  OBVIOUS
<1>1. RegistryTypeOK
  BY DEF RegistryInit, RegistryTypeOK
<1>2. IsFiniteSet({})
  BY FS_EmptySet
<1>3. RegistryInv
  BY <1>2 DEF RegistryInit, RegistryInv, CleanAuthority, CleanRuntime
<1> QED BY <1>1, <1>3

\* Every step keeps the types.
LEMMA RegistryTyped == RegistryTypeOK /\ [RegistryNext]_registryVars => RegistryTypeOK'
<1> SUFFICES ASSUME RegistryTypeOK, [RegistryNext]_registryVars PROVE RegistryTypeOK'
  OBVIOUS
<1> USE DEF RegistryTypeOK
<1>1. ASSUME NEW e \in AuthorityEntry, ReadAuthority(e) PROVE RegistryTypeOK'
  <2>1. Admits(gAuthority, e) => Roster(e) \in RosterEntry
    BY DEF Admits, AuthorityEntry, Roster, RosterEntry
  <2>2. Admits(gAuthority, e) /\ e.def # Nothing => [id |-> e.id, def |-> e.def] \in Binding
    BY DEF Admits, AuthorityEntry, Binding
  <2>3. gAuthority' \in [roster : SUBSET RosterEntry, bindings : SUBSET Binding, raised : BOOLEAN]
    BY <1>1, <2>1, <2>2 DEF ReadAuthority
  <2>4. gRead' \in [authority : SUBSET AuthorityEntry, runtime : SUBSET RuntimeEntry,
                     twice : BOOLEAN]
    BY <1>1 DEF ReadAuthority
  <2> QED BY <1>1, <2>3, <2>4 DEF ReadAuthority
<1>2. ASSUME NEW e \in RuntimeEntry, ReadRuntime(e) PROVE RegistryTypeOK'
  <2>1. e.did # Bad => Roster(e) \in RosterEntry
    BY DEF RuntimeEntry, Roster, RosterEntry
  <2>2. e.id \in AgentIds /\ e.adapter \in Adapters
    BY DEF RuntimeEntry
  <2>3. gRuntime' \in [roster : SUBSET RosterEntry, seen : SUBSET AgentIds, errors : BOOLEAN,
                       adapters : [AgentIds -> Adapters \cup {Nothing}]]
    BY <1>2, <2>1, <2>2 DEF ReadRuntime
  <2>4. gRead' \in [authority : SUBSET AuthorityEntry, runtime : SUBSET RuntimeEntry,
                     twice : BOOLEAN]
    BY <1>2 DEF ReadRuntime
  <2> QED BY <1>2, <2>3, <2>4 DEF ReadRuntime
<1>3. AuthorityRead => RegistryTypeOK'
  BY DEF AuthorityRead
<1>4. Compare => RegistryTypeOK'
  BY DEF Compare, Parity, RuntimeClean
<1>5. UNCHANGED registryVars => RegistryTypeOK'
  BY DEF registryVars
<1> QED BY <1>1, <1>2, <1>3, <1>4, <1>5 DEF RegistryNext

\* An entry of the registry is kept, or the registry raises.
LEMMA AuthorityEntryKept ==
  ASSUME RegistryTypeOK, RegistryInv, NEW e \in AuthorityEntry, ReadAuthority(e)
  PROVE  RegistryInv'
<1> USE DEF RegistryTypeOK
<1>1. /\ gStage = "authority" /\ gStage' = gStage /\ gOk' = gOk /\ gRuntime' = gRuntime
      /\ ~gAuthority.raised /\ gRead'.authority = gRead.authority \cup {e}
      /\ gRead'.runtime = gRead.runtime /\ gRead'.twice = (gRead.twice \/ e \in gRead.authority)
  BY DEF ReadAuthority
<1>2. IsFiniteSet(gRead'.authority)
  BY <1>1, FS_AddElement DEF RegistryInv
<1>3. Admits(gAuthority, e) =>
        /\ gAuthority'.roster = gAuthority.roster \cup {Roster(e)}
        /\ e.def # Nothing =>
             gAuthority'.bindings = gAuthority.bindings \cup {[id |-> e.id, def |-> e.def]}
        /\ gAuthority.bindings \subseteq gAuthority'.bindings
  BY DEF ReadAuthority
<1>4. gAuthority'.raised = ~Admits(gAuthority, e)
  BY <1>1 DEF ReadAuthority
<1>5. Admits(gAuthority, e) => \A a \in gRead.authority : a.id # e.id
  BY <1>1, RosterParts DEF RegistryInv, CleanAuthority, Admits
<1>6. Admits(gAuthority, e) => CleanAuthority'
  <2> SUFFICES ASSUME Admits(gAuthority, e) PROVE CleanAuthority'
    OBVIOUS
  <2>1. CleanAuthority
    BY <1>1 DEF RegistryInv
  <2>2. gAuthority'.roster = {Roster(a) : a \in gRead'.authority}
    BY <1>1, <1>3, <2>1 DEF CleanAuthority
  <2>3. \A a, b \in gRead'.authority : a.id = b.id => a = b
    BY <1>1, <1>5, <2>1 DEF CleanAuthority
  <2>4. ASSUME NEW a \in gRead'.authority, a.def \in Definitions
        PROVE  a.type = "managed" /\ [id |-> a.id, def |-> a.def] \in gAuthority'.bindings
    <3>1. CASE a \in gRead.authority
      BY <1>3, <2>1, <2>4, <3>1 DEF CleanAuthority
    <3>2. CASE a = e
      <4>1. a.def # Nothing /\ a.type \in AgentTypes
        BY <2>4, <3>2, RegistryConstants DEF AuthorityEntry
      <4>2. a.type = "managed"
        BY <3>2, <4>1 DEF Admits, AgentTypes
      <4> QED BY <1>3, <3>2, <4>1, <4>2
    <3> QED BY <1>1, <2>4, <3>1, <3>2
  <2> QED BY <2>2, <2>3, <2>4 DEF CleanAuthority
<1>7. ~gRuntime'.errors => CleanRuntime'
  BY <1>1 DEF RegistryInv, CleanRuntime
<1>8. gRead'.twice => gAuthority'.raised \/ gRuntime'.errors
  BY <1>1, <1>4, <1>5 DEF RegistryInv
<1>9. ~gOk'
  BY <1>1 DEF RegistryInv
<1> QED BY <1>1, <1>2, <1>4, <1>6, <1>7, <1>8, <1>9 DEF RegistryInv

\* An entry of the runtime file is kept, or counts as an error.
LEMMA RuntimeEntryKept ==
  ASSUME RegistryTypeOK, RegistryInv, NEW e \in RuntimeEntry, ReadRuntime(e)
  PROVE  RegistryInv'
<1> USE DEF RegistryTypeOK
<1> DEFINE good == e.id \notin gRuntime.seen /\ e.did # Bad /\ ~UsesDiscordId(gRuntime.roster, e)
<1>1. /\ gStage = "runtime" /\ gStage' = gStage /\ gOk' = gOk /\ gAuthority' = gAuthority
      /\ gRead'.runtime = gRead.runtime \cup {e}
      /\ gRead'.authority = gRead.authority /\ gRead'.twice = (gRead.twice \/ e \in gRead.runtime)
      /\ gRuntime'.errors = (gRuntime.errors \/ ~good)
      /\ gRuntime'.seen = gRuntime.seen \cup {e.id}
  BY DEF ReadRuntime
<1>2. IsFiniteSet(gRead'.runtime)
  BY <1>1, FS_AddElement DEF RegistryInv
<1>3. good => gRuntime'.roster = gRuntime.roster \cup {Roster(e)}
  BY DEF ReadRuntime
<1>4. /\ e.type = "managed" => gRuntime'.adapters[e.id] = e.adapter
      /\ \A a \in AgentIds : a # e.id => gRuntime'.adapters[a] = gRuntime.adapters[a]
  BY DEF ReadRuntime, RuntimeEntry
<1>5. ~gRuntime'.errors => \A f \in gRead.runtime : f.id # e.id
  BY <1>1 DEF RegistryInv, CleanRuntime
<1>6. ~gRuntime'.errors => CleanRuntime'
  <2> SUFFICES ASSUME ~gRuntime'.errors PROVE CleanRuntime'
    OBVIOUS
  <2>1. CleanRuntime /\ good
    BY <1>1 DEF RegistryInv
  <2>2. gRuntime'.roster = {Roster(f) : f \in gRead'.runtime}
    BY <1>1, <1>3, <2>1 DEF CleanRuntime
  <2>3. \A f, h \in gRead'.runtime : f.id = h.id => f = h
    BY <1>1, <1>5, <2>1 DEF CleanRuntime
  <2>4. \A f \in gRead'.runtime : f.id \in gRuntime'.seen
    BY <1>1, <2>1 DEF CleanRuntime
  <2>5. ASSUME NEW f \in gRead'.runtime, f.type = "managed"
        PROVE  gRuntime'.adapters[f.id] = f.adapter
    <3>1. CASE f \in gRead.runtime
      <4>1. f.id \in AgentIds
        BY <3>1 DEF RuntimeEntry
      <4> QED BY <1>4, <1>5, <2>1, <2>5, <3>1, <4>1 DEF CleanRuntime
    <3>2. CASE f = e
      BY <1>4, <2>5, <3>2
    <3> QED BY <1>1, <3>1, <3>2
  <2> QED BY <2>2, <2>3, <2>4, <2>5 DEF CleanRuntime
<1>7. ~gAuthority'.raised => CleanAuthority'
  BY <1>1 DEF RegistryInv, CleanAuthority
<1>8. gRead'.twice => gAuthority'.raised \/ gRuntime'.errors
  BY <1>1, <1>5 DEF RegistryInv
<1>9. ~gOk'
  BY <1>1 DEF RegistryInv
<1> QED BY <1>1, <1>2, <1>6, <1>7, <1>8, <1>9 DEF RegistryInv

\* Every step keeps the invariant.
LEMMA RegistryPreserved ==
  RegistryTypeOK /\ RegistryInv /\ [RegistryNext]_registryVars => RegistryInv'
<1> SUFFICES ASSUME RegistryTypeOK, RegistryInv, [RegistryNext]_registryVars PROVE RegistryInv'
  OBVIOUS
<1>1. ASSUME NEW e \in AuthorityEntry, ReadAuthority(e) PROVE RegistryInv'
  BY <1>1, AuthorityEntryKept
<1>2. ASSUME NEW e \in RuntimeEntry, ReadRuntime(e) PROVE RegistryInv'
  BY <1>2, RuntimeEntryKept
<1>3. AuthorityRead => RegistryInv'
  BY DEF AuthorityRead, RegistryInv, CleanAuthority, CleanRuntime
<1>4. Compare => RegistryInv'
  BY DEF Compare, RegistryInv, CleanAuthority, CleanRuntime, Parity, RuntimeClean
<1>5. UNCHANGED registryVars => RegistryInv'
  BY DEF registryVars, RegistryInv, CleanAuthority, CleanRuntime, Parity, RuntimeClean
<1> QED BY <1>1, <1>2, <1>3, <1>4, <1>5 DEF RegistryNext

\* A verification that passed compared the same entries.
LEMMA SameEntries == RegistryTypeOK /\ RegistryInv => PassMeansSame
<1> SUFFICES ASSUME RegistryTypeOK, RegistryInv, gOk PROVE PassMeansSame
  BY DEF PassMeansSame
<1> DEFINE A == gRead.authority
           R == gRead.runtime
<1>1. /\ CleanAuthority /\ CleanRuntime /\ ~gRead.twice
      /\ gAuthority.roster = gRuntime.roster
      /\ \A b \in gAuthority.bindings : gRuntime.adapters[b.id] = AdapterOf[b.def]
  BY DEF RegistryInv, Parity, RuntimeClean
<1>2. \A e \in R : \E a \in A : Roster(a) = Roster(e)
  BY <1>1 DEF CleanAuthority, CleanRuntime
<1>3. \A a \in A : \E e \in R : Roster(a) = Roster(e)
  BY <1>1 DEF CleanAuthority, CleanRuntime
<1>4. ASSUME NEW e \in R, NEW a \in A, Roster(a) = Roster(e), a.def \in Definitions
      PROVE  e.adapter = AdapterOf[a.def]
  <2>1. a.type = "managed" /\ [id |-> a.id, def |-> a.def] \in gAuthority.bindings
    BY <1>1, <1>4 DEF CleanAuthority
  <2>2. gRuntime.adapters[a.id] = AdapterOf[a.def]
    BY <1>1, <2>1
  <2>3. e.id = a.id /\ e.type = a.type
    BY <1>4, RosterParts
  <2> QED BY <1>1, <2>1, <2>2, <2>3 DEF CleanRuntime
<1>5. Cardinality(R) = Cardinality(A)
  <2> DEFINE f == [a \in A |-> CHOOSE e \in R : Roster(a) = Roster(e)]
  <2>1. \A a \in A : f[a] \in R /\ Roster(a) = Roster(f[a])
    BY <1>3
  <2>2. f \in [A -> R]
    BY <2>1
  <2> HIDE DEF f
  <2>3. \A a, b \in A : f[a] = f[b] => a = b
    BY <1>1, <2>1, RosterParts DEF CleanAuthority
  <2>4. \A e \in R : \E a \in A : f[a] = e
    BY <1>1, <1>2, <2>1, RosterParts DEF CleanRuntime
  <2>5. f \in Bijection(A, R)
    BY <2>2, <2>3, <2>4, Fun_IsBij
  <2> QED BY <2>5, FS_Bijection, Fun_ExistsBij DEF RegistryInv, ExistsBijection
<1> QED BY <1>1, <1>2, <1>4, <1>5 DEF PassMeansSame

\* What is read and compared is typed.
THEOREM RegistryTypes == RegistrySpec => []RegistryTypeOK
BY RegistryInitially, RegistryTyped, PTL DEF RegistrySpec

\* verify_parity passes only a runtime configuration that names, entry by entry,
\* the agents of the registry, whatever the two files contain and however many
\* entries they have.
LEMMA ParityIsSameness == RegistrySpec => []PassMeansSame
<1>1. RegistryTypeOK /\ RegistryInv /\ [RegistryNext]_registryVars =>
        RegistryTypeOK' /\ RegistryInv'
  BY RegistryTyped, RegistryPreserved
<1> QED BY <1>1, RegistryInitially, SameEntries, PTL DEF RegistrySpec

\* What raised is in the registry file, what was an error is in the runtime file, a
\* binding is an entry's, and the verdict is the comparison of what was kept.
FaultInv ==
  /\ gAuthority.raised =>
       \/ gRead.twice \/ ~WellFormed(gRead.authority)
       \/ \E a \in gRead.authority : a.def = Bad \/ (a.type = "external" /\ a.def # Nothing)
  /\ gRuntime.errors => gRead.twice \/ ~WellFormed(gRead.runtime)
  /\ \A i \in gRuntime.seen : \E e \in gRead.runtime : e.id = i
  /\ \A r \in gRuntime.roster : \E e \in gRead.runtime : r = Roster(e)
  /\ \A b \in gAuthority.bindings :
       \E a \in gRead.authority : a.id = b.id /\ a.def = b.def /\ a.def # Nothing
  /\ gStage = "compared" /\ ~gAuthority.raised => gOk = Parity

\* What is not well formed stays so when entries are added.
LEMMA FaultStays ==
  ASSUME NEW S, NEW T, S \subseteq T, ~WellFormed(S)
  PROVE  ~WellFormed(T)
BY DEF WellFormed

\* An entry that is not admitted is a fault of the registry file.
LEMMA AuthorityFault ==
  ASSUME RegistryTypeOK, RegistryInv, FaultInv, NEW e \in AuthorityEntry, ReadAuthority(e)
  PROVE  FaultInv'
<1> USE DEF RegistryTypeOK
<1>1. /\ gStage = "authority" /\ gStage' = gStage /\ gOk' = gOk /\ gRuntime' = gRuntime
      /\ ~gAuthority.raised /\ gRead'.authority = gRead.authority \cup {e}
      /\ gRead'.runtime = gRead.runtime /\ gRead'.twice = (gRead.twice \/ e \in gRead.authority)
      /\ gAuthority'.raised = ~Admits(gAuthority, e)
  BY DEF ReadAuthority
<1>2. /\ \A f \in gRead.authority : Roster(f) \in gAuthority.roster
      /\ \A r \in gAuthority.roster : \E f \in gRead.authority : r = Roster(f)
  BY <1>1 DEF RegistryInv, CleanAuthority
<1>3. gAuthority'.raised =>
        \/ gRead'.twice \/ ~WellFormed(gRead'.authority)
        \/ \E a \in gRead'.authority : a.def = Bad \/ (a.type = "external" /\ a.def # Nothing)
  <2> SUFFICES ASSUME ~Admits(gAuthority, e), e \notin gRead.authority, e.did # Bad,
                      e.def # Bad, e.type = "external" => e.def = Nothing
               PROVE  ~WellFormed(gRead'.authority)
    BY <1>1 DEF WellFormed
  <2>1. PICK r \in gAuthority.roster : r.id = e.id \/ r.did = e.did
    BY DEF Admits, UsesDiscordId
  <2>2. PICK f \in gRead.authority : r = Roster(f)
    BY <1>2
  <2>3. e # f /\ (f.id = e.id \/ f.did = e.did)
    BY <2>1, <2>2, RosterParts
  <2> QED BY <1>1, <2>3 DEF WellFormed
<1>4. \A b \in gAuthority'.bindings :
        \/ b \in gAuthority.bindings
        \/ b.id = e.id /\ b.def = e.def /\ e.def # Nothing
  BY <1>1 DEF ReadAuthority
<1> QED BY <1>1, <1>3, <1>4 DEF FaultInv

\* A runtime entry that is skipped is a fault of the runtime file.
LEMMA RuntimeFault ==
  ASSUME RegistryTypeOK, RegistryInv, FaultInv, NEW e \in RuntimeEntry, ReadRuntime(e)
  PROVE  FaultInv'
<1> USE DEF RegistryTypeOK
<1> DEFINE good == e.id \notin gRuntime.seen /\ e.did # Bad /\ ~UsesDiscordId(gRuntime.roster, e)
<1>1. /\ gStage = "runtime" /\ gStage' = gStage /\ gOk' = gOk /\ gAuthority' = gAuthority
      /\ gRead'.runtime = gRead.runtime \cup {e} /\ gRead'.authority = gRead.authority
      /\ gRead'.twice = (gRead.twice \/ e \in gRead.runtime)
      /\ gRuntime'.errors = (gRuntime.errors \/ ~good)
      /\ gRuntime'.seen = gRuntime.seen \cup {e.id}
      /\ gRuntime'.roster = IF good THEN gRuntime.roster \cup {Roster(e)} ELSE gRuntime.roster
  BY DEF ReadRuntime
<1>2. ~good => gRead'.twice \/ ~WellFormed(gRead'.runtime)
  <2> SUFFICES ASSUME ~good, e \notin gRead.runtime, e.did # Bad
               PROVE  ~WellFormed(gRead'.runtime)
    BY <1>1 DEF WellFormed
  <2>1. \E f \in gRead.runtime : f.id = e.id \/ f.did = e.did
    BY RosterParts DEF UsesDiscordId, FaultInv
  <2> QED BY <1>1, <2>1 DEF WellFormed
<1>3. gRuntime.errors => gRead'.twice \/ ~WellFormed(gRead'.runtime)
  BY <1>1, FaultStays DEF FaultInv
<1>4. \A i \in gRuntime'.seen : \E f \in gRead'.runtime : f.id = i
  BY <1>1 DEF FaultInv
<1>5. \A r \in gRuntime'.roster : \E f \in gRead'.runtime : r = Roster(f)
  BY <1>1 DEF FaultInv
<1> QED BY <1>1, <1>2, <1>3, <1>4, <1>5 DEF FaultInv

\* Every step keeps track of the faults.
LEMMA FaultsPreserved ==
  RegistryTypeOK /\ RegistryInv /\ FaultInv /\ [RegistryNext]_registryVars => FaultInv'
<1> SUFFICES ASSUME RegistryTypeOK, RegistryInv, FaultInv, [RegistryNext]_registryVars
             PROVE  FaultInv'
  OBVIOUS
<1>1. AuthorityRead => FaultInv'
  BY DEF AuthorityRead, FaultInv
<1>2. Compare => FaultInv'
  BY DEF Compare, FaultInv, Parity, RuntimeClean
<1>3. UNCHANGED registryVars => FaultInv'
  <2> SUFFICES ASSUME UNCHANGED registryVars PROVE FaultInv'
    OBVIOUS
  <2>1. gStage' = gStage /\ gAuthority' = gAuthority /\ gRuntime' = gRuntime
        /\ gRead' = gRead /\ gOk' = gOk
    BY DEF registryVars
  <2>2. Parity' = Parity
    BY <2>1 DEF Parity, RuntimeClean
  <2> QED BY <2>1, <2>2 DEF FaultInv
<1> QED BY <1>1, <1>2, <1>3, AuthorityFault, RuntimeFault DEF RegistryNext

\* Files that agree give no reason to fail.
LEMMA NoFault == RegistryTypeOK /\ RegistryInv /\ FaultInv => SameMeansPass
<1> SUFFICES ASSUME RegistryTypeOK, RegistryInv, FaultInv, gStage = "compared",
                    ConfiguredAsDeclared
             PROVE  gOk
  BY DEF SameMeansPass
<1>1. ~gAuthority.raised /\ ~gRuntime.errors
  BY DEF FaultInv, ConfiguredAsDeclared
<1>2. gAuthority.roster = gRuntime.roster
  BY <1>1 DEF RegistryInv, CleanAuthority, CleanRuntime, ConfiguredAsDeclared
<1>3. ASSUME NEW b \in gAuthority.bindings PROVE gRuntime.adapters[b.id] = AdapterOf[b.def]
  <2>1. PICK a \in gRead.authority : a.id = b.id /\ a.def = b.def /\ a.def # Nothing
    BY DEF FaultInv
  <2>2. a.def \in Definitions /\ a.type = "managed"
    BY <2>1 DEF RegistryTypeOK, AuthorityEntry, AgentTypes, ConfiguredAsDeclared
  <2>3. PICK e \in gRead.runtime : Roster(a) = Roster(e)
    BY DEF ConfiguredAsDeclared
  <2>4. e.id = a.id /\ e.type = "managed"
    BY <2>2, <2>3, RosterParts
  <2>5. e.adapter = AdapterOf[a.def]
    BY <2>2, <2>4 DEF ConfiguredAsDeclared
  <2>6. gRuntime.adapters[e.id] = e.adapter
    BY <1>1, <2>4 DEF RegistryInv, CleanRuntime
  <2> QED BY <2>1, <2>4, <2>5, <2>6
<1> QED BY <1>1, <1>2, <1>3 DEF FaultInv, Parity, RuntimeClean

\* verify_parity raises no false alarm: two well formed files that name the same
\* agents, with the adapters of their definitions, pass.
LEMMA SamenessIsParity == RegistrySpec => []SameMeansPass
<1>1. RegistryInit => FaultInv
  BY DEF RegistryInit, FaultInv
<1>2. RegistryTypeOK /\ RegistryInv /\ FaultInv /\ [RegistryNext]_registryVars =>
        RegistryTypeOK' /\ RegistryInv' /\ FaultInv'
  BY RegistryTyped, RegistryPreserved, FaultsPreserved
<1> QED BY <1>1, <1>2, RegistryInitially, NoFault, PTL DEF RegistrySpec

\* verify_parity passes exactly the runtime configurations that agree with the
\* registry, whatever the two files contain and however many entries they have.
THEOREM VerdictExact == RegistrySpec => []VerdictIsExact
BY ParityIsSameness, SamenessIsParity, PTL DEF VerdictIsExact

----------------------------------------------------------------------------
(* The washer. *)

\* What holds of the rows and of the watermark of one table: rows are distinct
\* and were given out, rowids were given out without a gap, the watermark is one
\* of them, and what it covers was extracted or reuses a rowid.
TableInv(s) ==
  /\ \A m \in WMessages : wRow[s][m] # 0 => wRow[s][m] \in wUsed[s]
  /\ \A m, n \in WMessages : wRow[s][m] # 0 /\ wRow[s][m] = wRow[s][n] => m = n
  /\ \A u \in wUsed[s] : \A k \in 1..u : k \in wUsed[s]
  /\ wMark[s] = 0 \/ wMark[s] \in wUsed[s]
  /\ \A m \in WMessages :
       wRow[s][m] # 0 /\ wRow[s][m] <= wMark[s] => m \in wDone \cup wTaken

\* What a pass still has to do is in order, and nothing below it is left over:
\* a message in the way was extracted, reuses a rowid, or is in the pass.
PassInv(s) ==
  /\ wPass.base = wMark[s]
  /\ wPass.max = 0 \/ wPass.max \in wUsed[s]
  /\ \A t \in wPass.todo : wPass.rows[t] \in wUsed[s]
  /\ \A t, u \in wPass.todo : wPass.rows[t] = wPass.rows[u] => t = u
  /\ \A m \in WMessages :
       wRow[s][m] # 0 /\ wRow[s][m] <= wPass.max => m \in wDone \cup wTaken
  /\ \A m \in WMessages, t \in wPass.todo :
       wRow[s][m] # 0 /\ wRow[s][m] <= wPass.rows[t] =>
         m \in wDone \cup wTaken \/ (m \in wPass.todo /\ wPass.rows[m] = wRow[s][m])

WasherInv ==
  /\ \A s \in Sources : TableInv(s)
  /\ wPass.pc # "idle" => PassInv(wPass.source)

\* A table that is not empty has a highest row.
LEMMA HasHighestRow ==
  ASSUME WasherTypeOK, NEW s \in Sources, Stored(s) # {}
  PROVE  \E m \in Stored(s) : \A x \in Stored(s) : wRow[s][x] <= wRow[s][m]
<1> DEFINE S == Stored(s)
           Above(m) == {x \in S : wRow[s][x] > wRow[s][m]}
           T == {Above(m) : m \in S}
<1>1. \A x \in S : wRow[s][x] \in Nat
  BY DEF WasherTypeOK, Stored
<1>2. IsFiniteSet(S)
  <2>1. S \subseteq WMessages
    BY DEF Stored
  <2> QED BY <2>1, WasherConstants, FS_Subset
<1>3. \A m \in S : Above(m) \in SUBSET S /\ IsFiniteSet(Above(m))
  BY <1>2, FS_Subset
<1>4. T \subseteq FiniteSubsetsOf(S) /\ T # {}
  BY <1>3 DEF FiniteSubsetsOf
<1>5. \E A \in T : \A B \in T : <<B, A>> \notin StrictSubsetOrdering(S)
  <2> HIDE DEF T, S
  <2> QED BY <1>4, WFMin, FS_StrictSubsetOrderingWellFounded
<1>6. PICK m \in S : \A x \in S : <<Above(x), Above(m)>> \notin StrictSubsetOrdering(S)
  BY <1>5
<1>7. ASSUME NEW x \in S, wRow[s][x] > wRow[s][m] PROVE FALSE
  <2>1. Above(x) \subseteq Above(m) /\ x \in Above(m) /\ x \notin Above(x)
    BY <1>1, <1>7
  <2>2. <<Above(x), Above(m)>> \in StrictSubsetOrdering(S)
    BY <2>1 DEF StrictSubsetOrdering
  <2> QED BY <1>6, <2>2
<1> QED BY <1>1, <1>7

\* The highest row of a table is a rowid, and no row is above it.
LEMMA HighestRowBounds ==
  ASSUME WasherTypeOK, NEW s \in Sources
  PROVE  /\ HighestRow(s) \in Nat
         /\ \A m \in WMessages : wRow[s][m] <= HighestRow(s)
         /\ HighestRow(s) = 0 \/ \E m \in Stored(s) : HighestRow(s) = wRow[s][m]
<1>1. \A m \in WMessages : wRow[s][m] \in Nat /\ (wRow[s][m] # 0 <=> m \in Stored(s))
  BY DEF WasherTypeOK, Stored
<1>2. CASE Stored(s) = {}
  BY <1>1, <1>2 DEF HighestRow
<1>3. CASE Stored(s) # {}
  <2> DEFINE R == {wRow[s][m] : m \in Stored(s)}
  <2>1. \E n \in R : \A m \in Stored(s) : wRow[s][m] <= n
    BY <1>3, HasHighestRow
  <2>2. HighestRow(s) \in R /\ \A m \in Stored(s) : wRow[s][m] <= HighestRow(s)
    BY <1>3, <2>1 DEF HighestRow
  <2>3. HighestRow(s) \in Nat
    BY <1>1, <2>2 DEF Stored
  <2>4. \A m \in WMessages : wRow[s][m] <= HighestRow(s)
    BY <1>1, <2>2, <2>3
  <2> QED BY <2>2, <2>3, <2>4
<1> QED BY <1>2, <1>3

\* What SaveMessage and Archive do to the rows: one table gets a row above all
\* others, whose rowid is in wTaken if it is not new, the other loses rows.
Adds(s, m) ==
  \E n \in Nat \ {0} :
    /\ \A x \in WMessages : wRow'[s][x] = IF x = m THEN n ELSE wRow[s][x]
    /\ \A x \in WMessages : wRow[s][x] < n
    /\ n = 1 \/ \E x \in WMessages : wRow[s][x] # 0 /\ n = wRow[s][x] + 1
    /\ wUsed'[s] = wUsed[s] \cup {n}
    /\ n \in wUsed[s] => m \in wTaken'
Loses(s) ==
  /\ wUsed'[s] = wUsed[s]
  /\ \A x \in WMessages : wRow'[s][x] = wRow[s][x] \/ wRow'[s][x] = 0

StorageStep ==
  /\ wMark' = wMark /\ wPass' = wPass /\ wDone' = wDone /\ wTaken \subseteq wTaken'
  /\ \A s \in Sources : Loses(s) \/ \E m \in WMessages : Adds(s, m)

\* Insert adds a row to its table, and to no other.
LEMMA InsertAdds ==
  ASSUME WasherTypeOK, NEW m \in WMessages, NEW s \in Sources, NEW rows,
         rows \in [Sources -> [WMessages -> Nat]], rows[s] = wRow[s], Insert(m, s, rows)
  PROVE  /\ Adds(s, m) /\ wTaken \subseteq wTaken' /\ wTaken' \in SUBSET WMessages
         /\ wRow' \in [Sources -> [WMessages -> Nat]] /\ wUsed' \in [Sources -> SUBSET Nat]
         /\ \A o \in Sources : o # s => wRow'[o] = rows[o] /\ wUsed'[o] = wUsed[o]
<1> DEFINE n == HighestRow(s) + 1
<1>1. /\ HighestRow(s) \in Nat
      /\ \A x \in WMessages : wRow[s][x] <= HighestRow(s)
      /\ HighestRow(s) = 0 \/ \E x \in Stored(s) : HighestRow(s) = wRow[s][x]
  BY HighestRowBounds
<1>2. n \in Nat \ {0}
  BY <1>1
<1>3. /\ wRow' = [rows EXCEPT ![s][m] = n]
      /\ wUsed' = [wUsed EXCEPT ![s] = @ \cup {n}]
      /\ wTaken' = IF n \in wUsed[s] THEN wTaken \cup {m} ELSE wTaken
  BY DEF Insert
<1>4. \A x \in WMessages : wRow[s][x] < n
  BY <1>1 DEF WasherTypeOK
<1>5. n = 1 \/ \E x \in WMessages : wRow[s][x] # 0 /\ n = wRow[s][x] + 1
  BY <1>1 DEF Stored
<1> HIDE DEF n
<1>6. \A x \in WMessages : wRow'[s][x] = IF x = m THEN n ELSE wRow[s][x]
  BY <1>3
<1>7. wUsed'[s] = wUsed[s] \cup {n} /\ (n \in wUsed[s] => m \in wTaken')
  BY <1>3 DEF WasherTypeOK
<1>8. Adds(s, m)
  BY <1>2, <1>4, <1>5, <1>6, <1>7 DEF Adds
<1>9. wRow' \in [Sources -> [WMessages -> Nat]] /\ wUsed' \in [Sources -> SUBSET Nat]
  BY <1>2, <1>3 DEF WasherTypeOK
<1>10. wTaken \subseteq wTaken' /\ wTaken' \in SUBSET WMessages
  BY <1>3 DEF WasherTypeOK
<1>11. \A o \in Sources : o # s => wRow'[o] = rows[o] /\ wUsed'[o] = wUsed[o]
  BY <1>3 DEF WasherTypeOK
<1> QED BY <1>8, <1>9, <1>10, <1>11

\* The program that saves, archives and clears messages takes storage steps.
LEMMA ChatStepsAreStorage ==
  ASSUME WasherTypeOK
  PROVE  /\ \A m \in WMessages : SaveMessage(m) \/ Archive(m) => StorageStep /\ WasherTypeOK'
         /\ \A ms \in SUBSET WMessages : ClearHistory(ms) => StorageStep /\ WasherTypeOK'
<1>1. ASSUME NEW m \in WMessages, SaveMessage(m) PROVE StorageStep /\ WasherTypeOK'
  <2>1. /\ wRow \in [Sources -> [WMessages -> Nat]] /\ "conversations" \in Sources
        /\ Insert(m, "conversations", wRow) /\ wSaved' = wSaved \cup {m}
        /\ UNCHANGED <<wMark, wPass, wDone>>
    BY <1>1 DEF SaveMessage, WasherTypeOK, Sources
  <2>2. /\ Adds("conversations", m) /\ wTaken \subseteq wTaken' /\ wTaken' \in SUBSET WMessages
        /\ wRow' \in [Sources -> [WMessages -> Nat]] /\ wUsed' \in [Sources -> SUBSET Nat]
        /\ \A o \in Sources : o # "conversations" => wRow'[o] = wRow[o] /\ wUsed'[o] = wUsed[o]
    BY <2>1, InsertAdds
  <2>3. \A o \in Sources : o # "conversations" => Loses(o)
    BY <2>2 DEF Loses
  <2>4. StorageStep
    BY <2>1, <2>2, <2>3 DEF StorageStep
  <2>5. WasherTypeOK'
    BY <2>1, <2>2 DEF WasherTypeOK
  <2> QED BY <2>4, <2>5
<1>2. ASSUME NEW m \in WMessages, Archive(m) PROVE StorageStep /\ WasherTypeOK'
  <2> DEFINE rows == [wRow EXCEPT !["conversations"][m] = 0]
  <2>1. /\ rows \in [Sources -> [WMessages -> Nat]] /\ "conversations_archive" \in Sources
        /\ rows["conversations_archive"] = wRow["conversations_archive"]
        /\ Insert(m, "conversations_archive", rows)
        /\ UNCHANGED <<wSaved, wMark, wPass, wDone>>
    BY <1>2 DEF Archive, WasherTypeOK, Sources
  <2>2. \A x \in WMessages : rows["conversations"][x] \in {0, wRow["conversations"][x]}
    BY DEF WasherTypeOK, Sources
  <2> HIDE DEF rows
  <2>3. /\ Adds("conversations_archive", m) /\ wTaken \subseteq wTaken'
        /\ wTaken' \in SUBSET WMessages
        /\ wRow' \in [Sources -> [WMessages -> Nat]] /\ wUsed' \in [Sources -> SUBSET Nat]
        /\ \A o \in Sources : o # "conversations_archive" =>
             wRow'[o] = rows[o] /\ wUsed'[o] = wUsed[o]
    BY <2>1, InsertAdds
  <2>4. Loses("conversations")
    BY <2>2, <2>3 DEF Loses, Sources
  <2>5. StorageStep
    BY <2>1, <2>3, <2>4 DEF StorageStep, Sources
  <2>6. WasherTypeOK'
    BY <2>1, <2>3 DEF WasherTypeOK
  <2> QED BY <2>5, <2>6
<1>3. ASSUME NEW ms \in SUBSET WMessages, ClearHistory(ms) PROVE StorageStep /\ WasherTypeOK'
  <2>1. /\ wRow' = [wRow EXCEPT !["conversations"] =
                      [m \in WMessages |-> IF m \in ms THEN 0 ELSE wRow["conversations"][m]]]
        /\ UNCHANGED <<wSaved, wUsed, wTaken, wMark, wPass, wDone>>
    BY <1>3 DEF ClearHistory
  <2>2. \A s \in Sources : Loses(s)
    BY <2>1 DEF Loses, WasherTypeOK
  <2>3. wRow' \in [Sources -> [WMessages -> Nat]]
    BY <2>1 DEF WasherTypeOK, Sources
  <2> QED BY <2>1, <2>2, <2>3 DEF StorageStep, WasherTypeOK
<1> QED BY <1>1, <1>2, <1>3

\* The row that a step added, or that it kept, is one the invariant covers: a new
\* row that is at or below a rowid given out before is a rowid given out before.
LEMMA NewRowIsTaken ==
  ASSUME WasherTypeOK, NEW s \in Sources, TableInv(s),
         Loses(s) \/ \E m \in WMessages : Adds(s, m),
         NEW x \in WMessages, wRow'[s][x] # 0, NEW u \in wUsed[s] \cup {0}, wRow'[s][x] <= u
  PROVE  wRow'[s][x] = wRow[s][x] \/ x \in wTaken'
<1>1. CASE Loses(s)
  BY <1>1 DEF Loses
<1>2. ASSUME NEW m \in WMessages, Adds(s, m) PROVE wRow'[s][x] = wRow[s][x] \/ x \in wTaken'
  <2>1. PICK n \in Nat \ {0} :
          /\ \A y \in WMessages : wRow'[s][y] = IF y = m THEN n ELSE wRow[s][y]
          /\ n \in wUsed[s] => m \in wTaken'
    BY <1>2 DEF Adds
  <2>2. CASE x # m
    BY <2>1, <2>2
  <2>3. CASE x = m
    <3>1. u \in Nat /\ n <= u /\ u \in wUsed[s]
      BY <2>1, <2>3 DEF WasherTypeOK
    <3>2. n \in 1..u
      BY <3>1
    <3> QED BY <2>1, <2>3, <3>1, <3>2 DEF TableInv
  <2> QED BY <2>2, <2>3
<1> QED BY <1>1, <1>2

\* A storage step keeps what holds of the tables and of the pass.
LEMMA StorageKeeps ==
  ASSUME WasherTypeOK, WasherTypeOK', WasherInv, StorageStep
  PROVE  WasherInv'
<1>1. ASSUME NEW s \in Sources PROVE TableInv(s)'
  <2>1. TableInv(s) /\ wMark'[s] = wMark[s] /\ wDone' = wDone /\ wTaken \subseteq wTaken'
    BY DEF WasherInv, StorageStep
  <2>2. Loses(s) \/ \E m \in WMessages : Adds(s, m)
    BY DEF StorageStep
  <2>3. \A x \in WMessages : wRow[s][x] \in Nat /\ wRow'[s][x] \in Nat
    BY DEF WasherTypeOK
  <2>4. wUsed[s] \subseteq Nat /\ wMark[s] \in Nat
    BY DEF WasherTypeOK
  <2>5. \A x \in WMessages :
          wRow'[s][x] # 0 /\ wRow'[s][x] <= wMark'[s] => x \in wDone' \cup wTaken'
    BY <2>1, <2>2, NewRowIsTaken DEF TableInv
  <2>6. CASE Loses(s)
    BY <2>1, <2>5, <2>6 DEF TableInv, Loses
  <2>7. ASSUME NEW m \in WMessages, Adds(s, m) PROVE TableInv(s)'
    <3>1. PICK n \in Nat \ {0} :
            /\ \A x \in WMessages : wRow'[s][x] = IF x = m THEN n ELSE wRow[s][x]
            /\ \A x \in WMessages : wRow[s][x] < n
            /\ n = 1 \/ \E x \in WMessages : wRow[s][x] # 0 /\ n = wRow[s][x] + 1
            /\ wUsed'[s] = wUsed[s] \cup {n}
      BY <2>7 DEF Adds
    <3>2. \A x \in WMessages : wRow'[s][x] # 0 => wRow'[s][x] \in wUsed'[s]
      BY <2>1, <3>1 DEF TableInv
    <3>3. \A x, y \in WMessages : wRow'[s][x] # 0 /\ wRow'[s][x] = wRow'[s][y] => x = y
      <4> SUFFICES ASSUME NEW x \in WMessages, NEW y \in WMessages,
                          wRow'[s][x] # 0, wRow'[s][x] = wRow'[s][y]
                   PROVE  x = y
        OBVIOUS
      <4> QED BY <2>1, <2>3, <3>1 DEF TableInv
    <3>4. \A k \in 1..n : k \in wUsed'[s]
      <4> SUFFICES ASSUME NEW k \in 1..n PROVE k \in wUsed'[s]
        OBVIOUS
      <4>1. CASE k = n
        BY <3>1, <4>1
      <4>2. CASE k # n
        <5>1. PICK x \in WMessages : wRow[s][x] # 0 /\ n = wRow[s][x] + 1
          BY <3>1, <4>2
        <5>2. wRow[s][x] \in wUsed[s] /\ k \in 1..wRow[s][x]
          BY <2>1, <2>3, <4>2, <5>1 DEF TableInv
        <5> QED BY <2>1, <3>1, <5>2 DEF TableInv
      <4> QED BY <4>1, <4>2
    <3>5. \A u \in wUsed'[s] : \A k \in 1..u : k \in wUsed'[s]
      BY <2>1, <3>1, <3>4 DEF TableInv
    <3>6. wMark'[s] = 0 \/ wMark'[s] \in wUsed'[s]
      BY <2>1, <3>1 DEF TableInv
    <3> QED BY <2>5, <3>2, <3>3, <3>5, <3>6 DEF TableInv
  <2> QED BY <2>2, <2>6, <2>7
<1>2. ASSUME wPass'.pc # "idle" PROVE PassInv(wPass.source)'
  <2>0. PICK s \in Sources : s = wPass.source
    BY DEF WasherTypeOK, WPass
  <2>1. /\ wPass' = wPass /\ wDone' = wDone /\ wTaken \subseteq wTaken'
        /\ TableInv(s) /\ PassInv(s) /\ wMark' = wMark
    BY <1>2, <2>0 DEF WasherInv, StorageStep, WasherTypeOK, WPass
  <2>2. Loses(s) \/ \E m \in WMessages : Adds(s, m)
    BY <2>1 DEF StorageStep
  <2>3. wUsed[s] \subseteq wUsed'[s]
    BY <2>2 DEF Loses, Adds
  <2>4. \A m \in WMessages :
          wRow'[s][m] # 0 /\ wRow'[s][m] <= wPass.max => m \in wDone' \cup wTaken'
    <3> SUFFICES ASSUME NEW m \in WMessages, wRow'[s][m] # 0, wRow'[s][m] <= wPass.max
                 PROVE  m \in wDone' \cup wTaken'
      OBVIOUS
    <3>1. wPass.max \in wUsed[s] \cup {0}
      BY <2>1 DEF PassInv
    <3>2. wRow'[s][m] = wRow[s][m] \/ m \in wTaken'
      BY <2>1, <2>2, <3>1, NewRowIsTaken
    <3> QED BY <2>1, <3>2 DEF PassInv
  <2>5. \A m \in WMessages, t \in wPass.todo :
          wRow'[s][m] # 0 /\ wRow'[s][m] <= wPass.rows[t] =>
            m \in wDone' \cup wTaken' \/ (m \in wPass.todo /\ wPass.rows[m] = wRow'[s][m])
    <3> SUFFICES ASSUME NEW m \in WMessages, NEW t \in wPass.todo,
                        wRow'[s][m] # 0, wRow'[s][m] <= wPass.rows[t]
                 PROVE  m \in wDone' \cup wTaken'
                          \/ (m \in wPass.todo /\ wPass.rows[m] = wRow'[s][m])
      OBVIOUS
    <3>1. wPass.rows[t] \in wUsed[s] \cup {0}
      BY <2>1 DEF PassInv
    <3>2. wRow'[s][m] = wRow[s][m] \/ m \in wTaken'
      BY <2>1, <2>2, <3>1, NewRowIsTaken
    <3> QED BY <2>1, <3>2 DEF PassInv
  <2>6. PassInv(s)'
    BY <2>1, <2>3, <2>4, <2>5 DEF PassInv
  <2> QED BY <2>0, <2>1, <2>6 DEF PassInv
<1> QED BY <1>1, <1>2 DEF WasherInv

\* A pass fetches the rows above the watermark from the lowest on.
LEMMA FetchedFromBelow ==
  ASSUME WasherTypeOK, NEW s \in Sources, NEW t \in Fetched(s), NEW m \in Stored(s),
         wRow[s][m] > wMark[s], wRow[s][m] <= wRow[s][t]
  PROVE  m \in Fetched(s)
<1> DEFINE above == {n \in Stored(s) : wRow[s][n] > wMark[s]}
           Below(x) == {n \in above : wRow[s][n] < wRow[s][x]}
<1>1. IsFiniteSet(above)
  <2>1. above \subseteq WMessages
    BY DEF Stored
  <2> QED BY <2>1, WasherConstants, FS_Subset
<1>2. \A n \in Stored(s) : wRow[s][n] \in Nat
  BY DEF Stored, WasherTypeOK
<1>3. t \in above /\ Cardinality(Below(t)) < WLimit /\ m \in above
  BY DEF Fetched, Precedes
<1>4. Below(m) \subseteq Below(t) /\ Below(t) \subseteq above
  BY <1>2, <1>3
<1>5. IsFiniteSet(Below(t)) /\ IsFiniteSet(Below(m))
  BY <1>1, <1>4, FS_Subset
<1>6. Cardinality(Below(m)) <= Cardinality(Below(t))
  BY <1>4, <1>5, FS_Subset
<1>7. Cardinality(Below(m)) \in Nat /\ Cardinality(Below(t)) \in Nat
  BY <1>5, FS_CardinalityType
<1>8. Cardinality(Below(m)) < WLimit
  BY <1>3, <1>6, <1>7, WasherConstants
<1> QED BY <1>3, <1>8 DEF Fetched, Precedes

\* A pass begins in order.
LEMMA PassBegins ==
  ASSUME WasherTypeOK, WasherInv, NEW s \in Sources, BeginPass(s)
  PROVE  WasherTypeOK' /\ WasherInv'
<1> DEFINE rows == [m \in WMessages |-> IF m \in Fetched(s) THEN wRow[s][m] ELSE 0]
<1>1. /\ wPass' = [pc |-> "extract", source |-> s, todo |-> Fetched(s), rows |-> rows,
                   base |-> wMark[s], max |-> wMark[s]]
      /\ UNCHANGED <<wSaved, wRow, wUsed, wTaken, wMark, wDone>>
  BY DEF BeginPass
<1>2. Fetched(s) \subseteq Stored(s) /\ Fetched(s) \subseteq WMessages
  BY DEF Fetched, Stored
<1>3. rows \in [WMessages -> Nat] /\ \A m \in Fetched(s) : rows[m] = wRow[s][m] /\ rows[m] # 0
  BY <1>2 DEF WasherTypeOK, Stored
<1> HIDE DEF rows
<1>4. WasherTypeOK'
  BY <1>1, <1>2, <1>3 DEF WasherTypeOK, WPass
<1>5. TableInv(s)
  BY DEF WasherInv
<1>6. \A m \in WMessages, t \in Fetched(s) :
        wRow[s][m] # 0 /\ wRow[s][m] <= rows[t] =>
          m \in wDone \cup wTaken \/ (m \in Fetched(s) /\ rows[m] = wRow[s][m])
  <2> SUFFICES ASSUME NEW m \in WMessages, NEW t \in Fetched(s),
                      wRow[s][m] # 0, wRow[s][m] <= rows[t]
               PROVE  m \in wDone \cup wTaken \/ (m \in Fetched(s) /\ rows[m] = wRow[s][m])
    OBVIOUS
  <2>1. CASE wRow[s][m] <= wMark[s]
    BY <1>5, <2>1 DEF TableInv
  <2>2. CASE wRow[s][m] > wMark[s]
    <3>1. m \in Stored(s) /\ wRow[s][m] <= wRow[s][t]
      BY <1>3 DEF Stored
    <3> QED BY <1>3, <2>2, <3>1, FetchedFromBelow
  <2> QED BY <2>1, <2>2 DEF WasherTypeOK
<1>7. PassInv(s)'
  <2>1. wMark[s] = 0 \/ wMark[s] \in wUsed[s]
    BY <1>5 DEF TableInv
  <2>2. \A t \in Fetched(s) : rows[t] \in wUsed[s]
    BY <1>2, <1>3, <1>5 DEF TableInv
  <2>3. \A t, u \in Fetched(s) : rows[t] = rows[u] => t = u
    BY <1>2, <1>3, <1>5 DEF TableInv
  <2>4. \A m \in WMessages : wRow[s][m] # 0 /\ wRow[s][m] <= wMark[s] => m \in wDone \cup wTaken
    BY <1>5 DEF TableInv
  <2> QED BY <1>1, <1>6, <2>1, <2>2, <2>3, <2>4 DEF PassInv
<1>8. \A o \in Sources : TableInv(o)'
  BY <1>1 DEF WasherInv, TableInv
<1> QED BY <1>1, <1>4, <1>7, <1>8 DEF WasherInv

\* An extraction keeps the order of the pass.
LEMMA ExtractKeeps ==
  ASSUME WasherTypeOK, WasherInv, NEW m \in WMessages, Extract(m)
  PROVE  WasherTypeOK' /\ WasherInv'
<1>0. PICK s \in Sources : s = wPass.source
  BY DEF WasherTypeOK, WPass
<1>1. /\ m \in wPass.todo /\ Nearest(m) /\ wDone' = wDone \cup {m}
      /\ UNCHANGED <<wSaved, wRow, wUsed, wTaken, wMark>>
      /\ PassInv(s) /\ TableInv(s)
  BY <1>0 DEF Extract, WasherInv, WasherTypeOK, WPass
<1>2. /\ wPass'.todo = wPass.todo \ {m} /\ wPass'.max = wPass.rows[m]
      /\ wPass'.rows = wPass.rows /\ wPass'.base = wPass.base /\ wPass'.source = s
      /\ wPass' \in WPass
  BY <1>0 DEF Extract, WasherTypeOK, WPass
<1>3. WasherTypeOK'
  BY <1>1, <1>2 DEF WasherTypeOK
<1>4. /\ \A x \in WMessages : wRow[s][x] \in Nat /\ wPass.rows[x] \in Nat
      /\ wPass.todo \subseteq WMessages
  BY <1>1 DEF WasherTypeOK, WPass
<1>5. \A x \in WMessages :
        wRow[s][x] # 0 /\ wRow[s][x] <= wPass.rows[m] => x \in wDone' \cup wTaken
  <2> SUFFICES ASSUME NEW x \in WMessages, wRow[s][x] # 0, wRow[s][x] <= wPass.rows[m],
                      x \notin wDone \cup wTaken
               PROVE  x = m
    BY <1>1
  <2>1. x \in wPass.todo /\ wPass.rows[x] = wRow[s][x]
    BY <1>1 DEF PassInv
  <2>2. wPass.rows[m] <= wPass.rows[x]
    BY <1>1, <2>1 DEF Nearest
  <2>3. wPass.rows[x] = wPass.rows[m]
    BY <1>4, <2>1, <2>2
  <2> QED BY <1>1, <2>1, <2>3 DEF PassInv
<1>6. PassInv(s)'
  BY <1>1, <1>2, <1>5 DEF PassInv
<1>7. \A o \in Sources : TableInv(o)'
  BY <1>1 DEF WasherInv, TableInv
<1> QED BY <1>2, <1>3, <1>6, <1>7 DEF WasherInv

\* The end of a pass keeps the tables.
LEMMA PassEnds ==
  ASSUME WasherTypeOK, WasherInv,
         WriteMark \/ WasherStops \/ \E m \in WMessages : ModelFails(m)
  PROVE  WasherTypeOK' /\ WasherInv'
<1>1. NoPass \in WPass /\ NoPass.pc = "idle"
  BY DEF NoPass, WPass, Sources
<1>2. ASSUME WriteMark PROVE WasherTypeOK' /\ WasherInv'
  <2>0. PICK s \in Sources : s = wPass.source
    BY DEF WasherTypeOK, WPass
  <2>1. /\ wPass' = NoPass /\ UNCHANGED <<wSaved, wRow, wUsed, wTaken, wDone>>
        /\ wMark' = IF wPass.max > wPass.base THEN [wMark EXCEPT ![s] = wPass.max] ELSE wMark
        /\ PassInv(s) /\ wPass.max \in Nat
    BY <1>2, <2>0 DEF WriteMark, WasherInv, WasherTypeOK, WPass
  <2>2. WasherTypeOK'
    BY <1>1, <2>1 DEF WasherTypeOK
  <2>3. ASSUME NEW o \in Sources PROVE TableInv(o)'
    <3>1. TableInv(o) /\ (wMark'[o] = wMark[o] \/ (o = s /\ wMark'[o] = wPass.max))
      BY <2>1 DEF WasherInv, WasherTypeOK
    <3> QED BY <2>1, <3>1 DEF TableInv, PassInv
  <2> QED BY <1>1, <2>1, <2>2, <2>3 DEF WasherInv
<1>3. ASSUME WasherStops PROVE WasherTypeOK' /\ WasherInv'
  BY <1>1, <1>3 DEF WasherStops, WasherTypeOK, WasherInv, TableInv
<1>4. ASSUME NEW m \in WMessages, ModelFails(m) PROVE WasherTypeOK' /\ WasherInv'
  <2>1. /\ wPass' = [wPass EXCEPT !.pc = "mark", !.max = wPass.max] /\ wPass.pc # "idle"
        /\ UNCHANGED <<wSaved, wRow, wUsed, wTaken, wMark, wDone>>
    BY <1>4 DEF ModelFails, MaxAfterFailure
  <2>2. /\ wPass'.todo = wPass.todo /\ wPass'.max = wPass.max /\ wPass'.rows = wPass.rows
        /\ wPass'.base = wPass.base /\ wPass'.source = wPass.source /\ wPass' \in WPass
    BY <2>1 DEF WasherTypeOK, WPass
  <2>3. WasherTypeOK'
    BY <2>1, <2>2 DEF WasherTypeOK
  <2>4. PassInv(wPass.source)'
    BY <2>1, <2>2 DEF WasherInv, PassInv
  <2> QED BY <2>1, <2>2, <2>3, <2>4 DEF WasherInv, TableInv
<1> QED BY <1>2, <1>3, <1>4

\* Every step keeps the types and the invariant.
LEMMA WasherPreserved ==
  WasherTypeOK /\ WasherInv /\ [WasherNext]_washerVars => WasherTypeOK' /\ WasherInv'
<1> SUFFICES ASSUME WasherTypeOK, WasherInv, [WasherNext]_washerVars
             PROVE  WasherTypeOK' /\ WasherInv'
  OBVIOUS
<1>1. ASSUME NEW m \in WMessages, SaveMessage(m) \/ Archive(m) PROVE WasherTypeOK' /\ WasherInv'
  BY <1>1, ChatStepsAreStorage, StorageKeeps
<1>2. ASSUME NEW ms \in SUBSET WMessages, ClearHistory(ms) PROVE WasherTypeOK' /\ WasherInv'
  BY <1>2, ChatStepsAreStorage, StorageKeeps
<1>3. ASSUME NEW m \in WMessages, Extract(m) PROVE WasherTypeOK' /\ WasherInv'
  BY <1>3, ExtractKeeps
<1>4. ASSUME NEW s \in Sources, BeginPass(s) PROVE WasherTypeOK' /\ WasherInv'
  BY <1>4, PassBegins
<1>5. ASSUME WriteMark \/ WasherStops \/ \E m \in WMessages : ModelFails(m)
      PROVE  WasherTypeOK' /\ WasherInv'
  BY <1>5, PassEnds
<1>6. UNCHANGED washerVars => WasherTypeOK' /\ WasherInv'
  BY DEF washerVars, WasherTypeOK, WasherInv, TableInv, PassInv
<1> QED BY <1>1, <1>2, <1>3, <1>4, <1>5, <1>6 DEF WasherNext

\* Nothing was said, stored or extracted at first.
LEMMA WasherInitially == WasherInit => WasherTypeOK /\ WasherInv
<1>1. WasherInit => WasherTypeOK
  BY DEF WasherInit, WasherTypeOK, NoPass, WPass, Sources
<1>2. WasherInit => WasherInv
  BY DEF WasherInit, WasherInv, TableInv, NoPass, Sources
<1> QED BY <1>1, <1>2

\* The tables, the watermarks and the pass are typed.
THEOREM WasherTypes == WasherSpec => []WasherTypeOK
BY WasherInitially, WasherPreserved, PTL DEF WasherSpec

\* A message at or below the watermark of its table was extracted or got a rowid
\* that another row had before, for every number of messages and every limit:
\* run_extraction against save_message, archive_old_conversations and
\* clear_history.
THEOREM WatermarkSkipsNothing == WasherSpec => []NothingSkipped
<1>1. WasherTypeOK /\ WasherInv => NothingSkipped
  BY DEF WasherInv, TableInv, NothingSkipped, Stored
<1> QED BY <1>1, WasherInitially, WasherPreserved, PTL DEF WasherSpec
----------------------------------------------------------------------------
\* The suite of the run `host` is what its parts are: it moves one of them at a
\* time and none of their steps depends on another part.
THEOREM HostParts ==
  HostSpec => ClaimSpec /\ NativeSpec /\ ZContextSpec /\ ZTurnSpec /\ RegistrySpec /\ WasherSpec
<1>1. HostInit =>
        ClaimInit /\ NativeInit /\ ZContextInit /\ ZTurnInit /\ RegistryInit /\ WasherInit
  BY DEF HostInit
<1>2. [HostNext]_hostVars =>
        /\ [ClaimNext]_claimVars /\ [NativeNext]_nativeVars
        /\ [ZContextNext]_zContextVars /\ [ZTurnNext]_zTurnVars
        /\ [RegistryNext]_registryVars /\ [WasherNext]_washerVars
  BY DEF HostNext, hostVars, ClaimStep, NativeStep, ZContextStep, ZTurnStep, RegistryStep,
     WasherStep
<1> QED
  BY <1>1, <1>2, PTL
     DEF HostSpec, ClaimSpec, NativeSpec, ZContextSpec, ZTurnSpec, RegistrySpec, WasherSpec

\* The state of the host's parts always has its type.
THEOREM HostTypes == HostSpec => []HostTypeOK
<1>1. /\ ClaimTypeOK /\ NativeTypeOK /\ ZContextTypeOK /\ ZTurnTypeOK
      /\ RegistryTypeOK /\ WasherTypeOK
      => HostTypeOK
  BY DEF HostTypeOK
<1> QED
  BY <1>1, HostParts, ClaimTypes, NativeTypes, ZContextTypes, ZTurnTypes, RegistryTypes,
     WasherTypes, PTL

=============================================================================
