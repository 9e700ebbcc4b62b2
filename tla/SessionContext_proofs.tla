----------------------- MODULE SessionContext_proofs -----------------------
(***************************************************************************)
(* Proofs about SessionContext: a retired session does not come back, and  *)
(* the cursor of a row is a message that its session was given.  Both      *)
(* follow from IInv, which says what an attempt in progress knows of the   *)
(* row that it will write.  The last part is about deltas: a delta leaves  *)
(* out only messages that its session was given.                           *)
(***************************************************************************)
EXTENDS SessionContext, FiniteSetTheorems, TLAPS

\* Who asks was recorded.
Recorded == \A m \in Msg : job[m] # "none" => order[m] # 0

\* An attempt has a job of its own, calls a session with a prompt that holds
\* the job's message, and saves only what that session was given.
Attempts ==
  /\ \A w \in Worker :
       /\ pc[w] # "idle" => att[w].job \in Msg
       /\ pc[w] \in {"calling", "saving", "advancing"} => att[w].target \in Ever
       /\ pc[w] = "calling" => att[w].job \in att[w].prompt
       /\ pc[w] \in {"saving", "advancing"}
            => att[w].writable /\ att[w].job \in seen[att[w].target]
  /\ \A v, w \in Worker :
       pc[v] \in {"ready", "calling"} /\ pc[w] \in {"ready", "calling"}
         /\ att[v].job = att[w].job => v = w

\* The row is never older than what an attempt read; if it is what the
\* attempt read, then it has not been retired since.
Snapshots ==
  \A w \in Worker : pc[w] # "idle" /\ att[w].writable =>
    /\ att[w].snap.ver <= row.ver
    /\ att[w].snap = row => att[w].basis = retired

\* An active row names a session, which was given the cursor's message.
Cursors == (Active(row) => row.sess \in Ever) /\ CursorWasSeen

IInv == TypeOK /\ Recorded /\ Attempts /\ Snapshots /\ Cursors /\ RetirementHolds

-----------------------------------------------------------------------------
\* The store's operations make rows.
LEMMA UpsertedIsRow ==
  ASSUME NEW r \in Row, NEW s \in Nat, NEW d \in Dir \cup {NoDir}, NEW g \in Gen \cup {NoGen}
  PROVE  Upserted(r, s, d, g) \in Row
BY DEF Upserted, KeepsCursor, Active, Row, None

LEMMA RetiredIsRow ==
  ASSUME NEW r \in Row PROVE Retired(r) \in Row /\ ~Active(Retired(r))
<1>1. PICK v \in Nat : v = r.ver + 1
  BY DEF Row
<1>2. Retired(r) = [r EXCEPT !.status = "stale", !.cursor = None, !.ver = v]
  BY <1>1 DEF Retired
<1>3. Retired(r).status = "stale" /\ None \in Nat
  BY <1>2 DEF Row, None
<1> QED
  BY <1>2, <1>3 DEF Active, Row

LEMMA AdvancedIsRow ==
  ASSUME NEW r \in Row, NEW c \in Nat PROVE Advanced(r, c) \in Row
<1>1. PICK v \in Nat : v = r.ver + 1
  BY DEF Row
<1>2. Advanced(r, c) = [r EXCEPT !.cursor = c, !.ver = v]
  BY <1>1 DEF Advanced
<1> QED
  BY <1>2 DEF Row

\* Writing makes a row that differs from every row that was there before.
LEMMA RowsGrow ==
  ASSUME NEW r \in Row
  PROVE  /\ \A s, d, g : Upserted(r, s, d, g).ver = r.ver + 1
         /\ Retired(r).ver = r.ver + 1
         /\ \A c : Advanced(r, c).ver = r.ver + 1
BY DEF Upserted, Retired, Advanced, Row

\* What becomes of pc and att has its types.
Idles == \A w \in Worker : pc[w] = "idle" <=> att[w] = NoAttempt
Progress == att \in [Worker -> Attempt] /\ pc \in [Worker -> {"idle"} \cup Busy] /\ Idles

LEMMA NoAttemptIsAttempt == NoAttempt \in Attempt /\ NoAttempt.job = None
BY ModelAssumption, NullAssumption DEF NoAttempt, Attempt, Row, NoRow, None

\* The changes that actions make to an attempt.
LEMMA CallType ==
  ASSUME NEW a \in Attempt, NEW t \in Ever \cup {None}, NEW p \in SUBSET Msg
  PROVE  /\ [a EXCEPT !.target = t, !.prompt = p] \in Attempt
         /\ [a EXCEPT !.target = t, !.prompt = p].job = a.job
BY DEF Attempt

LEMMA RecoverType ==
  ASSUME NEW a \in Attempt, NEW t \in Ever \cup {None}, NEW p \in SUBSET Msg
  PROVE  /\ [a EXCEPT !.target = t, !.prompt = p, !.existing = None] \in Attempt
         /\ [a EXCEPT !.target = t, !.prompt = p, !.existing = None].job = a.job
BY DEF Attempt

LEMMA RetiredType ==
  ASSUME NEW a \in Attempt, NEW s \in Row, NEW b \in Nat
  PROVE  /\ [a EXCEPT !.existing = None, !.snap = s, !.basis = b, !.target = None,
                      !.prompt = {}] \in Attempt
         /\ [a EXCEPT !.existing = None, !.snap = s, !.basis = b, !.target = None,
                      !.prompt = {}].job = a.job
BY DEF Attempt

LEMMA RefusedType ==
  ASSUME NEW a \in Attempt
  PROVE  /\ [a EXCEPT !.existing = None, !.writable = FALSE] \in Attempt
         /\ [a EXCEPT !.existing = None, !.writable = FALSE].job = a.job
BY DEF Attempt

LEMMA SavedType ==
  ASSUME NEW a \in Attempt, NEW s \in Row
  PROVE  [a EXCEPT !.snap = s] \in Attempt /\ [a EXCEPT !.snap = s].job = a.job
BY DEF Attempt

\* A worker that stops, and a worker that goes on.
LEMMA Stops ==
  ASSUME TypeOK, NEW w \in Worker, Stop(w) PROVE Progress'
BY NoAttemptIsAttempt DEF Stop, TypeOK, Progress, Idles

LEMMA GoesOn ==
  ASSUME TypeOK, NEW w \in Worker, NEW a \in Attempt, a.job \in Msg, NEW p \in Busy,
         att' = [att EXCEPT ![w] = a], pc' = [pc EXCEPT ![w] = p]
  PROVE  Progress'
<1>1. a # NoAttempt /\ p # "idle"
  BY NoAttemptIsAttempt, ModelAssumption DEF None, Busy
<1> QED
  BY <1>1 DEF TypeOK, Progress, Idles

\* The types that are left are those of the data.
Data ==
  /\ order \in [Msg -> Nat] /\ horizon \in Nat
  /\ config \in [gen : Gen, dir : Dir]
  /\ job \in [Msg -> {"none", "asked", "queued", "taken", "lost", "done"}]
  /\ env \in [Msg -> Envelope]
  /\ rec \in [Msg -> Ever \cup {None}] /\ upsets \in 0..MaxUpset
  /\ row \in Row /\ retired \in Nat /\ basis \in Nat
  /\ mem \in [Worker -> [sess : Ever \cup {None}, gen : Gen \cup {NoGen}]]
  /\ started \in 0..MaxSession /\ seen \in [Ever -> SUBSET Msg] /\ crossed \subseteq Ever
Taken == \A w \in Worker : pc[w] \in {"ready", "calling"} => job[att[w].job] = "taken"

LEMMA Types == (Data /\ Progress /\ Taken)' => TypeOK'
BY DEF TypeOK, Data, Progress, Idles, Taken

LEMMA UpsetType ==
  ASSUME TypeOK, NEW n \in Nat, Upset(n) PROVE upsets' \in 0..MaxUpset
BY ModelAssumption DEF TypeOK, Upset

LEMMA CountType == \A p : Count(p) \in Nat
BY DEF Count

\* The prompt of an attempt is made of messages.
LEMMA PromptType ==
  ASSUME TypeOK, NEW m \in Msg, NEW w \in Worker, NEW r
  PROVE  Full(m) \in SUBSET Msg /\ Prompt(w, m, r) \in SUBSET Msg
BY DEF TypeOK, Envelope, Full, Prompt

\* What a retirement leaves in an attempt.
LEMMA AfterRetirementType ==
  ASSUME TypeOK, Attempts, NEW w \in Worker, pc[w] # "idle", NEW ok \in BOOLEAN
  PROVE  AfterRetirement(w, ok) \in Attempt /\ AfterRetirement(w, ok).job = att[w].job
<1>1. att[w] \in Attempt /\ Retired(row) \in Row /\ retired + 1 \in Nat
  BY RetiredIsRow DEF TypeOK
<1>2. CASE ok
  BY <1>1, <1>2, RetiredType, Zenon DEF AfterRetirement
<1>3. CASE ~ok
  BY <1>1, <1>3, RefusedType, Zenon DEF AfterRetirement
<1> QED
  BY <1>2, <1>3

\* A step that leaves the row alone, and one that writes it, as far as
\* Snapshots goes: a is the attempt that is left at the worker.
LEMMA RowKept ==
  ASSUME TypeOK, Snapshots, NEW w \in Worker, NEW a, NEW p, UNCHANGED store,
         att' = [att EXCEPT ![w] = a], pc' = [pc EXCEPT ![w] = p],
         p # "idle" /\ a.writable
           => /\ pc[w] # "idle" /\ att[w].writable
              /\ a.snap = att[w].snap /\ a.basis = att[w].basis
  PROVE  Snapshots'
BY DEF TypeOK, Snapshots, store

LEMMA RowWritten ==
  ASSUME TypeOK, Snapshots, NEW w \in Worker, NEW a, NEW p, row'.ver = row.ver + 1,
         att' = [att EXCEPT ![w] = a], pc' = [pc EXCEPT ![w] = p],
         p # "idle" => a.snap = row' /\ a.basis = retired'
  PROVE  Snapshots'
<1> SUFFICES ASSUME NEW v \in Worker, pc'[v] # "idle", att'[v].writable
             PROVE  /\ att'[v].snap.ver <= row'.ver
                    /\ att'[v].snap = row' => att'[v].basis = retired'
  BY DEF Snapshots
<1>1. row.ver \in Nat
  BY DEF TypeOK, Row
<1>2. CASE v = w
  BY <1>1, <1>2 DEF TypeOK
<1>3. CASE v # w
  <2>1. att'[v] = att[v] /\ pc'[v] = pc[v]
    BY <1>3 DEF TypeOK
  <2>2. att[v].snap.ver <= row.ver /\ att[v].snap.ver \in Nat
    BY <2>1 DEF Snapshots, TypeOK, Attempt, Row
  <2>3. att[v].snap.ver < row'.ver
    BY <1>1, <2>2
  <2> QED
    BY <1>1, <2>1, <2>2, <2>3
<1> QED
  BY <1>2, <1>3

LEMMA RetiringKeepsSnapshots ==
  ASSUME TypeOK, Attempts, Snapshots, NEW w \in Worker, NEW ok \in BOOLEAN,
         pc[w] # "idle", RetireSession(w, ok),
         att' = [att EXCEPT ![w] = AfterRetirement(w, ok)],
         pc' = [pc EXCEPT ![w] = "ready"]
  PROVE  Snapshots'
<1> DEFINE a == AfterRetirement(w, ok)
<1>1. CASE ok
  <2>1. row'.ver = row.ver + 1 /\ row' = Retired(row) /\ retired' = retired + 1
    BY <1>1, RowsGrow DEF RetireSession, TypeOK
  <2>2. a.snap = Retired(row) /\ a.basis = retired + 1
    BY <1>1 DEF AfterRetirement, TypeOK, Attempt
  <2> HIDE DEF a
  <2> QED
    BY <2>1, <2>2, RowWritten DEF a
<1>2. CASE ~ok
  <2>1. ~a.writable
    BY <1>2 DEF AfterRetirement, TypeOK, Attempt
  <2>2. UNCHANGED store
    BY <1>2 DEF RetireSession
  <2> QED
    BY <2>1, <2>2, RowKept
<1> QED
  BY <1>1, <1>2

-----------------------------------------------------------------------------
\* The invariant holds initially.
LEMMA InitInvariant == Init => IInv
BY ModelAssumption, NullAssumption
   DEF Init, IInv, TypeOK, Recorded, Attempts, Snapshots, Cursors, CursorWasSeen, RetirementHolds,
       Active, Row, NoRow, NoAttempt, Attempt, Envelope, Busy, NoMem, NoEnv, Ever, None

\* Every step keeps the types.
LEMMA TypeStep == IInv /\ [Next]_vars => TypeOK'
<1> SUFFICES ASSUME IInv, [Next]_vars PROVE TypeOK'
  OBVIOUS
<1> USE ModelAssumption, NullAssumption DEF IInv, Ever, None
<1>1. ASSUME NEW m \in Msg, NEW asks \in BOOLEAN, Record(m, asks) PROVE TypeOK'
  <2>1. order' \in [Msg -> Nat]
    BY <1>1, FS_CardinalityType, FS_Subset DEF Record, Stored, TypeOK
  <2>2. Taken'
    BY <1>1 DEF Record, Recorded, TypeOK, Taken, Attempts, worker
  <2> QED
    BY <1>1, <2>1, <2>2 DEF Record, TypeOK, Taken, worker, session, store
<1>2. ASSUME NEW m \in Msg, Ask(m) PROVE TypeOK'
  <2>1. env' \in [Msg -> Envelope]
    BY <1>2, FS_CardinalityType, FS_Subset DEF Ask, Recent, Stored, Built, Envelope, TypeOK
  <2>2. Taken'
    BY <1>2 DEF Ask, TypeOK, Taken, Attempts, worker
  <2>3. horizon' \in Nat /\ config' \in [gen : Gen, dir : Dir] /\ upsets' \in 0..MaxUpset
    <3>1. PICK limit \in {horizon} \cup horizon..m : horizon' = limit
      BY <1>2 DEF Ask
    <3>2. \E n \in Nat : Upset(n)
      <4>1. \A i, j, k \in Nat : i + j + k \in Nat
        OBVIOUS
      <4> QED
        BY <1>2, <4>1, CountType DEF Ask
    <3>3. horizon \in Nat /\ m \in Nat
      BY ModelAssumption DEF TypeOK
    <3>4. horizon' \in Nat
      BY <3>1, <3>3
    <3>5. upsets' \in 0..MaxUpset
      BY <3>2, UpsetType
    <3> QED
      BY <1>2, <3>4, <3>5 DEF Ask
  <2> QED
    BY <1>2, <2>1, <2>2, <2>3 DEF Ask, TypeOK, Taken, worker, session, store
<1>3. ASSUME NEW w \in Worker, NEW m \in Msg, NEW readable \in BOOLEAN, NEW renders
      \in BOOLEAN, Take(w, m, readable, renders) PROVE TypeOK'
  <2> DEFINE a == [job |-> m, snap |-> IF readable THEN row ELSE NoRow,
                   writable |-> readable, context |-> readable /\ renders,
                   existing |-> IF readable /\ Active(row) THEN row.sess ELSE None,
                   target |-> None, prompt |-> {}, basis |-> retired]
  <2>1. a \in Attempt
    BY NullAssumption DEF TypeOK, Cursors, Attempt, NoRow, Row
  <2>2. Progress'
    BY <1>3, <2>1, GoesOn DEF Take, Busy
  <2>3. Taken'
    BY <1>3 DEF Take, TypeOK, Taken, Busy
  <2>4. upsets' \in 0..MaxUpset
    BY <1>3, UpsetType, CountType DEF Take
  <2> QED
    BY <1>3, <2>2, <2>3, <2>4, Types DEF Take, Data, TypeOK, bridge, session, store
<1>4. ASSUME NEW w \in Worker, Recover(w) PROVE TypeOK'
  <2> DEFINE a == [att[w] EXCEPT !.target = rec[att[w].job],
                                !.prompt = Full(att[w].job), !.existing = None]
  <2>1. a \in Attempt /\ a.job \in Msg
    <3>1. /\ att[w].job \in Msg /\ att[w] \in Attempt
          /\ rec[att[w].job] \in Ever \cup {None}
      BY <1>4 DEF Recover, TypeOK, Attempts
    <3>2. Full(att[w].job) \in SUBSET Msg /\ None \in Ever \cup {None}
      BY <3>1, PromptType
    <3> QED
      BY <3>1, <3>2, RecoverType, Zenon
  <2>2. Progress'
    BY <1>4, <2>1, GoesOn DEF Recover, Call, Busy
  <2>3. Taken'
    BY <1>4 DEF Recover, Call, TypeOK, Taken, jobs
  <2> QED
    BY <1>4, <2>2, <2>3, Types DEF Recover, Data, TypeOK, bridge, jobs, session, store
<1>5. ASSUME NEW w \in Worker, Resume(w) PROVE TypeOK'
  <2> DEFINE a == [att[w] EXCEPT !.target = att[w].existing,
                                !.prompt = Prompt(w, att[w].job, att[w].snap)]
  <2>1. a \in Attempt /\ a.job \in Msg
    <3>1. /\ att[w].job \in Msg /\ att[w] \in Attempt
          /\ att[w].existing \in Ever \cup {None}
      BY <1>5 DEF Resume, TypeOK, Attempts, Attempt
    <3>2. Prompt(w, att[w].job, att[w].snap) \in SUBSET Msg
      BY <3>1, PromptType
    <3> QED
      BY <3>1, <3>2, CallType, Zenon
  <2>2. Progress'
    BY <1>5, <2>1, GoesOn DEF Resume, Call, Busy
  <2>3. Taken'
    BY <1>5 DEF Resume, Call, TypeOK, Taken, jobs
  <2>4. crossed' \subseteq Ever
    BY <1>5 DEF Resume, TypeOK, Attempt
  <2> QED
    BY <1>5, <2>2, <2>3, <2>4, Types DEF Resume, Data, TypeOK, bridge, jobs, store
<1>6. ASSUME NEW w \in Worker, Fresh(w) PROVE TypeOK'
  <2> DEFINE a == [att[w] EXCEPT !.target = started', !.prompt = Full(att[w].job)]
  <2>1. a \in Attempt /\ a.job \in Msg
    <3>1. /\ att[w].job \in Msg /\ att[w] \in Attempt
          /\ started' \in Ever \cup {None}
      BY <1>6, ModelAssumption DEF Fresh, TypeOK, Attempts
    <3>2. Full(att[w].job) \in SUBSET Msg
      BY <3>1, PromptType
    <3> QED
      BY <3>1, <3>2, CallType, Zenon
  <2>2. Progress'
    BY <1>6, <2>1, GoesOn DEF Fresh, Call, Busy
  <2>3. Taken'
    BY <1>6 DEF Fresh, Call, TypeOK, Taken, jobs
  <2>4. started' \in 0..MaxSession
    BY <1>6, ModelAssumption DEF Fresh, TypeOK
  <2>5. UNCHANGED <<bridge, jobs, mem, seen, crossed, store, upsets>>
    BY <1>6 DEF Fresh
  <2>6. Data'
    BY <2>4, <2>5 DEF Data, TypeOK, bridge, jobs, store
  <2> QED
    BY <2>2, <2>3, <2>6, Types
<1>7. ASSUME NEW w \in Worker, NEW confirmed \in BOOLEAN, Succeed(w, confirmed) PROVE
      TypeOK'
  <2>1. Progress'
    <3>1. CASE confirmed /\ att[w].writable
      <4>1. att' = [att EXCEPT ![w] = att[w]] /\ pc' = [pc EXCEPT ![w] = "saving"]
        BY <1>7, <3>1 DEF Succeed, TypeOK
      <4> QED
        BY <1>7, <4>1, GoesOn DEF Succeed, TypeOK, Attempts, Busy
    <3>2. CASE ~(confirmed /\ att[w].writable)
      BY <1>7, <3>2, Stops DEF Succeed
    <3> QED
      BY <3>1, <3>2
  <2>2. Taken'
    BY <1>7 DEF Succeed, Stop, TypeOK, Taken, Attempts
  <2>3. seen' \in [Ever -> SUBSET Msg]
    BY <1>7 DEF Succeed, TypeOK, Attempts, Attempt
  <2>4. upsets' \in 0..MaxUpset
    BY <1>7, UpsetType, CountType DEF Succeed
  <2> QED
    BY <1>7, <2>1, <2>2, <2>3, <2>4, Types DEF Succeed, Data, TypeOK, bridge, store
<1>8. ASSUME NEW w \in Worker, Fail(w) PROVE TypeOK'
  <2>1. Progress'
    BY <1>8, Stops DEF Fail
  <2>2. Taken'
    BY <1>8 DEF Fail, Stop, TypeOK, Taken, Attempts
  <2>3. upsets' \in 0..MaxUpset
    BY <1>8, UpsetType DEF Fail
  <2> QED
    BY <1>8, <2>1, <2>2, <2>3, Types DEF Fail, Data, TypeOK, bridge, session, store
<1>9. ASSUME NEW w \in Worker, NEW ok \in BOOLEAN, RetireMoved(w, ok) PROVE TypeOK'
  <2>1. /\ row' \in Row /\ retired' \in Nat /\ basis' \in Nat
        /\ mem' \in [Worker -> [sess : Ever \cup {None}, gen : Gen \cup {NoGen}]]
    BY <1>9, RetiredIsRow DEF RetireMoved, RetireSession, NoMem, TypeOK, store
  <2>2. AfterRetirement(w, ok) \in Attempt /\ AfterRetirement(w, ok).job \in Msg
    BY <1>9, AfterRetirementType DEF RetireMoved, Attempts
  <2>3. Progress'
    <3>1. pc' = [pc EXCEPT ![w] = "ready"]
      BY <1>9 DEF RetireMoved, TypeOK
    <3> QED
      BY <1>9, <2>2, <3>1, GoesOn DEF RetireMoved, Busy
  <2>4. Taken'
    BY <1>9 DEF RetireMoved, AfterRetirement, TypeOK, Taken, Attempt, jobs
  <2>5. upsets' \in 0..MaxUpset
    BY <1>9, UpsetType, CountType DEF RetireMoved, StoreFails
  <2> QED
    BY <1>9, <2>1, <2>3, <2>4, <2>5, Types DEF RetireMoved, Data, TypeOK, bridge, jobs, session
<1>10. ASSUME NEW w \in Worker, NEW ok \in BOOLEAN, ResumeFails(w, ok) PROVE TypeOK'
  <2>1. /\ row' \in Row /\ retired' \in Nat /\ basis' \in Nat
        /\ mem' \in [Worker -> [sess : Ever \cup {None}, gen : Gen \cup {NoGen}]]
    BY <1>10, RetiredIsRow DEF ResumeFails, RetireSession, NoMem, TypeOK, store
  <2>2. AfterRetirement(w, ok) \in Attempt /\ AfterRetirement(w, ok).job \in Msg
    BY <1>10, AfterRetirementType DEF ResumeFails, Attempts
  <2>3. Progress'
    BY <1>10, <2>2, GoesOn, Stops DEF ResumeFails, Busy
  <2>4. Taken' /\ job' \in [Msg -> {"none", "asked", "queued", "taken", "lost", "done"}]
    <3>1. AfterRetirement(w, ok).job = att[w].job
      BY <1>10, AfterRetirementType DEF ResumeFails, Attempts
    <3>2. CASE att' = [att EXCEPT ![w] = AfterRetirement(w, ok)]
               /\ pc' = [pc EXCEPT ![w] = "ready"] /\ UNCHANGED job
      BY <1>10, <3>1, <3>2 DEF ResumeFails, TypeOK, Taken, Attempts
    <3>3. CASE Stop(w) /\ job' = [job EXCEPT ![att[w].job] = "done"]
      BY <1>10, <3>3 DEF ResumeFails, Stop, TypeOK, Taken, Attempts
    <3> QED
      BY <1>10, <3>2, <3>3 DEF ResumeFails
  <2>5. upsets' \in 0..MaxUpset
    <3>1. 1 + StoreFails(w, ok) \in Nat
      BY CountType DEF StoreFails
    <3> QED
      BY <1>10, <3>1, UpsetType DEF ResumeFails
  <2> QED
    BY <1>10, <2>1, <2>3, <2>4, <2>5, Types DEF ResumeFails, Data, TypeOK, bridge, session
<1>11. ASSUME NEW w \in Worker, Save(w) PROVE TypeOK'
  <2> DEFINE e == env[att[w].job]
             r == Upserted(row, att[w].target, e.dir,
                           IF att[w].context THEN e.gen ELSE NoGen)
  <2>1. r \in Row
    <3>1. row \in Row /\ att[w].target \in Nat
      BY <1>11, ModelAssumption DEF Save, TypeOK, Attempts
    <3>2. e \in Envelope
      BY <1>11 DEF Save, TypeOK, Attempts
    <3> HIDE DEF e
    <3>3. e.dir \in Dir \cup {NoDir} /\ e.gen \in Gen \cup {NoGen}
      BY <3>2 DEF Envelope
    <3> QED
      BY <3>1, <3>3, UpsertedIsRow
  <2>2. Progress'
    <3>1. [att[w] EXCEPT !.snap = r] \in Attempt /\ att[w].job \in Msg
      BY <1>11, <2>1, SavedType DEF Save, TypeOK, Attempts
    <3>2. CASE att[w].context
      <4>1. att' = [att EXCEPT ![w] = [att[w] EXCEPT !.snap = r]]
        BY <1>11, <3>2 DEF Save
      <4>2. [att[w] EXCEPT !.snap = r].job = att[w].job
        BY DEF TypeOK, Attempt
      <4> QED
        BY <1>11, <3>1, <3>2, <4>1, <4>2, GoesOn DEF Save, Busy
    <3>3. CASE ~att[w].context
      BY <1>11, <3>3, Stops DEF Save
    <3> QED
      BY <3>2, <3>3
  <2>3. Taken'
    BY <1>11 DEF Save, Stop, TypeOK, Taken, Attempts, jobs
  <2>4. row' = r /\ basis' \in Nat
    BY <1>11 DEF Save, TypeOK, Attempt
  <2> HIDE DEF r
  <2> QED
    BY <1>11, <2>1, <2>2, <2>3, <2>4, Types DEF Save, Data, TypeOK, bridge, jobs, session
<1>12. ASSUME NEW w \in Worker, Advance(w) PROVE TypeOK'
  <2>1. row' \in Row
    BY <1>12, AdvancedIsRow DEF Advance, TypeOK, Attempts
  <2>2. Progress'
    BY <1>12, Stops DEF Advance
  <2>3. Taken'
    BY <1>12 DEF Advance, Stop, TypeOK, Taken, Attempts, jobs
  <2>4. mem' \in [Worker -> [sess : Ever \cup {None}, gen : Gen \cup {NoGen}]]
    BY <1>12 DEF Advance, TypeOK, Attempts, Envelope
  <2> QED
    BY <1>12, <2>1, <2>2, <2>3, <2>4, Types DEF Advance, Data, TypeOK, bridge, jobs, session
<1>13. ASSUME NEW w \in Worker, SaveFails(w) PROVE TypeOK'
  <2>1. Progress'
    BY <1>13, Stops DEF SaveFails
  <2>2. Taken'
    BY <1>13 DEF SaveFails, Stop, TypeOK, Taken, Attempts, jobs
  <2>3. upsets' \in 0..MaxUpset
    BY <1>13, UpsetType, CountType DEF SaveFails
  <2>4. mem' \in [Worker -> [sess : Ever \cup {None}, gen : Gen \cup {NoGen}]]
    <3>1. NoMem \in [sess : Ever \cup {None}, gen : Gen \cup {NoGen}]
      BY DEF NoMem
    <3>2. mem' = mem \/ mem' = [mem EXCEPT ![w] = NoMem]
      BY <1>13 DEF SaveFails
    <3>3. mem \in [Worker -> [sess : Ever \cup {None}, gen : Gen \cup {NoGen}]]
      BY DEF TypeOK
    <3> QED
      BY <3>1, <3>2, <3>3
  <2> QED
    BY <1>13, <2>1, <2>2, <2>3, <2>4, Types DEF SaveFails, Data, TypeOK, bridge, jobs, session,
           store
<1>14. ASSUME NEW w \in Worker, NEW crash \in BOOLEAN, NEW evidence \in BOOLEAN,
      Lose(w, crash, evidence) PROVE TypeOK'
  <2>1. Progress'
    BY <1>14, Stops DEF Lose
  <2>2. Taken'
    BY <1>14 DEF Lose, Stop, TypeOK, Taken, Attempts
  <2>3. upsets' \in 0..MaxUpset
    BY <1>14, UpsetType DEF Lose
  <2>4. /\ mem' \in [Worker -> [sess : Ever \cup {None}, gen : Gen \cup {NoGen}]]
        /\ rec' \in [Msg -> Ever \cup {None}]
    BY <1>14 DEF Lose, TypeOK, NoMem, Attempt
  <2> QED
    BY <1>14, <2>1, <2>2, <2>3, <2>4, Types DEF Lose, Data, TypeOK, bridge, session, store
<1>15. CASE UNCHANGED vars
  BY <1>15 DEF vars, TypeOK, bridge, jobs, worker, session, store
<1> QED
  BY <1>1, <1>2, <1>3, <1>4, <1>5, <1>6, <1>7, <1>8, <1>9, <1>10, <1>11, <1>12, <1>13,
     <1>14, <1>15 DEF Next

\* Every step keeps Recorded.
LEMMA RecordedStep == IInv /\ [Next]_vars => Recorded'
<1> SUFFICES ASSUME IInv, [Next]_vars PROVE Recorded'
  OBVIOUS
<1> USE ModelAssumption, NullAssumption DEF IInv, Ever, None
<1>1. ASSUME NEW m \in Msg, NEW asks \in BOOLEAN, Record(m, asks) PROVE Recorded'
  <2>1. Cardinality(Stored) + 1 # 0
    BY FS_CardinalityType, FS_Subset DEF Stored
  <2> QED
    BY <1>1, <2>1 DEF Record, Recorded, TypeOK
<1>2. ASSUME NEW m \in Msg, Ask(m) PROVE Recorded'
  BY <1>2 DEF Ask, Upset, Count, Recorded, TypeOK, Attempts, bridge, jobs, worker,
     session, store
<1>3. ASSUME NEW w \in Worker, NEW m \in Msg, NEW readable \in BOOLEAN, NEW renders
      \in BOOLEAN, Take(w, m, readable, renders) PROVE Recorded'
  BY <1>3 DEF Take, Active, NoRow, Upset, Count, Recorded, TypeOK, Attempts, bridge,
     jobs, worker, session, store
<1>4. ASSUME NEW w \in Worker, Recover(w) PROVE Recorded'
  BY <1>4 DEF Recover, Call, Full, Recorded, TypeOK, Attempts, bridge, jobs, worker,
     session, store
<1>5. ASSUME NEW w \in Worker, Resume(w) PROVE Recorded'
  BY <1>5 DEF Resume, Call, Prompt, Full, Recorded, TypeOK, Attempts, bridge, jobs,
     worker, session, store
<1>6. ASSUME NEW w \in Worker, Fresh(w) PROVE Recorded'
  BY <1>6 DEF Fresh, Call, Full, Recorded, TypeOK, Attempts, bridge, jobs, worker,
     session, store
<1>7. ASSUME NEW w \in Worker, NEW confirmed \in BOOLEAN, Succeed(w, confirmed) PROVE
      Recorded'
  BY <1>7 DEF Succeed, Stop, Upset, Count, Recorded, TypeOK, Attempts, bridge, jobs,
     worker, session, store
<1>8. ASSUME NEW w \in Worker, Fail(w) PROVE Recorded'
  BY <1>8 DEF Fail, Stop, Upset, Recorded, TypeOK, Attempts, bridge, jobs, worker,
     session, store
<1>9. ASSUME NEW w \in Worker, NEW ok \in BOOLEAN, RetireMoved(w, ok) PROVE Recorded'
  BY <1>9 DEF RetireMoved, RetireSession, AfterRetirement, StoreFails, MayRetire,
     Retired, Upset, Count, Recorded, TypeOK, Attempts, bridge, jobs, worker, session,
     store
<1>10. ASSUME NEW w \in Worker, NEW ok \in BOOLEAN, ResumeFails(w, ok) PROVE Recorded'
  BY <1>10 DEF ResumeFails, RetireSession, AfterRetirement, StoreFails, MayRetire,
     Retired, Stop, Upset, Count, Recorded, TypeOK, Attempts, bridge, jobs, worker,
     session, store
<1>11. ASSUME NEW w \in Worker, Save(w) PROVE Recorded'
  BY <1>11 DEF Save, MaySave, Upserted, KeepsCursor, Active, Stop, Recorded, TypeOK,
     Attempts, bridge, jobs, worker, session, store
<1>12. ASSUME NEW w \in Worker, Advance(w) PROVE Recorded'
  BY <1>12 DEF Advance, CursorMoves, MayAdvance, Advanced, Active, Stop, Recorded,
     TypeOK, Attempts, bridge, jobs, worker, session, store
<1>13. ASSUME NEW w \in Worker, SaveFails(w) PROVE Recorded'
  BY <1>13 DEF SaveFails, Stop, Upset, Count, Recorded, TypeOK, Attempts, bridge,
     jobs, worker, session, store
<1>14. ASSUME NEW w \in Worker, NEW crash \in BOOLEAN, NEW evidence \in BOOLEAN,
      Lose(w, crash, evidence) PROVE Recorded'
  BY <1>14 DEF Lose, Stop, Upset, Recorded, TypeOK, Attempts, bridge, jobs, worker,
     session, store
<1>15. CASE UNCHANGED vars
  BY <1>15 DEF vars, Recorded, TypeOK, Attempts, bridge, jobs, worker, session, store
<1> QED
  BY <1>1, <1>2, <1>3, <1>4, <1>5, <1>6, <1>7, <1>8, <1>9, <1>10, <1>11, <1>12, <1>13,
     <1>14, <1>15 DEF Next

\* Every step keeps Attempts.
LEMMA AttemptsStep == IInv /\ [Next]_vars => Attempts'
<1> SUFFICES ASSUME IInv, [Next]_vars PROVE Attempts'
  OBVIOUS
<1> USE ModelAssumption, NullAssumption DEF IInv, Ever, None
<1>1. ASSUME NEW m \in Msg, NEW asks \in BOOLEAN, Record(m, asks) PROVE Attempts'
  BY <1>1 DEF Record, Attempts, TypeOK, bridge, jobs, worker, session, store
<1>2. ASSUME NEW m \in Msg, Ask(m) PROVE Attempts'
  BY <1>2 DEF Ask, Upset, Count, Attempts, TypeOK, bridge, jobs, worker, session,
     store
<1>3. ASSUME NEW w \in Worker, NEW m \in Msg, NEW readable \in BOOLEAN, NEW renders
      \in BOOLEAN, Take(w, m, readable, renders) PROVE Attempts'
  BY <1>3 DEF Take, Active, NoRow, Upset, Count, Attempts, TypeOK, bridge, jobs,
     worker, session, store
<1>4. ASSUME NEW w \in Worker, Recover(w) PROVE Attempts'
  BY <1>4 DEF Recover, Call, Full, Attempts, TypeOK, bridge, jobs, worker, session,
     store
<1>5. ASSUME NEW w \in Worker, Resume(w) PROVE Attempts'
  <2>1. att[w].job \in Prompt(w, att[w].job, att[w].snap)
    BY DEF Prompt, Full
  <2>2. att[w].existing \in Ever
    BY <1>5 DEF Resume, TypeOK, Attempt
  <2> DEFINE p == Prompt(w, att[w].job, att[w].snap)
             a == [att[w] EXCEPT !.target = att[w].existing, !.prompt = p]
  <2>3. att' = [att EXCEPT ![w] = a] /\ pc' = [pc EXCEPT ![w] = "calling"]
    BY <1>5 DEF Resume, Call
  <2> HIDE DEF p
  <2>4. /\ a.job = att[w].job /\ a.target = att[w].existing /\ a.prompt = p
        /\ a.writable = att[w].writable
    BY DEF TypeOK, Attempt
  <2>5. pc[w] = "ready" /\ seen' = seen
    BY <1>5 DEF Resume, session
  <2> HIDE DEF a
  <2> QED
    BY <2>1, <2>2, <2>3, <2>4, <2>5 DEF p, Attempts, TypeOK
<1>6. ASSUME NEW w \in Worker, Fresh(w) PROVE Attempts'
  BY <1>6, SMTT(30) DEF Fresh, Call, Full, Attempts, TypeOK, bridge, jobs, worker, session,
       store
<1>7. ASSUME NEW w \in Worker, NEW confirmed \in BOOLEAN, Succeed(w, confirmed) PROVE
      Attempts'
  <2>1. /\ att[w].target \in Ever /\ pc[w] = "calling"
        /\ \A s \in Ever : seen[s] \subseteq seen'[s]
        /\ att[w].job \in seen'[att[w].target]
    BY <1>7 DEF Succeed, Attempts, TypeOK
  <2>2. CASE confirmed /\ att[w].writable
    <3>1. pc' = [pc EXCEPT ![w] = "saving"] /\ att' = att
      BY <1>7, <2>2 DEF Succeed
    <3> QED
      BY <2>1, <2>2, <3>1 DEF Attempts, TypeOK
  <2>3. CASE ~(confirmed /\ att[w].writable)
    <3>1. Stop(w)
      BY <1>7, <2>3 DEF Succeed
    <3> QED
      BY <2>1, <3>1 DEF Stop, Attempts, TypeOK
  <2> QED
    BY <2>2, <2>3
<1>8. ASSUME NEW w \in Worker, Fail(w) PROVE Attempts'
  BY <1>8 DEF Fail, Stop, Upset, Attempts, TypeOK, bridge, jobs, worker, session,
     store
<1>9. ASSUME NEW w \in Worker, NEW ok \in BOOLEAN, RetireMoved(w, ok) PROVE Attempts'
  BY <1>9 DEF RetireMoved, RetireSession, AfterRetirement, StoreFails, MayRetire,
     Retired, Upset, Count, Attempts, TypeOK, bridge, jobs, worker, session, store
<1>10. ASSUME NEW w \in Worker, NEW ok \in BOOLEAN, ResumeFails(w, ok) PROVE Attempts'
  <2>1. AfterRetirement(w, ok).job = att[w].job
    BY <1>10, AfterRetirementType DEF ResumeFails, Attempts
  <2>2. CASE att' = [att EXCEPT ![w] = AfterRetirement(w, ok)]
             /\ pc' = [pc EXCEPT ![w] = "ready"] /\ UNCHANGED job
    BY <1>10, <2>1, <2>2 DEF ResumeFails, Attempts, TypeOK, session
  <2>3. CASE Stop(w)
    BY <1>10, <2>3 DEF ResumeFails, Stop, Attempts, TypeOK, session
  <2> QED
    BY <1>10, <2>2, <2>3 DEF ResumeFails
<1>11. ASSUME NEW w \in Worker, Save(w) PROVE Attempts'
  <2>1. CASE att[w].context
    <3> DEFINE r == row'
    <3>1. att' = [att EXCEPT ![w].snap = r] /\ pc' = [pc EXCEPT ![w] = "advancing"]
      BY <1>11, <2>1 DEF Save
    <3>2. att[w] \in Attempt /\ pc[w] = "saving" /\ seen' = seen
      BY <1>11 DEF Save, TypeOK, session
    <3> HIDE DEF r
    <3>3. \A v \in Worker : /\ att'[v].job = att[v].job
                           /\ att'[v].target = att[v].target
                           /\ att'[v].prompt = att[v].prompt
                           /\ att'[v].writable = att[v].writable
      BY <3>1, <3>2 DEF TypeOK, Attempt
    <3> QED
      BY <3>1, <3>2, <3>3 DEF Attempts, TypeOK
  <2>2. CASE ~att[w].context
    <3>1. Stop(w) /\ seen' = seen
      BY <1>11, <2>2 DEF Save, session
    <3> QED
      BY <3>1 DEF Stop, Attempts, TypeOK
  <2> QED
    BY <2>1, <2>2
<1>12. ASSUME NEW w \in Worker, Advance(w) PROVE Attempts'
  BY <1>12 DEF Advance, CursorMoves, MayAdvance, Advanced, Active, Stop, Attempts,
     TypeOK, bridge, jobs, worker, session, store
<1>13. ASSUME NEW w \in Worker, SaveFails(w) PROVE Attempts'
  BY <1>13 DEF SaveFails, Stop, Upset, Count, Attempts, TypeOK, bridge, jobs, worker,
     session, store
<1>14. ASSUME NEW w \in Worker, NEW crash \in BOOLEAN, NEW evidence \in BOOLEAN,
      Lose(w, crash, evidence) PROVE Attempts'
  BY <1>14 DEF Lose, Stop, Upset, Attempts, TypeOK, bridge, jobs, worker, session,
     store
<1>15. CASE UNCHANGED vars
  BY <1>15 DEF vars, Attempts, TypeOK, bridge, jobs, worker, session, store
<1> QED
  BY <1>1, <1>2, <1>3, <1>4, <1>5, <1>6, <1>7, <1>8, <1>9, <1>10, <1>11, <1>12, <1>13,
     <1>14, <1>15 DEF Next

\* Every step keeps Snapshots.
LEMMA SnapshotsStep == IInv /\ [Next]_vars => Snapshots'
<1> SUFFICES ASSUME IInv, [Next]_vars PROVE Snapshots'
  OBVIOUS
<1> USE ModelAssumption, NullAssumption DEF IInv, Ever, None
<1>1. ASSUME NEW m \in Msg, NEW asks \in BOOLEAN, Record(m, asks) PROVE Snapshots'
  BY <1>1 DEF Record, Snapshots, TypeOK, Attempts, Attempt, Row, bridge, jobs, worker,
     session, store
<1>2. ASSUME NEW m \in Msg, Ask(m) PROVE Snapshots'
  BY <1>2 DEF Ask, Upset, Count, Snapshots, TypeOK, Attempts, Attempt, Row, bridge,
     jobs, worker, session, store
<1>3. ASSUME NEW w \in Worker, NEW m \in Msg, NEW readable \in BOOLEAN, NEW renders
      \in BOOLEAN, Take(w, m, readable, renders) PROVE Snapshots'
  <2> DEFINE a == [job |-> m, snap |-> IF readable THEN row ELSE NoRow,
                   writable |-> readable, context |-> readable /\ renders,
                   existing |-> IF readable /\ Active(row) THEN row.sess ELSE None,
                   target |-> None, prompt |-> {}, basis |-> retired]
  <2>1. att' = [att EXCEPT ![w] = a] /\ pc' = [pc EXCEPT ![w] = "ready"]
    BY <1>3 DEF Take
  <2>2. a.writable => a.snap = row /\ a.basis = retired
    OBVIOUS
  <2>3. UNCHANGED store /\ row.ver \in Nat
    BY <1>3 DEF Take, TypeOK, Row
  <2> HIDE DEF a
  <2> QED
    BY <2>1, <2>2, <2>3 DEF Snapshots, TypeOK, store
<1>4. ASSUME NEW w \in Worker, Recover(w) PROVE Snapshots'
  <2> DEFINE a == [att[w] EXCEPT !.target = rec[att[w].job],
                                !.prompt = Full(att[w].job), !.existing = None]
  <2>1. att' = [att EXCEPT ![w] = a] /\ pc' = [pc EXCEPT ![w] = "calling"]
    BY <1>4 DEF Recover, Call
  <2>2. /\ a.snap = att[w].snap /\ a.basis = att[w].basis
        /\ a.writable = att[w].writable
    BY DEF TypeOK, Attempt
  <2>3. pc[w] # "idle" /\ UNCHANGED store
    BY <1>4 DEF Recover
  <2> HIDE DEF a
  <2> QED
    BY <2>1, <2>2, <2>3, RowKept
<1>5. ASSUME NEW w \in Worker, Resume(w) PROVE Snapshots'
  <2> DEFINE a == [att[w] EXCEPT !.target = att[w].existing,
                                !.prompt = Prompt(w, att[w].job, att[w].snap)]
  <2>1. att' = [att EXCEPT ![w] = a] /\ pc' = [pc EXCEPT ![w] = "calling"]
    BY <1>5 DEF Resume, Call
  <2>2. /\ a.snap = att[w].snap /\ a.basis = att[w].basis
        /\ a.writable = att[w].writable
    BY DEF TypeOK, Attempt
  <2>3. pc[w] # "idle" /\ UNCHANGED store
    BY <1>5 DEF Resume
  <2> HIDE DEF a
  <2> QED
    BY <2>1, <2>2, <2>3, RowKept
<1>6. ASSUME NEW w \in Worker, Fresh(w) PROVE Snapshots'
  <2> DEFINE a == [att[w] EXCEPT !.target = started', !.prompt = Full(att[w].job)]
  <2>1. att' = [att EXCEPT ![w] = a] /\ pc' = [pc EXCEPT ![w] = "calling"]
    BY <1>6 DEF Fresh, Call
  <2>2. /\ a.snap = att[w].snap /\ a.basis = att[w].basis
        /\ a.writable = att[w].writable
    BY DEF TypeOK, Attempt
  <2>3. pc[w] # "idle" /\ UNCHANGED store
    BY <1>6 DEF Fresh
  <2> HIDE DEF a
  <2> QED
    BY <2>1, <2>2, <2>3, RowKept
<1>7. ASSUME NEW w \in Worker, NEW confirmed \in BOOLEAN, Succeed(w, confirmed) PROVE
      Snapshots'
  <2>1. UNCHANGED store /\ pc[w] = "calling"
    BY <1>7 DEF Succeed
  <2>2. CASE pc' = [pc EXCEPT ![w] = "saving"] /\ UNCHANGED att
    BY <2>1, <2>2 DEF Snapshots, TypeOK, store
  <2>3. CASE Stop(w)
    BY <2>1, <2>3, RowKept DEF Stop
  <2> QED
    BY <1>7, <2>2, <2>3 DEF Succeed
<1>8. ASSUME NEW w \in Worker, Fail(w) PROVE Snapshots'
  BY <1>8 DEF Fail, Stop, Upset, Snapshots, TypeOK, Attempts, Attempt, Row, bridge,
     jobs, worker, session, store
<1>9. ASSUME NEW w \in Worker, NEW ok \in BOOLEAN, RetireMoved(w, ok) PROVE Snapshots'
  <2> DEFINE a == AfterRetirement(w, ok)
  <2>1. att' = [att EXCEPT ![w] = a] /\ pc' = [pc EXCEPT ![w] = "ready"]
    BY <1>9 DEF RetireMoved, TypeOK
  <2> QED
    BY <1>9, <2>1, RetiringKeepsSnapshots DEF RetireMoved
<1>10. ASSUME NEW w \in Worker, NEW ok \in BOOLEAN, ResumeFails(w, ok) PROVE
      Snapshots'
  <2>1. CASE att' = [att EXCEPT ![w] = AfterRetirement(w, ok)]
             /\ pc' = [pc EXCEPT ![w] = "ready"]
    BY <1>10, <2>1, RetiringKeepsSnapshots DEF ResumeFails
  <2>2. CASE Stop(w)
    <3>1. CASE ok
      <4>1. row'.ver = row.ver + 1
        BY <1>10, <3>1, RowsGrow DEF ResumeFails, RetireSession, TypeOK
      <4> QED
        BY <2>2, <4>1, RowWritten DEF Stop
    <3>2. CASE ~ok
      BY <1>10, <2>2, <3>2, RowKept DEF ResumeFails, RetireSession, Stop
    <3> QED
      BY <3>1, <3>2
  <2> QED
    BY <1>10, <2>1, <2>2 DEF ResumeFails
<1>11. ASSUME NEW w \in Worker, Save(w) PROVE Snapshots'
  <2>1. row'.ver = row.ver + 1
    BY <1>11, RowsGrow DEF Save, TypeOK
  <2>2. att[w].writable /\ att[w].snap = row /\ retired' = retired
    BY <1>11 DEF Save, MaySave, Attempts
  <2>3. att[w].basis = retired'
    BY <1>11, <2>2 DEF Save, Snapshots
  <2>4. CASE att[w].context
    <3> DEFINE r == row'
    <3>1. att' = [att EXCEPT ![w] = [att[w] EXCEPT !.snap = r]]
          /\ pc' = [pc EXCEPT ![w] = "advancing"]
      BY <1>11, <2>4 DEF Save
    <3>2. [att[w] EXCEPT !.snap = r].snap = r
          /\ [att[w] EXCEPT !.snap = r].basis = att[w].basis
      BY DEF TypeOK, Attempt
    <3> QED
      BY <2>1, <2>3, <3>1, <3>2, RowWritten
  <2>5. CASE Stop(w)
    BY <2>1, <2>5, RowWritten DEF Stop
  <2> QED
    BY <1>11, <2>4, <2>5 DEF Save
<1>12. ASSUME NEW w \in Worker, Advance(w) PROVE Snapshots'
  <2>1. row'.ver = row.ver + 1
    BY <1>12, RowsGrow DEF Advance, TypeOK
  <2> QED
    BY <1>12, <2>1, RowWritten DEF Advance, Stop
<1>13. ASSUME NEW w \in Worker, SaveFails(w) PROVE Snapshots'
  BY <1>13 DEF SaveFails, Stop, Upset, Count, Snapshots, TypeOK, Attempts, Attempt,
     Row, bridge, jobs, worker, session, store
<1>14. ASSUME NEW w \in Worker, NEW crash \in BOOLEAN, NEW evidence \in BOOLEAN,
      Lose(w, crash, evidence) PROVE Snapshots'
  BY <1>14 DEF Lose, Stop, Upset, Snapshots, TypeOK, Attempts, Attempt, Row, bridge,
     jobs, worker, session, store
<1>15. CASE UNCHANGED vars
  BY <1>15 DEF vars, Snapshots, TypeOK, Attempts, Attempt, Row, bridge, jobs, worker,
     session, store
<1> QED
  BY <1>1, <1>2, <1>3, <1>4, <1>5, <1>6, <1>7, <1>8, <1>9, <1>10, <1>11, <1>12, <1>13,
     <1>14, <1>15 DEF Next

\* Every step keeps Cursors.
LEMMA CursorsStep == IInv /\ [Next]_vars => Cursors'
<1> SUFFICES ASSUME IInv, [Next]_vars PROVE Cursors'
  OBVIOUS
<1> USE ModelAssumption, NullAssumption DEF IInv, Ever, None
<1>1. ASSUME NEW m \in Msg, NEW asks \in BOOLEAN, Record(m, asks) PROVE Cursors'
  BY <1>1 DEF Record, Cursors, CursorWasSeen, TypeOK, Attempts, Active, Row, bridge,
     jobs, worker, session, store
<1>2. ASSUME NEW m \in Msg, Ask(m) PROVE Cursors'
  BY <1>2 DEF Ask, Upset, Count, Cursors, CursorWasSeen, TypeOK, Attempts, Active,
     Row, bridge, jobs, worker, session, store
<1>3. ASSUME NEW w \in Worker, NEW m \in Msg, NEW readable \in BOOLEAN, NEW renders
      \in BOOLEAN, Take(w, m, readable, renders) PROVE Cursors'
  BY <1>3 DEF Take, Active, NoRow, Upset, Count, Cursors, CursorWasSeen, TypeOK,
     Attempts, Active, Row, bridge, jobs, worker, session, store
<1>4. ASSUME NEW w \in Worker, Recover(w) PROVE Cursors'
  BY <1>4 DEF Recover, Call, Full, Cursors, CursorWasSeen, TypeOK, Attempts, Active,
     Row, bridge, jobs, worker, session, store
<1>5. ASSUME NEW w \in Worker, Resume(w) PROVE Cursors'
  BY <1>5 DEF Resume, Call, Prompt, Full, Cursors, CursorWasSeen, TypeOK, Attempts,
     Active, Row, bridge, jobs, worker, session, store
<1>6. ASSUME NEW w \in Worker, Fresh(w) PROVE Cursors'
  BY <1>6 DEF Fresh, Call, Full, Cursors, CursorWasSeen, TypeOK, Attempts, Active,
     Row, bridge, jobs, worker, session, store
<1>7. ASSUME NEW w \in Worker, NEW confirmed \in BOOLEAN, Succeed(w, confirmed) PROVE
      Cursors'
  BY <1>7 DEF Succeed, Stop, Upset, Count, Cursors, CursorWasSeen, TypeOK, Attempts,
     Active, Row, bridge, jobs, worker, session, store
<1>8. ASSUME NEW w \in Worker, Fail(w) PROVE Cursors'
  BY <1>8 DEF Fail, Stop, Upset, Cursors, CursorWasSeen, TypeOK, Attempts, Active,
     Row, bridge, jobs, worker, session, store
<1>9. ASSUME NEW w \in Worker, NEW ok \in BOOLEAN, RetireMoved(w, ok) PROVE Cursors'
  <2>1. ok => row' = Retired(row)
    BY <1>9 DEF RetireMoved, RetireSession
  <2>2. ok => ~Active(row')
    BY <2>1, RetiredIsRow DEF TypeOK
  <2>3. ~ok => row' = row
    BY <1>9 DEF RetireMoved, RetireSession, store
  <2> QED
    BY <1>9, <2>2, <2>3 DEF RetireMoved, Cursors, CursorWasSeen, session
<1>10. ASSUME NEW w \in Worker, NEW ok \in BOOLEAN, ResumeFails(w, ok) PROVE Cursors'
  <2>1. ok => row' = Retired(row)
    BY <1>10 DEF ResumeFails, RetireSession
  <2>2. ok => ~Active(row')
    BY <2>1, RetiredIsRow DEF TypeOK
  <2>3. ~ok => row' = row
    BY <1>10 DEF ResumeFails, RetireSession, store
  <2> QED
    BY <1>10, <2>2, <2>3 DEF ResumeFails, Cursors, CursorWasSeen, session
<1>11. ASSUME NEW w \in Worker, Save(w) PROVE Cursors'
  BY <1>11 DEF Save, MaySave, Upserted, KeepsCursor, Active, Stop, Cursors,
     CursorWasSeen, TypeOK, Attempts, Active, Row, bridge, jobs, worker, session,
     store
<1>12. ASSUME NEW w \in Worker, Advance(w) PROVE Cursors'
  BY <1>12 DEF Advance, CursorMoves, MayAdvance, Advanced, Active, Stop, Cursors,
     CursorWasSeen, TypeOK, Attempts, Active, Row, bridge, jobs, worker, session,
     store
<1>13. ASSUME NEW w \in Worker, SaveFails(w) PROVE Cursors'
  BY <1>13 DEF SaveFails, Stop, Upset, Count, Cursors, CursorWasSeen, TypeOK,
     Attempts, Active, Row, bridge, jobs, worker, session, store
<1>14. ASSUME NEW w \in Worker, NEW crash \in BOOLEAN, NEW evidence \in BOOLEAN,
      Lose(w, crash, evidence) PROVE Cursors'
  BY <1>14 DEF Lose, Stop, Upset, Cursors, CursorWasSeen, TypeOK, Attempts, Active,
     Row, bridge, jobs, worker, session, store
<1>15. CASE UNCHANGED vars
  BY <1>15 DEF vars, Cursors, CursorWasSeen, TypeOK, Attempts, Active, Row, bridge,
     jobs, worker, session, store
<1> QED
  BY <1>1, <1>2, <1>3, <1>4, <1>5, <1>6, <1>7, <1>8, <1>9, <1>10, <1>11, <1>12, <1>13,
     <1>14, <1>15 DEF Next

\* No step breaks RetirementHolds.
LEMMA RetirementStep == IInv /\ [Next]_vars => RetirementHolds'
<1> SUFFICES ASSUME IInv, [Next]_vars PROVE RetirementHolds'
  OBVIOUS
<1> USE ModelAssumption, NullAssumption DEF IInv, Ever, None
<1>1. ASSUME NEW m \in Msg, NEW asks \in BOOLEAN, Record(m, asks) PROVE
      RetirementHolds'
  BY <1>1 DEF Record, RetirementHolds, TypeOK, Attempts, Snapshots, Active, Row,
     bridge, jobs, worker, session, store
<1>2. ASSUME NEW m \in Msg, Ask(m) PROVE RetirementHolds'
  BY <1>2 DEF Ask, Upset, Count, RetirementHolds, TypeOK, Attempts, Snapshots, Active,
     Row, bridge, jobs, worker, session, store
<1>3. ASSUME NEW w \in Worker, NEW m \in Msg, NEW readable \in BOOLEAN, NEW renders
      \in BOOLEAN, Take(w, m, readable, renders) PROVE RetirementHolds'
  BY <1>3 DEF Take, Active, NoRow, Upset, Count, RetirementHolds, TypeOK, Attempts,
     Snapshots, Active, Row, bridge, jobs, worker, session, store
<1>4. ASSUME NEW w \in Worker, Recover(w) PROVE RetirementHolds'
  BY <1>4 DEF Recover, Call, Full, RetirementHolds, TypeOK, Attempts, Snapshots,
     Active, Row, bridge, jobs, worker, session, store
<1>5. ASSUME NEW w \in Worker, Resume(w) PROVE RetirementHolds'
  BY <1>5 DEF Resume, Call, Prompt, Full, RetirementHolds, TypeOK, Attempts,
     Snapshots, Active, Row, bridge, jobs, worker, session, store
<1>6. ASSUME NEW w \in Worker, Fresh(w) PROVE RetirementHolds'
  BY <1>6 DEF Fresh, Call, Full, RetirementHolds, TypeOK, Attempts, Snapshots, Active,
     Row, bridge, jobs, worker, session, store
<1>7. ASSUME NEW w \in Worker, NEW confirmed \in BOOLEAN, Succeed(w, confirmed) PROVE
      RetirementHolds'
  BY <1>7 DEF Succeed, Stop, Upset, Count, RetirementHolds, TypeOK, Attempts,
     Snapshots, Active, Row, bridge, jobs, worker, session, store
<1>8. ASSUME NEW w \in Worker, Fail(w) PROVE RetirementHolds'
  BY <1>8 DEF Fail, Stop, Upset, RetirementHolds, TypeOK, Attempts, Snapshots, Active,
     Row, bridge, jobs, worker, session, store
<1>9. ASSUME NEW w \in Worker, NEW ok \in BOOLEAN, RetireMoved(w, ok) PROVE
      RetirementHolds'
  <2>1. ok => row' = Retired(row)
    BY <1>9 DEF RetireMoved, RetireSession
  <2>2. ok => ~Active(row')
    BY <2>1, RetiredIsRow DEF TypeOK
  <2>3. ~ok => UNCHANGED store
    BY <1>9 DEF RetireMoved, RetireSession
  <2> QED
    BY <2>2, <2>3 DEF RetirementHolds, store
<1>10. ASSUME NEW w \in Worker, NEW ok \in BOOLEAN, ResumeFails(w, ok) PROVE
      RetirementHolds'
  <2>1. ok => row' = Retired(row)
    BY <1>10 DEF ResumeFails, RetireSession
  <2>2. ok => ~Active(row')
    BY <2>1, RetiredIsRow DEF TypeOK
  <2>3. ~ok => UNCHANGED store
    BY <1>10 DEF ResumeFails, RetireSession
  <2> QED
    BY <2>2, <2>3 DEF RetirementHolds, store
<1>11. ASSUME NEW w \in Worker, Save(w) PROVE RetirementHolds'
  BY <1>11 DEF Save, MaySave, Upserted, KeepsCursor, Active, Stop, RetirementHolds,
     TypeOK, Attempts, Snapshots, Active, Row, bridge, jobs, worker, session, store
<1>12. ASSUME NEW w \in Worker, Advance(w) PROVE RetirementHolds'
  BY <1>12 DEF Advance, CursorMoves, MayAdvance, Advanced, Active, Stop,
     RetirementHolds, TypeOK, Attempts, Snapshots, Active, Row, bridge, jobs, worker,
     session, store
<1>13. ASSUME NEW w \in Worker, SaveFails(w) PROVE RetirementHolds'
  BY <1>13 DEF SaveFails, Stop, Upset, Count, RetirementHolds, TypeOK, Attempts,
     Snapshots, Active, Row, bridge, jobs, worker, session, store
<1>14. ASSUME NEW w \in Worker, NEW crash \in BOOLEAN, NEW evidence \in BOOLEAN,
      Lose(w, crash, evidence) PROVE RetirementHolds'
  BY <1>14 DEF Lose, Stop, Upset, RetirementHolds, TypeOK, Attempts, Snapshots,
     Active, Row, bridge, jobs, worker, session, store
<1>15. CASE UNCHANGED vars
  BY <1>15 DEF vars, RetirementHolds, TypeOK, Attempts, Snapshots, Active, Row,
     bridge, jobs, worker, session, store
<1> QED
  BY <1>1, <1>2, <1>3, <1>4, <1>5, <1>6, <1>7, <1>8, <1>9, <1>10, <1>11, <1>12, <1>13,
     <1>14, <1>15 DEF Next

-----------------------------------------------------------------------------
\* IInv is an invariant.
LEMMA Invariant == Spec => []IInv
<1>1. IInv /\ [Next]_vars => IInv'
  BY TypeStep, RecordedStep, AttemptsStep, SnapshotsStep, CursorsStep, RetirementStep
     DEF IInv
<1> QED
  BY InitInvariant, <1>1, PTL DEF Spec

\* The variables have their types in every state.
THEOREM TypeCorrect == Spec => []TypeOK
<1>1. IInv => TypeOK
  BY DEF IInv
<1> QED
  BY Invariant, <1>1, PTL

\* However attempts of an agent overlap, an active row was written by one that
\* knew of the row's last retirement (SessionStore.upsert with expected_session).
THEOREM RetiredStaysRetired == Spec => []RetirementHolds
<1>1. IInv => RetirementHolds
  BY DEF IInv
<1> QED
  BY Invariant, <1>1, PTL

\* The cursor from which a delta starts is a message that the session was given
\* (SessionStore.advance_context_cursor after a confirmed report).
THEOREM CursorIsSeen == Spec => []CursorWasSeen
<1>1. IInv => CursorWasSeen
  BY DEF IInv, Cursors
<1> QED
  BY Invariant, <1>1, PTL

\* One step does not move the cursor of a session back.
LEMMA CursorStep ==
  ASSUME IInv, Next,
         Active(row), Active(row'), row'.sess = row.sess,
         row.cursor # None, row'.cursor # None
  PROVE  order[row.cursor] <= order[row'.cursor]
<1>1. order[row.cursor] \in Nat
  BY DEF IInv, TypeOK, Cursors, CursorWasSeen
<1>2. CASE row' = row
  BY <1>1, <1>2
<1>3. ASSUME NEW w \in Worker, Save(w)
      PROVE  order[row.cursor] <= order[row'.cursor]
  <2>1. row'.cursor = row.cursor
    BY <1>3 DEF Save, Upserted, KeepsCursor
  <2> QED
    BY <1>1, <2>1
<1>4. ASSUME NEW w \in Worker, Advance(w)
      PROVE  order[row.cursor] <= order[row'.cursor]
  <2>1. att[w].job \in Msg /\ row \in Row
    BY <1>4 DEF Advance, IInv, TypeOK, Attempts
  <2>2. row'.cursor = att[w].job
    BY <1>4, <2>1 DEF Advance, Advanced, Row
  <2>3. order[row.cursor] < order[att[w].job] /\ order[att[w].job] \in Nat
    BY <1>4, <2>1 DEF Advance, CursorMoves, MayAdvance, IInv, TypeOK
  <2> QED
    BY <1>1, <2>2, <2>3
<1>5. ASSUME NEW w \in Worker, NEW ok \in BOOLEAN, RetireSession(w, ok) PROVE row' = row
  BY <1>5, RetiredIsRow DEF RetireSession, store, IInv, TypeOK
<1> QED
  BY <1>2, <1>3, <1>4, <1>5, ZenonT(60) DEF Next, Record, Ask, Take, Recover, Resume, Fresh,
       Succeed, Fail, RetireMoved, ResumeFails, SaveFails, Lose, store

\* While a session is the row's, its cursor never goes back, whatever the order
\* in which the results arrive (advance_context_cursor compares order tokens).
THEOREM CursorMonotone == Spec => CursorNeverBack
<1>1. IInv /\ [Next]_vars
        => [Active(row) /\ Active(row') /\ row'.sess = row.sess
              /\ row.cursor # None /\ row'.cursor # None
            => order[row.cursor] <= order[row'.cursor]]_vars
  BY CursorStep
<1> QED
  BY Invariant, <1>1, PTL DEF Spec, CursorNeverBack

-----------------------------------------------------------------------------
(* What a delta leaves out.  The windows of one generation are nested: what a *)
(* window shows up to a message that it also shows was in that message's own  *)
(* window, if its envelope was built before.                                  *)

\* Envelopes are built of messages that were recorded.
Numbering ==
  /\ \A m \in Msg : job[m] \in {"none", "asked"} <=> ~Built(m)
  /\ \A m \in Msg : Built(m) => order[m] <= env[m].upto /\ env[m].upto <= Cardinality(Stored)
  /\ \A m \in Msg : order[m] <= Cardinality(Stored)

\* The messages that were there when the envelope of c was built, and those of
\* them after k.
Then(c) == {l \in Msg \ {c} : order[l] # 0 /\ order[l] <= env[c].upto}
After(k, c) == {l \in Then(c) : l > k}

\* The messages after k leave room for k in a window of generation g.
Room(k, S, g) == Cardinality(S) < Window[g] /\ (S = {} \/ S \cup {k} \in Fits[g])

\* A window holds every message that was there, has not expired and had room.
Memories ==
  \A c \in Msg : Built(c) =>
    /\ env[c].gen \in Gen /\ env[c].msgs \subseteq Then(c)
    /\ \A k \in Then(c) : k >= horizon /\ Room(k, After(k, c), env[c].gen) => k \in env[c].msgs

Nested ==
  \A c, m \in Msg :
    /\ Built(c) /\ Built(m) /\ env[c].upto < order[m] /\ env[c].gen = env[m].gen
    /\ c \in env[m].msgs
    => \A k \in env[m].msgs : order[k] <= order[c] => k \in env[c].msgs \cup {c}

\* The message of the row's cursor has an envelope of the row's generation, and
\* the row's session was given all of its window, unless a delta crossed.
Known(r, e, s, x) ==
  LET c == r.cursor IN
  Active(r) /\ c # None =>
    /\ c \in Msg /\ e[c].upto > 0 /\ e[c].gen = r.gen
    /\ r.sess \notin x => e[c].msgs \cup {c} \subseteq s[r.sess]

\* What an attempt knows of the row before the call, and what its session was
\* given after it.
Knows(p, a, e, s, x) ==
  /\ p # "idle" => a.job \in Msg /\ e[a.job].upto > 0
  /\ p = "ready" /\ a.existing # None =>
       Active(a.snap) /\ a.existing = a.snap.sess /\ Known(a.snap, e, s, x)
  /\ p = "calling" /\ a.target \notin x => e[a.job].msgs \ a.prompt \subseteq s[a.target]
  /\ p \in {"saving", "advancing"} /\ a.target \notin x
       => e[a.job].msgs \cup {a.job} \subseteq s[a.target]

Bridge == Numbering /\ Memories /\ Nested
Deltas == Known(row, env, seen, crossed)
          /\ \A w \in Worker : Knows(pc[w], att[w], env, seen, crossed)

\* The sizes of finite sets of messages.
LEMMA Sizes ==
  /\ \A S \in SUBSET Msg : IsFiniteSet(S) /\ Cardinality(S) \in Nat
  /\ \A S, T \in SUBSET Msg : S \subseteq T => Cardinality(S) <= Cardinality(T)
  /\ \A S \in SUBSET Msg, x \in Msg : x \notin S => Cardinality(S \cup {x}) = Cardinality(S) + 1
BY ModelAssumption, FS_Subset, FS_CardinalityType, FS_AddElement

\* Where there is room after many messages, there is after fewer.
LEMMA RoomForFewer ==
  ASSUME NEW g \in Gen, NEW S \in SUBSET Msg, NEW T \in SUBSET S, NEW k \in Msg, Room(k, S, g)
  PROVE  Room(k, T, g)
<1>1. Cardinality(T) < Window[g]
  <2>1. Cardinality(T) <= Cardinality(S) /\ Cardinality(T) \in Nat /\ Cardinality(S) \in Nat
    BY Sizes
  <2>2. Window[g] \in Nat /\ Cardinality(S) < Window[g]
    BY ModelAssumption DEF Room
  <2> QED BY <2>1, <2>2
<1>2. CASE T = {}
  BY <1>1, <1>2 DEF Room
<1>3. CASE T # {}
  <2>1. S \cup {k} \in Fits[g]
    BY <1>3 DEF Room
  <2>2. T \cup {k} \in SUBSET (S \cup {k})
    OBVIOUS
  <2> QED BY <1>1, <2>1, <2>2, FitsAssumption DEF Room
<1> QED BY <1>2, <1>3

\* A step that builds no envelope and records no message leaves the windows.
LEMMA BridgeKept ==
  ASSUME Bridge, UNCHANGED bridge,
         \A m \in Msg : job'[m] \in {"none", "asked"} <=> job[m] \in {"none", "asked"}
  PROVE  Bridge'
<1>1. order' = order /\ horizon' = horizon /\ env' = env
  BY DEF bridge
<1>2. Stored' = Stored /\ \A c : Then(c)' = Then(c) /\ \A k : After(k, c)' = After(k, c)
  BY <1>1 DEF Stored, Then, After
<1>3. Numbering'
  BY <1>1, <1>2 DEF Bridge, Numbering, Built
<1>4. Memories'
  BY <1>1, <1>2 DEF Bridge, Memories, Built, Room
<1>5. Nested'
  BY <1>1 DEF Bridge, Nested, Built
<1> QED BY <1>3, <1>4, <1>5 DEF Bridge

\* A new message is younger than all that a window holds.
LEMMA RecordKeepsBridge ==
  ASSUME TypeOK, Recorded, Bridge, NEW m \in Msg, NEW asks \in BOOLEAN, Record(m, asks)
  PROVE  Bridge'
<1>1. /\ order[m] = 0 /\ order' = [order EXCEPT ![m] = Cardinality(Stored) + 1]
      /\ env' = env /\ horizon' = horizon
      /\ job' = [job EXCEPT ![m] = IF asks THEN "asked" ELSE "none"]
  BY DEF Record
<1>2. Stored \in SUBSET Msg /\ m \notin Stored /\ Cardinality(Stored) \in Nat
  BY <1>1, Sizes DEF Stored
<1>3. Stored' = Stored \cup {m} /\ \A k \in Stored : order'[k] = order[k]
  <2>1. PICK q \in Nat : q = Cardinality(Stored)
    BY <1>2
  <2>2. order' = [order EXCEPT ![m] = q + 1] /\ q + 1 # 0
    BY <1>1, <2>1
  <2>3. \A k \in Msg : order'[k] = IF k = m THEN q + 1 ELSE order[k]
    BY <2>2 DEF TypeOK
  <2>4. \A k \in Msg : order'[k] # 0 <=> order[k] # 0 \/ k = m
    BY <2>2, <2>3
  <2> QED BY <1>2, <2>3, <2>4 DEF Stored
<1>4. \A k \in Msg : order[k] \in Nat /\ order[k] <= Cardinality(Stored)
  BY DEF Bridge, Numbering, TypeOK
<1>5. ~Built(m)
  BY <1>1 DEF Recorded, Bridge, Numbering
<1>6. Numbering'
  <2>1. Cardinality(Stored') = Cardinality(Stored) + 1
    BY <1>2, <1>3, Sizes
  <2>2. \A k \in Msg : order'[k] <= Cardinality(Stored')
    BY <1>1, <1>2, <1>4, <2>1 DEF TypeOK
  <2>3. \A k \in Msg : job'[k] \in {"none", "asked"} <=> ~Built(k)
    BY <1>1, <1>5 DEF Bridge, Numbering, TypeOK
  <2>4. \A k \in Msg : Built(k) => order'[k] <= env[k].upto /\ env[k].upto <= Cardinality(Stored')
    <3> SUFFICES ASSUME NEW k \in Msg, Built(k)
                 PROVE  order'[k] <= env[k].upto /\ env[k].upto <= Cardinality(Stored')
      OBVIOUS
    <3>1. order'[k] = order[k]
      BY <1>1, <1>5 DEF TypeOK
    <3>2. order[k] <= env[k].upto /\ env[k].upto <= Cardinality(Stored) /\ env[k].upto \in Nat
      BY DEF Bridge, Numbering, TypeOK, Envelope
    <3> QED BY <1>2, <2>1, <3>1, <3>2
  <2> QED BY <1>1, <2>2, <2>3, <2>4 DEF Numbering, Built
<1>7. \A c \in Msg : Built(c) => Then(c)' = Then(c)
  <2> SUFFICES ASSUME NEW c \in Msg, Built(c) PROVE Then(c)' = Then(c)
    OBVIOUS
  <2>1. env[c].upto <= Cardinality(Stored) /\ env[c].upto \in Nat
    BY DEF Bridge, Numbering, TypeOK, Envelope
  <2>2. order'[m] = Cardinality(Stored) + 1 /\ order[m] = 0
    BY <1>1 DEF TypeOK
  <2>3. ~(order'[m] <= env[c].upto)
    BY <1>2, <2>1, <2>2
  <2>4. \A k \in Msg : k # m => order'[k] = order[k]
    BY <1>1 DEF TypeOK
  <2> QED BY <1>1, <2>2, <2>3, <2>4 DEF Then
<1>8. Memories'
  <2>1. \A c \in Msg : Built(c) => \A k : After(k, c)' = After(k, c)
    BY <1>7 DEF After
  <2> QED BY <1>1, <1>7, <2>1 DEF Bridge, Memories, Built, Room
<1>9. Nested'
  <2> SUFFICES ASSUME NEW c \in Msg, NEW d \in Msg, Built(c), Built(d),
                      env[c].upto < order'[d], env[c].gen = env[d].gen, c \in env[d].msgs,
                      NEW k \in env[d].msgs, order'[k] <= order'[c]
               PROVE  k \in env[c].msgs \cup {c}
    BY <1>1 DEF Nested, Built
  <2>1. d # m /\ c # m /\ k # m
    BY <1>1, <1>5 DEF Bridge, Memories, Then
  <2>2. order'[d] = order[d] /\ order'[c] = order[c] /\ order'[k] = order[k]
    BY <1>1, <2>1 DEF TypeOK
  <2> QED BY <2>2 DEF Bridge, Nested
<1> QED BY <1>6, <1>8, <1>9 DEF Bridge

\* A new envelope is nested with those that were built before its question was
\* recorded.
LEMMA AskKeepsBridge ==
  ASSUME TypeOK, Recorded, Bridge, NEW m \in Msg, Ask(m)
  PROVE  Bridge'
<1>1. PICK limit \in {horizon} \cup horizon..m :
        /\ horizon' = limit /\ config' \in [gen : Gen, dir : Dir]
        /\ env' = [env EXCEPT ![m] =
             [gen |-> config'.gen, dir |-> config'.dir,
              msgs |-> Recent(m, config'.gen, limit), upto |-> Cardinality(Stored)]]
        /\ order' = order /\ job' = [job EXCEPT ![m] = "queued"] /\ job[m] = "asked"
  BY DEF Ask
<1> DEFINE g == config'.gen
           W == Recent(m, g, limit)
           later(k) == {l \in Stored \ {m} : l > k}
<1>2. g \in Gen
  BY <1>1
<1>3. Stored' = Stored /\ Stored \in SUBSET Msg /\ m \in Stored /\ Cardinality(Stored) \in Nat
  BY <1>1, Sizes DEF Stored, Recorded
<1>4. /\ env'[m].gen = g /\ env'[m].msgs = W /\ env'[m].upto = Cardinality(Stored)
      /\ \A c \in Msg : c # m => env'[c] = env[c]
  BY <1>1 DEF TypeOK
<1>5. \A k \in Msg : order[k] \in Nat /\ order[k] <= Cardinality(Stored)
  BY DEF Bridge, Numbering, TypeOK
<1>6. Cardinality(Stored) > 0
  <2>1. order[m] # 0 /\ order[m] <= Cardinality(Stored) /\ order[m] \in Nat
    BY <1>3, <1>5 DEF Stored
  <2> QED BY <1>3, <2>1
<1>7. limit \in Nat /\ horizon \in Nat /\ horizon <= limit
  BY <1>1, ModelAssumption DEF TypeOK
<1>8. \A k : k \in W <=> k \in Stored \ {m} /\ k >= limit /\ Room(k, later(k), g)
  BY DEF Recent, Room
<1>9. ~Built(m) /\ Built(m)' /\ \A c \in Msg : c # m => (Built(c)' <=> Built(c))
  BY <1>1, <1>4, <1>6 DEF Built, Bridge, Numbering
<1>10. Then(m)' = Stored \ {m} /\ \A c \in Msg : c # m => Then(c)' = Then(c)
  BY <1>1, <1>4, <1>5 DEF Then, Stored
<1>11. /\ \A k : After(k, m)' = later(k)
       /\ \A c \in Msg : c # m => \A k : After(k, c)' = After(k, c)
  BY <1>10 DEF After
<1> HIDE DEF g, W, later
<1>12. Numbering'
  <2>1. \A k \in Msg : job'[k] \in {"none", "asked"} <=> ~Built(k)'
    BY <1>1, <1>9 DEF Bridge, Numbering, TypeOK
  <2>2. \A k \in Msg : Built(k)' => order[k] <= env'[k].upto /\ env'[k].upto <= Cardinality(Stored)
    BY <1>3, <1>4, <1>5, <1>9 DEF Bridge, Numbering
  <2> QED BY <1>1, <1>3, <1>5, <2>1, <2>2 DEF Numbering
<1>13. Memories'
  <2> SUFFICES ASSUME NEW c \in Msg, Built(c)'
               PROVE  /\ env'[c].gen \in Gen /\ env'[c].msgs \subseteq Then(c)'
                      /\ \A k \in Then(c)' :
                           k >= limit /\ Room(k, After(k, c)', env'[c].gen) => k \in env'[c].msgs
    BY <1>1 DEF Memories, Room
  <2>1. CASE c = m
    BY <1>2, <1>4, <1>8, <1>10, <1>11, <2>1
  <2>2. CASE c # m
    <3>1. /\ Built(c) /\ env'[c] = env[c] /\ Then(c)' = Then(c)
          /\ \A k : After(k, c)' = After(k, c)
      BY <1>4, <1>9, <1>10, <1>11, <2>2
    <3>2. \A k \in Then(c) : k \in Nat /\ (k >= limit => k >= horizon)
      BY <1>7, ModelAssumption DEF Then
    <3> QED BY <3>1, <3>2 DEF Bridge, Memories
  <2> QED BY <2>1, <2>2
<1>14. ASSUME NEW c \in Msg, Built(c), env[c].gen = g, env[c].upto < order[m],
              NEW k \in W, order[k] <= order[c], k # c
       PROVE  k \in env[c].msgs
  <2>1. k \in Stored \ {m} /\ k >= limit /\ Room(k, later(k), g)
    BY <1>8, <1>14
  <2>2. env[c].upto \in Nat /\ order[c] <= env[c].upto
    BY <1>14 DEF Bridge, Numbering, TypeOK, Envelope
  <2>3. k \in Then(c)
    BY <1>3, <1>5, <1>14, <2>1, <2>2 DEF Then, Stored
  <2>4. m \notin Then(c)
    BY <1>5, <1>14, <2>2 DEF Then
  <2>5. After(k, c) \in SUBSET later(k) /\ later(k) \in SUBSET Msg
    BY <1>3, <2>4 DEF After, Then, Stored, later
  <2>6. Room(k, After(k, c), g)
    BY <1>2, <1>3, <2>1, <2>5, RoomForFewer
  <2>7. k >= horizon
    BY <1>3, <1>7, <2>1, ModelAssumption
  <2> QED BY <1>14, <2>3, <2>6, <2>7 DEF Bridge, Memories
<1>15. Nested'
  <2> SUFFICES ASSUME NEW c \in Msg, NEW d \in Msg, Built(c)', Built(d)',
                      env'[c].upto < order[d], env'[c].gen = env'[d].gen, c \in env'[d].msgs,
                      NEW k \in env'[d].msgs, order[k] <= order[c]
               PROVE  k \in env'[c].msgs \cup {c}
    BY <1>1 DEF Nested
  <2>1. c # m
    BY <1>3, <1>4, <1>5
  <2>2. Built(c) /\ env'[c] = env[c]
    BY <1>4, <1>9, <2>1
  <2>3. CASE d = m
    BY <1>4, <1>14, <2>2, <2>3
  <2>4. CASE d # m
    BY <1>4, <1>9, <2>2, <2>4 DEF Bridge, Nested
  <2> QED BY <2>3, <2>4
<1> QED BY <1>12, <1>13, <1>15 DEF Bridge

\* Every step keeps what holds of the bridge.
LEMMA BridgeStep == IInv /\ Bridge /\ [Next]_vars => Bridge'
<1> SUFFICES ASSUME IInv, Bridge, [Next]_vars PROVE Bridge'
  OBVIOUS
<1> USE DEF IInv
<1>1. ASSUME NEW m \in Msg, NEW asks \in BOOLEAN, Record(m, asks) PROVE Bridge'
  BY <1>1, RecordKeepsBridge
<1>2. ASSUME NEW m \in Msg, Ask(m) PROVE Bridge'
  BY <1>2, AskKeepsBridge
<1>3. ASSUME NEW w \in Worker, NEW m \in Msg, NEW readable \in BOOLEAN, NEW renders \in BOOLEAN,
             Take(w, m, readable, renders)
      PROVE  Bridge'
  BY <1>3, BridgeKept DEF Take, TypeOK
<1>4. ASSUME NEW w \in Worker, pc[w] = "calling", UNCHANGED bridge,
             job' = job \/ job' = [job EXCEPT ![att[w].job] = "done"]
      PROVE  Bridge'
  <2>1. job[att[w].job] = "taken" /\ att[w].job \in Msg
    BY <1>4 DEF TypeOK, Attempts
  <2>2. \A m \in Msg : job'[m] \in {"none", "asked"} <=> job[m] \in {"none", "asked"}
    BY <1>4, <2>1 DEF TypeOK
  <2> QED BY <1>4, <2>2, BridgeKept
<1>5. ASSUME NEW w \in Worker, NEW confirmed \in BOOLEAN, Succeed(w, confirmed) PROVE Bridge'
  BY <1>4, <1>5 DEF Succeed
<1>6. ASSUME NEW w \in Worker, Fail(w) PROVE Bridge'
  BY <1>4, <1>6 DEF Fail
<1>7. ASSUME NEW w \in Worker, NEW ok \in BOOLEAN, ResumeFails(w, ok) PROVE Bridge'
  BY <1>4, <1>7 DEF ResumeFails
<1>8. ASSUME NEW w \in Worker, NEW crash \in BOOLEAN, NEW evidence \in BOOLEAN,
             Lose(w, crash, evidence)
      PROVE  Bridge'
  <2>1. /\ job[att[w].job] = "taken" /\ job' = [job EXCEPT ![att[w].job] = "lost"]
        /\ UNCHANGED bridge
    BY <1>8 DEF Lose, TypeOK
  <2>2. \A m \in Msg : job'[m] \in {"none", "asked"} <=> job[m] \in {"none", "asked"}
    BY <2>1 DEF TypeOK
  <2> QED BY <2>1, <2>2, BridgeKept
<1>9. ASSUME UNCHANGED <<bridge, job>> PROVE Bridge'
  BY <1>9, BridgeKept
<1>10. ASSUME NEW w \in Worker,
              Recover(w) \/ Resume(w) \/ Fresh(w) \/ Save(w) \/ Advance(w) \/ SaveFails(w)
                \/ \E ok \in BOOLEAN : RetireMoved(w, ok)
       PROVE  Bridge'
  BY <1>9, <1>10 DEF Recover, Resume, Fresh, Save, Advance, SaveFails, RetireMoved, jobs
<1> QED BY <1>1, <1>2, <1>3, <1>5, <1>6, <1>7, <1>8, <1>9, <1>10 DEF Next, vars, jobs

\* What a cursor's message or an attempt relies on does not go away: envelopes
\* that were built, what sessions were given, that a delta crossed.
Grows ==
  /\ \A m \in Msg : env[m].upto > 0 => env'[m] = env[m]
  /\ \A s \in Ever : seen[s] \subseteq seen'[s]
  /\ crossed \subseteq crossed'

LEMMA StepGrows == IInv /\ Bridge /\ [Next]_vars => Grows
<1> SUFFICES ASSUME IInv, Bridge, [Next]_vars PROVE Grows
  OBVIOUS
<1> USE DEF IInv
<1>1. ASSUME NEW m \in Msg, NEW asks \in BOOLEAN, Record(m, asks) PROVE Grows
  <2>1. job[m] = "none"
    BY <1>1 DEF Record, Recorded
  <2> QED BY <1>1, <2>1 DEF Record, Grows, TypeOK, session
<1>2. ASSUME NEW m \in Msg, Ask(m) PROVE Grows
  <2>1. env[m].upto = 0
    BY <1>2 DEF Ask, Bridge, Numbering, Built, TypeOK, Envelope
  <2> QED BY <1>2, <2>1 DEF Ask, Grows, TypeOK, session
<1>3. ASSUME NEW w \in Worker, NEW m \in Msg, NEW readable \in BOOLEAN, NEW renders \in BOOLEAN,
             Take(w, m, readable, renders)
      PROVE  Grows
  BY <1>3 DEF Take, Grows, TypeOK, bridge, session
<1>4. ASSUME NEW w \in Worker, NEW confirmed \in BOOLEAN, Succeed(w, confirmed) PROVE Grows
  BY <1>4 DEF Succeed, Grows, TypeOK, bridge
<1>5. ASSUME NEW w \in Worker, Fail(w) PROVE Grows
  BY <1>5 DEF Fail, Grows, TypeOK, bridge, session
<1>6. ASSUME NEW w \in Worker, NEW ok \in BOOLEAN, ResumeFails(w, ok) PROVE Grows
  BY <1>6 DEF ResumeFails, Grows, TypeOK, bridge, session
<1>7. ASSUME NEW w \in Worker, NEW crash \in BOOLEAN, NEW evidence \in BOOLEAN,
             Lose(w, crash, evidence)
      PROVE  Grows
  BY <1>7 DEF Lose, Grows, TypeOK, bridge, session
<1>8. ASSUME UNCHANGED <<bridge, seen>>, crossed \subseteq crossed' PROVE Grows
  BY <1>8 DEF Grows, bridge
<1>9. ASSUME NEW w \in Worker,
             Recover(w) \/ Resume(w) \/ Fresh(w) \/ Save(w) \/ Advance(w) \/ SaveFails(w)
               \/ \E ok \in BOOLEAN : RetireMoved(w, ok)
      PROVE  Grows
  BY <1>8, <1>9 DEF Recover, Resume, Fresh, Save, Advance, SaveFails, RetireMoved, session
<1> QED BY <1>1, <1>2, <1>3, <1>4, <1>5, <1>6, <1>7, <1>8, <1>9 DEF Next, vars, session

\* What was known of a row stays known.
LEMMA KnownGrows ==
  ASSUME Grows, NEW r, Known(r, env, seen, crossed), Active(r) => r.sess \in Ever
  PROVE  Known(r, env', seen', crossed')
BY DEF Grows, Known

\* What an attempt knew it still knows.
LEMMA AttemptGrows ==
  ASSUME TypeOK, Grows, NEW p, NEW a \in Attempt, Knows(p, a, env, seen, crossed),
         p \in {"calling", "saving", "advancing"} => a.target \in Ever
  PROVE  Knows(p, a, env', seen', crossed')
<1>1. p # "idle" => a.job \in Msg /\ env'[a.job] = env[a.job] /\ env[a.job].upto > 0
  BY DEF Knows, Grows
<1>2. ASSUME p = "ready", a.existing # None
      PROVE  Active(a.snap) /\ a.existing = a.snap.sess /\ Known(a.snap, env', seen', crossed')
  <2>1. Active(a.snap) /\ a.existing = a.snap.sess /\ Known(a.snap, env, seen, crossed)
    BY <1>2 DEF Knows
  <2>2. a.snap.sess \in Ever
    BY <1>2, <2>1 DEF Attempt
  <2> QED BY <2>1, <2>2, KnownGrows
<1>3. p = "calling" /\ a.target \notin crossed'
        => env'[a.job].msgs \ a.prompt \subseteq seen'[a.target]
  BY <1>1 DEF Knows, Grows
<1>4. p \in {"saving", "advancing"} /\ a.target \notin crossed'
        => env'[a.job].msgs \cup {a.job} \subseteq seen'[a.target]
  BY <1>1 DEF Knows, Grows
<1> QED BY <1>1, <1>2, <1>3, <1>4 DEF Knows

\* A step in which worker w goes on, and the others do not move.
LEMMA WorkerMoves ==
  ASSUME TypeOK, Attempts, Grows, Deltas, NEW w \in Worker, NEW a, NEW p,
         att' = [att EXCEPT ![w] = a], pc' = [pc EXCEPT ![w] = p],
         Knows(p, a, env', seen', crossed')
  PROVE  \A v \in Worker : Knows(pc'[v], att'[v], env', seen', crossed')
<1> SUFFICES ASSUME NEW v \in Worker PROVE Knows(pc'[v], att'[v], env', seen', crossed')
  OBVIOUS
<1>1. CASE v = w
  BY <1>1 DEF TypeOK
<1>2. CASE v # w
  <2>1. att'[v] = att[v] /\ pc'[v] = pc[v] /\ att[v] \in Attempt
    BY <1>2 DEF TypeOK
  <2>2. pc[v] \in {"calling", "saving", "advancing"} => att[v].target \in Ever
    BY DEF Attempts
  <2>3. Knows(pc[v], att[v], env, seen, crossed)
    BY DEF Deltas
  <2>4. Knows(pc[v], att[v], env', seen', crossed')
    BY <2>1, <2>2, <2>3, AttemptGrows
  <2> QED BY <2>1, <2>4
<1> QED BY <1>1, <1>2

\* A worker that stops knows nothing.
LEMMA StoppedKnows == \A e, s, x : Knows("idle", NoAttempt, e, s, x)
BY DEF Knows

\* The row that is not written stays known.
LEMMA RowStaysKnown ==
  ASSUME Cursors, Grows, Deltas, row' = row
  PROVE  Known(row', env', seen', crossed')
<1>1. PICK r : r = row
  OBVIOUS
<1>2. Known(r, env, seen, crossed) /\ (Active(r) => r.sess \in Ever)
  BY <1>1 DEF Deltas, Cursors
<1>3. Known(r, env', seen', crossed')
  BY <1>2, KnownGrows
<1> QED BY <1>1, <1>3

\* A retired row has no cursor.
LEMMA RetiredKnown ==
  ASSUME TypeOK, Cursors, Grows, Deltas, NEW w \in Worker, NEW ok \in BOOLEAN,
         RetireSession(w, ok)
  PROVE  Known(row', env', seen', crossed')
<1>1. CASE ok
  <2>1. row' = Retired(row) /\ ~Active(Retired(row))
    BY <1>1, RetiredIsRow DEF RetireSession, TypeOK
  <2> QED BY <2>1 DEF Known
<1>2. CASE ~ok
  BY <1>2, RowStaysKnown DEF RetireSession, store
<1> QED BY <1>1, <1>2

\* A claim reads the row.
LEMMA TakeKnows ==
  ASSUME IInv, Bridge, Deltas, Grows, NEW w \in Worker, NEW m \in Msg,
         NEW readable \in BOOLEAN, NEW renders \in BOOLEAN, Take(w, m, readable, renders)
  PROVE  Deltas'
<1> USE DEF IInv
<1> DEFINE a == [job |-> m, snap |-> IF readable THEN row ELSE NoRow,
                 writable |-> readable, context |-> readable /\ renders,
                 existing |-> IF readable /\ Active(row) THEN row.sess ELSE None,
                 target |-> None, prompt |-> {}, basis |-> retired]
<1>1. /\ att' = [att EXCEPT ![w] = a] /\ pc' = [pc EXCEPT ![w] = "ready"]
      /\ row' = row /\ env' = env /\ job[m] \in {"queued", "lost"}
  BY DEF Take, bridge, session, store
<1>2. env'[m].upto > 0
  BY <1>1 DEF Bridge, Numbering, Built
<1>3. ASSUME a.existing # None
      PROVE  Active(a.snap) /\ a.existing = a.snap.sess /\ Known(a.snap, env', seen', crossed')
  <2>1. a.snap = row /\ a.existing = row.sess /\ Active(row)
    BY <1>3
  <2> HIDE DEF a
  <2> QED BY <1>1, <2>1, RowStaysKnown
<1>4. a.job = m
  OBVIOUS
<1> HIDE DEF a
<1>5. Knows("ready", a, env', seen', crossed')
  BY <1>2, <1>3, <1>4 DEF Knows
<1>6. \A v \in Worker : Knows(pc'[v], att'[v], env', seen', crossed')
  BY <1>1, <1>5, WorkerMoves
<1> QED BY <1>1, <1>6, RowStaysKnown DEF Deltas

\* What the prompt of a resumed session leaves out, the session was given.
LEMMA ResumeKnows ==
  ASSUME IInv, Bridge, Deltas, NEW w \in Worker, Resume(w), att[w].existing \notin crossed'
  PROVE  env[att[w].job].msgs \ Prompt(w, att[w].job, att[w].snap) \subseteq seen[att[w].existing]
<1> USE DEF IInv
<1> DEFINE m == att[w].job
           r == att[w].snap
           c == r.cursor
<1> SUFFICES ASSUME NEW k \in env[m].msgs, k \notin Prompt(w, m, r)
             PROVE  k \in seen[att[w].existing]
  OBVIOUS
<1>1. /\ UsesDelta(w, m, r) /\ Anchored(m, c)
      /\ ~(order[k] > order[c])
  BY DEF Prompt, Full
<1>2. ~Crosses(w, m, r) /\ att[w].existing \notin crossed
  BY DEF Resume
<1>3. /\ m \in Msg /\ env[m].upto > 0 /\ att[w].existing = r.sess
      /\ Active(r) /\ Known(r, env, seen, crossed)
  BY DEF Resume, Deltas, Knows
<1>4. c # None /\ r.gen = env[m].gen /\ c \in env[m].msgs
  BY <1>1 DEF UsesDelta, Anchored
<1>5. /\ c \in Msg /\ Built(c) /\ env[c].gen = env[m].gen
      /\ env[c].msgs \cup {c} \subseteq seen[r.sess]
  BY <1>2, <1>3, <1>4 DEF Known, Built
<1>6. k \in Msg
  BY <1>3 DEF Bridge, Memories, Built, Then
<1>7. ~(order[m] <= env[c].upto)
  BY <1>1, <1>2 DEF Crosses
<1> HIDE DEF m, r, c
<1>8. env[c].upto < order[m]
  <2>1. env[c].upto \in Nat /\ order[m] \in Nat
    BY <1>3, <1>5 DEF TypeOK, Envelope
  <2> QED BY <1>7, <2>1
<1>9. order[k] <= order[c]
  BY <1>1, <1>5, <1>6 DEF TypeOK
<1>10. k \in env[c].msgs \cup {c}
  BY <1>3, <1>4, <1>5, <1>8, <1>9 DEF Bridge, Nested, Built
<1> QED BY <1>3, <1>5, <1>10

\* A worker stops, and the row is not written.
LEMMA StopKeepsDeltas ==
  ASSUME IInv, Deltas, Grows, NEW w \in Worker, Stop(w), Known(row', env', seen', crossed')
  PROVE  Deltas'
<1>1. att' = [att EXCEPT ![w] = NoAttempt] /\ pc' = [pc EXCEPT ![w] = "idle"]
  BY DEF Stop
<1>2. \A v \in Worker : Knows(pc'[v], att'[v], env', seen', crossed')
  BY <1>1, StoppedKnows, WorkerMoves DEF IInv
<1> QED BY <1>2 DEF Deltas

\* What an attempt in progress knows after the step, if it does not move.
LEMMA StillKnows ==
  ASSUME IInv, Deltas, Grows, NEW w \in Worker
  PROVE  Knows(pc[w], att[w], env', seen', crossed')
<1>1. /\ att[w] \in Attempt /\ Knows(pc[w], att[w], env, seen, crossed)
      /\ pc[w] \in {"calling", "saving", "advancing"} => att[w].target \in Ever
  BY DEF IInv, TypeOK, Attempts, Deltas
<1> QED BY <1>1, AttemptGrows DEF IInv

\* Recovering and opening a session send all of the window, resuming one all
\* that it was not given.
LEMMA CallKeepsDeltas ==
  ASSUME IInv, Bridge, Deltas, Grows, NEW w \in Worker, Recover(w) \/ Resume(w) \/ Fresh(w)
  PROVE  Deltas'
<1> USE DEF IInv
<1>1. /\ att[w] \in Attempt /\ pc[w] = "ready" /\ pc' = [pc EXCEPT ![w] = "calling"]
      /\ row' = row /\ env' = env /\ seen' = seen
  BY DEF Recover, Resume, Fresh, Call, bridge, session, store, TypeOK
<1>2. PICK b : /\ att' = [att EXCEPT ![w] = b] /\ b.job = att[w].job
               /\ \/ b.prompt = Full(att[w].job)
                  \/ /\ Resume(w) /\ b.target = att[w].existing
                     /\ b.prompt = Prompt(w, att[w].job, att[w].snap)
  <2>1. CASE Recover(w)
    <3> DEFINE b == [att[w] EXCEPT !.target = rec[att[w].job], !.prompt = Full(att[w].job),
                                  !.existing = None]
    <3>1. att' = [att EXCEPT ![w] = b]
      BY <2>1 DEF Recover, Call
    <3>2. b.job = att[w].job /\ b.prompt = Full(att[w].job)
      BY <1>1 DEF Attempt
    <3> HIDE DEF b
    <3> QED BY <3>1, <3>2
  <2>2. CASE Resume(w)
    <3> DEFINE q == Prompt(w, att[w].job, att[w].snap)
               b == [att[w] EXCEPT !.target = att[w].existing, !.prompt = q]
    <3>1. att' = [att EXCEPT ![w] = b]
      BY <2>2 DEF Resume, Call
    <3> HIDE DEF q
    <3>2. b.job = att[w].job /\ b.prompt = q /\ b.target = att[w].existing
      BY <1>1 DEF Attempt
    <3> HIDE DEF b
    <3> QED BY <2>2, <3>1, <3>2 DEF q
  <2>3. CASE Fresh(w)
    <3> DEFINE b == [att[w] EXCEPT !.target = started', !.prompt = Full(att[w].job)]
    <3>1. att' = [att EXCEPT ![w] = b]
      BY <2>3 DEF Fresh, Call
    <3>2. b.job = att[w].job /\ b.prompt = Full(att[w].job)
      BY <1>1 DEF Attempt
    <3> HIDE DEF b
    <3> QED BY <3>1, <3>2
  <2> QED BY <2>1, <2>2, <2>3
<1>3. Knows(pc[w], att[w], env', seen', crossed')
  BY StillKnows
<1>4. b.target \notin crossed' => env'[b.job].msgs \ b.prompt \subseteq seen'[b.target]
  <2>1. CASE b.prompt = Full(att[w].job)
    BY <1>1, <1>2, <2>1 DEF Full
  <2>2. CASE /\ Resume(w) /\ b.target = att[w].existing
             /\ b.prompt = Prompt(w, att[w].job, att[w].snap)
    BY <1>1, <1>2, <2>2, ResumeKnows
  <2> QED BY <1>2, <2>1, <2>2
<1>5. Knows("calling", b, env', seen', crossed')
  BY <1>1, <1>2, <1>3, <1>4 DEF Knows
<1>6. \A v \in Worker : Knows(pc'[v], att'[v], env', seen', crossed')
  BY <1>1, <1>2, <1>5, WorkerMoves
<1> QED BY <1>1, <1>6, RowStaysKnown DEF Deltas

\* A success gives the session the prompt, with which it has all of the window.
LEMMA SucceedKeepsDeltas ==
  ASSUME IInv, Deltas, Grows, NEW w \in Worker, NEW confirmed \in BOOLEAN,
         Succeed(w, confirmed)
  PROVE  Deltas'
<1> USE DEF IInv
<1>1. /\ row' = row /\ env' = env /\ pc[w] = "calling"
      /\ seen' = [seen EXCEPT ![att[w].target] = @ \cup att[w].prompt]
      /\ Stop(w) \/ (pc' = [pc EXCEPT ![w] = "saving"] /\ att' = att)
  BY DEF Succeed, bridge, store
<1>2. Known(row', env', seen', crossed')
  BY <1>1, RowStaysKnown
<1>3. CASE Stop(w)
  BY <1>2, <1>3, StopKeepsDeltas
<1>4. CASE pc' = [pc EXCEPT ![w] = "saving"] /\ att' = att
  <2>1. att' = [att EXCEPT ![w] = att[w]]
    BY <1>4 DEF TypeOK
  <2>2. Knows(pc[w], att[w], env', seen', crossed')
    BY StillKnows
  <2>3. att[w].target \in Ever /\ att[w].job \in att[w].prompt
    BY <1>1 DEF Attempts
  <2>4. att[w].target \notin crossed'
          => env'[att[w].job].msgs \ att[w].prompt \subseteq seen'[att[w].target]
    BY <1>1, <2>2 DEF Knows
  <2>5. att[w].prompt \subseteq seen'[att[w].target]
    BY <1>1, <2>3 DEF TypeOK
  <2>6. att[w].target \notin crossed'
          => env'[att[w].job].msgs \cup {att[w].job} \subseteq seen'[att[w].target]
    BY <2>3, <2>4, <2>5
  <2>7. Knows("saving", att[w], env', seen', crossed')
    BY <1>1, <2>2, <2>6 DEF Knows
  <2>8. \A v \in Worker : Knows(pc'[v], att'[v], env', seen', crossed')
    BY <1>4, <2>1, <2>7, WorkerMoves
  <2> QED BY <1>2, <2>8 DEF Deltas
<1> QED BY <1>1, <1>3, <1>4

\* After a retirement there is no session to resume.
LEMMA RetireKeepsDeltas ==
  ASSUME IInv, Deltas, Grows, NEW w \in Worker, NEW ok \in BOOLEAN, pc[w] # "idle",
         RetireSession(w, ok), att' = [att EXCEPT ![w] = AfterRetirement(w, ok)],
         pc' = [pc EXCEPT ![w] = "ready"]
  PROVE  Deltas'
<1> USE DEF IInv
<1>1. Knows(pc[w], att[w], env', seen', crossed')
  BY StillKnows
<1>2. AfterRetirement(w, ok).job = att[w].job
  BY AfterRetirementType
<1>3. AfterRetirement(w, ok).existing = None
  BY DEF AfterRetirement, TypeOK, Attempt
<1>4. Knows("ready", AfterRetirement(w, ok), env', seen', crossed')
  BY <1>1, <1>2, <1>3 DEF Knows
<1>5. \A v \in Worker : Knows(pc'[v], att'[v], env', seen', crossed')
  BY <1>4, WorkerMoves
<1> QED BY <1>5, RetiredKnown DEF Deltas

\* A row that keeps its cursor keeps session and generation, another has none.
LEMMA SaveKeepsDeltas ==
  ASSUME IInv, Deltas, Grows, NEW w \in Worker, Save(w)
  PROVE  Deltas'
<1> USE DEF IInv
<1> DEFINE g == IF att[w].context THEN env[att[w].job].gen ELSE NoGen
           r == Upserted(row, att[w].target, env[att[w].job].dir, g)
<1>1. /\ pc[w] = "saving" /\ row' = r /\ env' = env /\ seen' = seen /\ crossed' = crossed
      /\ \/ Stop(w)
         \/ pc' = [pc EXCEPT ![w] = "advancing"] /\ att' = [att EXCEPT ![w].snap = r]
  BY DEF Save, bridge, jobs, session
<1>2. Known(row, env, seen, crossed)
  BY DEF Deltas
<1>3. /\ r.cursor # None => /\ Active(row) /\ r.cursor = row.cursor
                            /\ r.sess = row.sess /\ r.gen = row.gen
  BY DEF Upserted, KeepsCursor
<1> HIDE DEF r
<1>4. Known(r, env, seen, crossed)
  BY <1>2, <1>3 DEF Known
<1>5. Known(row', env', seen', crossed')
  BY <1>1, <1>4
<1>6. CASE Stop(w)
  BY <1>5, <1>6, StopKeepsDeltas
<1>7. CASE pc' = [pc EXCEPT ![w] = "advancing"] /\ att' = [att EXCEPT ![w].snap = r]
  <2>1. PICK b : b = [att[w] EXCEPT !.snap = r]
    OBVIOUS
  <2>2. att' = [att EXCEPT ![w] = b] /\ b.job = att[w].job /\ b.target = att[w].target
    BY <1>7, <2>1 DEF TypeOK, Attempt
  <2>3. Knows(pc[w], att[w], env', seen', crossed')
    BY StillKnows
  <2>4. Knows("advancing", b, env', seen', crossed')
    BY <1>1, <2>2, <2>3 DEF Knows
  <2>5. \A v \in Worker : Knows(pc'[v], att'[v], env', seen', crossed')
    BY <1>7, <2>2, <2>4, WorkerMoves
  <2> QED BY <1>5, <2>5 DEF Deltas
<1> QED BY <1>1, <1>6, <1>7

\* The cursor moves to a message whose window the session was given.
LEMMA AdvanceKeepsDeltas ==
  ASSUME IInv, Deltas, Grows, NEW w \in Worker, Advance(w)
  PROVE  Deltas'
<1> USE DEF IInv
<1> DEFINE m == att[w].job
<1>1. /\ pc[w] = "advancing" /\ row' = Advanced(row, m) /\ Stop(w)
      /\ env' = env /\ seen' = seen /\ crossed' = crossed
      /\ row.sess = att[w].target /\ row.gen = env[m].gen
  BY DEF Advance, CursorMoves, MayAdvance, bridge, jobs, session
<1>2. /\ m \in Msg /\ env[m].upto > 0
      /\ att[w].target \notin crossed => env[m].msgs \cup {m} \subseteq seen[att[w].target]
  BY <1>1 DEF Deltas, Knows
<1>3. row'.cursor = m /\ row'.sess = row.sess /\ row'.gen = row.gen
  <2>1. PICK r \in Row : r = row
    BY DEF TypeOK
  <2>2. Advanced(r, m).cursor = m /\ Advanced(r, m).sess = r.sess /\ Advanced(r, m).gen = r.gen
    BY DEF Advanced, Row
  <2> QED BY <1>1, <2>1, <2>2
<1> HIDE DEF m
<1>4. Known(row', env', seen', crossed')
  BY <1>1, <1>2, <1>3 DEF Known
<1> QED BY <1>1, <1>4, StopKeepsDeltas

\* Every step keeps what is known.
LEMMA DeltasStep == IInv /\ Bridge /\ Deltas /\ [Next]_vars => Deltas'
<1> SUFFICES ASSUME IInv, Bridge, Deltas, [Next]_vars PROVE Deltas'
  OBVIOUS
<1>1. Grows
  BY StepGrows
<1>2. ASSUME UNCHANGED <<pc, att, row>> PROVE Deltas'
  <2>1. \A v \in Worker : Knows(pc'[v], att'[v], env', seen', crossed')
    BY <1>1, <1>2, StillKnows
  <2> QED BY <1>1, <1>2, <2>1, RowStaysKnown DEF Deltas, IInv
<1>3. ASSUME NEW m \in Msg, (\E asks \in BOOLEAN : Record(m, asks)) \/ Ask(m) PROVE Deltas'
  BY <1>2, <1>3 DEF Record, Ask, worker, store
<1>4. ASSUME NEW w \in Worker, NEW m \in Msg, NEW readable \in BOOLEAN, NEW renders \in BOOLEAN,
             Take(w, m, readable, renders)
      PROVE  Deltas'
  BY <1>1, <1>4, TakeKnows
<1>5. ASSUME NEW w \in Worker, Recover(w) \/ Resume(w) \/ Fresh(w) PROVE Deltas'
  BY <1>1, <1>5, CallKeepsDeltas
<1>6. ASSUME NEW w \in Worker, NEW confirmed \in BOOLEAN, Succeed(w, confirmed) PROVE Deltas'
  BY <1>1, <1>6, SucceedKeepsDeltas
<1>7. ASSUME NEW w \in Worker, row' = row, Stop(w) PROVE Deltas'
  BY <1>1, <1>7, RowStaysKnown, StopKeepsDeltas DEF IInv
<1>8. ASSUME NEW w \in Worker,
             Fail(w) \/ SaveFails(w) \/ \E crash, evidence \in BOOLEAN : Lose(w, crash, evidence)
      PROVE  Deltas'
  BY <1>7, <1>8 DEF Fail, SaveFails, Lose, store
<1>9. ASSUME NEW w \in Worker, NEW ok \in BOOLEAN, RetireMoved(w, ok) PROVE Deltas'
  <2>1. pc' = [pc EXCEPT ![w] = "ready"]
    BY <1>9 DEF RetireMoved, IInv, TypeOK
  <2> QED BY <1>1, <1>9, <2>1, RetireKeepsDeltas DEF RetireMoved
<1>10. ASSUME NEW w \in Worker, NEW ok \in BOOLEAN, ResumeFails(w, ok) PROVE Deltas'
  <2>1. CASE Stop(w)
    BY <1>1, <1>10, <2>1, RetiredKnown, StopKeepsDeltas DEF ResumeFails, IInv
  <2>2. CASE ~Stop(w)
    BY <1>1, <1>10, <2>2, RetireKeepsDeltas DEF ResumeFails
  <2> QED BY <2>1, <2>2
<1>11. ASSUME NEW w \in Worker, Save(w) PROVE Deltas'
  BY <1>1, <1>11, SaveKeepsDeltas
<1>12. ASSUME NEW w \in Worker, Advance(w) PROVE Deltas'
  BY <1>1, <1>12, AdvanceKeepsDeltas
<1> QED BY <1>2, <1>3, <1>4, <1>5, <1>6, <1>8, <1>9, <1>10, <1>11, <1>12
           DEF Next, vars, worker, store

\* There is no envelope, no attempt and no row at first.
LEMMA DeltasInitially == Init => Bridge /\ Deltas
<1> SUFFICES ASSUME Init PROVE Bridge /\ Deltas
  OBVIOUS
<1>1. \A m \in Msg : env[m].upto = 0 /\ order[m] = 0 /\ job[m] = "none"
  BY DEF Init, NoEnv
<1>2. Numbering
  <2>1. Stored \in SUBSET Msg
    BY DEF Stored
  <2>2. Cardinality(Stored) >= 0
    BY <2>1, Sizes
  <2>3. \A m \in Msg : ~Built(m)
    BY <1>1 DEF Built
  <2> QED BY <1>1, <2>2, <2>3 DEF Numbering
<1>3. Memories /\ Nested
  BY <1>1 DEF Memories, Nested, Built
<1>4. Deltas
  BY DEF Init, Deltas, Known, Knows, NoRow, Active
<1> QED BY <1>2, <1>3, <1>4 DEF Bridge

\* A delta leaves out only what the session was given, unless a question was
\* recorded before the envelope of the cursor's message was built: delta_prompt
\* and messages_after_cursor with windows of any size and any character budget,
\* jobs claimed in any order, restarts, retirements and lost results.
THEOREM DeltaLeavesNoHoles == Spec => []DeltaOmitsOnlySeen
<1>1. Init => Bridge /\ Deltas
  BY DeltasInitially
<1>2. IInv /\ Bridge /\ Deltas /\ [Next]_vars => Bridge' /\ Deltas'
  BY BridgeStep, DeltasStep
<1>3. IInv /\ Deltas => DeltaOmitsOnlySeen
  BY DEF Deltas, Knows, DeltaOmitsOnlySeen
<1> QED
  BY <1>1, <1>2, <1>3, Invariant, PTL DEF Spec
=============================================================================
