--------------------------- MODULE SessionContext ---------------------------
(***************************************************************************)
(* How a conversation reaches a provider session: one managed channel, one *)
(* agent.  The bridge records messages (context/store.py), and for a       *)
(* message addressed to the agent it builds a context envelope (a window   *)
(* of the recent messages) and submits a job.  A worker process resumes    *)
(* the session of the channel's row and sends it only the messages after   *)
(* the row's cursor (the delta), or all of the window when in doubt; after *)
(* a confirmed report it saves session and cursor by compare-and-set.      *)
(*                                                                         *)
(* Messages are numbered by created_at.  A message keeps its rowid: the    *)
(* only deletions while bridges run are by age (record_message), and the   *)
(* last row is never the oldest.  context_ttl_seconds is not raised, so what *)
(* has expired stays so.  The bridges pass no legacy scopes in managed     *)
(* mode, so there is one row.  Worker processes of an agent may *)
(* overlap (AgentdWorker); a job is at one of them at a time.              *)
(***************************************************************************)
EXTENDS SessionRow, FiniteSets

CONSTANTS
  Worker, Msg,
  Window,      \* by generation: context_recent_messages, 0 if a limit is not positive
  Fits,        \* by generation: the sets of messages within context_budget_chars
  MaxSession,  \* bound: provider sessions
  MaxUpset     \* bound: changes of the configuration, expiries, failures of the
               \* store, the provider, a report or a worker

ASSUME ModelAssumption ==
  /\ Msg \subseteq Nat \ {0} /\ IsFiniteSet(Msg)
  /\ Window \in [Gen -> Nat]
  /\ MaxSession \in Nat /\ MaxUpset \in Nat

\* Every line has a length, so what fits still fits without one of its lines.
ASSUME FitsAssumption ==
  /\ Fits \in [Gen -> SUBSET SUBSET Msg]
  /\ \A g \in Gen : \A S \in Fits[g] : SUBSET S \subseteq Fits[g]

VARIABLES
  order,    \* rowid of a message in the context store, 0 before it has one
  horizon,  \* messages before this one have expired (context_ttl_seconds)
  config,   \* at the last envelope: the generation of the bridge's configuration,
            \* the directory that Coordinate has for the workspace
  job,      \* by the message that asked: none, asked, queued, taken, lost, done
  env,      \* its envelope and claim: gen, dir, msgs, upto (the youngest rowid then)
  rec,      \* the session that a lost attempt left at Coordinate, or None
  row,      \* the session row
  pc,       \* where a worker is
  att,      \* its attempt
  mem,      \* its _context_sessions entry
  started,  \* sessions the provider has opened so far
  seen,     \* history: messages each session was given
  crossed,  \* history: sessions that were sent a delta after a message whose
            \* envelope is younger than the question
  retired,  \* history: retirements of the row
  basis,    \* history: retirements when the writer of the row had read it
  upsets    \* bound: changes, expiries and failures so far

bridge  == <<order, horizon, config, env>>
jobs    == <<job, rec>>
worker  == <<pc, att, mem>>
session == <<started, seen, crossed>>
store   == <<row, retired, basis>>
vars    == <<bridge, jobs, worker, session, store, upsets>>

NoMem == [sess |-> None, gen |-> NoGen]
Ever  == 1..MaxSession
Count(p) == IF p THEN 1 ELSE 0
Upset(n) == upsets' = upsets + n /\ upsets' <= MaxUpset

Envelope == [gen : Gen \cup {NoGen}, dir : Dir \cup {NoDir}, msgs : SUBSET Msg,
             upto : Nat]
NoEnv == [gen |-> NoGen, dir |-> NoDir, msgs |-> {}, upto |-> 0]

\* _SessionAttempt and the locals of _process_job: the job, the row as read,
\* whether it may be written, whether the envelope is used, the session to
\* resume, the one that was called, its prompt, and retired at the reading.
Attempt == [job : Msg \cup {None}, snap : Row, writable : BOOLEAN, context : BOOLEAN,
            existing : Ever \cup {None}, target : Ever \cup {None},
            prompt : SUBSET Msg, basis : Nat]
Busy == {"ready", "calling", "saving", "advancing"}
NoAttempt == [job |-> None, snap |-> NoRow, writable |-> FALSE, context |-> FALSE,
              existing |-> None, target |-> None, prompt |-> {}, basis |-> 0]

Init ==
  /\ order = [m \in Msg |-> 0] /\ horizon = 1
  /\ config \in [gen : Gen, dir : Dir]
  /\ job = [m \in Msg |-> "none"] /\ rec = [m \in Msg |-> None] /\ upsets = 0
  /\ env = [m \in Msg |-> NoEnv]
  /\ row = NoRow /\ retired = 0 /\ basis = 0
  /\ pc = [w \in Worker |-> "idle"] /\ att = [w \in Worker |-> NoAttempt]
  /\ mem = [w \in Worker |-> NoMem]
  /\ started = 0 /\ seen = [s \in Ever |-> {}] /\ crossed = {}

-----------------------------------------------------------------------------
(* The bridge.                                                             *)

Stored == {m \in Msg : order[m] # 0}

\* record_message.  asks: the message is addressed to the agent.
Record(m, asks) ==
  /\ order[m] = 0
  /\ order' = [order EXCEPT ![m] = Cardinality(Stored) + 1]
  /\ job' = [job EXCEPT ![m] = IF asks THEN "asked" ELSE "none"]
  /\ UNCHANGED <<horizon, config, env, rec, worker, session, store, upsets>>

\* recent_messages: from the youngest that has not expired, without the
\* current, until there are enough or the next does not fit; the first is
\* taken whatever its length.
Recent(m, g, limit) ==
  {k \in Stored \ {m} : k >= limit
     /\ LET after == {l \in Stored \ {m} : l > k} IN
        /\ Cardinality(after) < Window[g]
        /\ after = {} \/ after \cup {k} \in Fits[g]}

Built(m) == env[m].upto > 0

\* build_agent_prompt_with_context, some time after the message was recorded
\* (the placeholder is sent in between) and others may have expired; then
\* the job is submitted.  The operator may have changed the bridge's
\* configuration or moved the workspace since the last one.
Ask(m) ==
  /\ job[m] = "asked"
  /\ config' \in [gen : Gen, dir : Dir]
  /\ \E limit \in {horizon} \cup horizon..m :
       /\ horizon' = limit
       /\ Upset(Count(config'.gen # config.gen) + Count(config'.dir # config.dir)
                + Count(limit # horizon))
       /\ env' = [env EXCEPT ![m] =
            [gen |-> config'.gen, dir |-> config'.dir,
             msgs |-> Recent(m, config'.gen, limit), upto |-> Cardinality(Stored)]]
  /\ job' = [job EXCEPT ![m] = "queued"]
  /\ UNCHANGED <<order, rec, worker, session, store>>

-----------------------------------------------------------------------------
(* The worker.                                                             *)

\* Mutant: the attempt's locals outlive it.
Stop_KeepsAttempt(w) == pc' = [pc EXCEPT ![w] = "idle"] /\ UNCHANGED att

Stop(w) ==
  /\ pc' = [pc EXCEPT ![w] = "idle"]
  /\ att' = [att EXCEPT ![w] = NoAttempt]

Full(m) == env[m].msgs \cup {m}

\* messages_after_cursor: the cursor's message is in the window.
Anchored(m, cursor) == cursor \in env[m].msgs

\* Mutant: the generation of the row is not compared.
UsesDelta_AnyGen(w, m, r) ==
  att[w].context /\ mem[w].sess = r.sess /\ r.cursor # None

\* _call_or_resume: this process put the session's cursor there, for the
\* same generation, and the row agrees.
UsesDelta(w, m, r) ==
  /\ att[w].context
  /\ mem[w] = [sess |-> r.sess, gen |-> env[m].gen]
  /\ r.gen = env[m].gen /\ r.cursor # None

\* The prompt for the resumed session.
Prompt(w, m, r) ==
  IF UsesDelta(w, m, r) /\ Anchored(m, r.cursor)
  THEN {n \in env[m].msgs : order[n] > order[r.cursor]} \cup {m}
  ELSE Full(m)

\* The question was recorded before the envelope of the cursor's message was
\* built: the two windows need not be nested.
Crosses(w, m, r) ==
  UsesDelta(w, m, r) /\ Anchored(m, r.cursor) /\ order[m] <= env[r.cursor].upto

\* The claim of a job and what _process_job reads before the provider runs.
\* The envelope is dropped when the worker renders it differently, and with
\* the row when the store fails.
Take(w, m, readable, renders) ==
  /\ pc[w] = "idle" /\ job[m] \in {"queued", "lost"}
  /\ job' = [job EXCEPT ![m] = "taken"]
  /\ pc' = [pc EXCEPT ![w] = "ready"]
  /\ att' = [att EXCEPT ![w] =
       [job |-> m, snap |-> IF readable THEN row ELSE NoRow,
        writable |-> readable, context |-> readable /\ renders,
        existing |-> IF readable /\ Active(row) THEN row.sess ELSE None,
        target |-> None, prompt |-> {}, basis |-> retired]]
  /\ Upset(Count(~readable) + Count(~renders))
  /\ UNCHANGED <<bridge, rec, mem, session, store>>

\* _session_matches_expected in mark_stale.
MayRetire(w) == row = att[w].snap

\* _retire_session.  The comparison may lose, or the store fail: then the
\* attempt must not write the row.
RetireSession(w, ok) ==
  /\ mem' = [mem EXCEPT ![w] = NoMem]
  /\ IF ok THEN /\ MayRetire(w)
                /\ row' = Retired(row) /\ retired' = retired + 1
                /\ UNCHANGED basis
           ELSE UNCHANGED store

\* Not a lost comparison, but the store that fails.
StoreFails(w, ok) == Count(~ok /\ MayRetire(w))

\* What the attempt knows then.
AfterRetirement(w, ok) ==
  IF ok THEN [att[w] EXCEPT !.existing = None, !.snap = Retired(row), !.basis = retired + 1,
                            !.target = None, !.prompt = {}]
        ELSE [att[w] EXCEPT !.existing = None, !.writable = FALSE]

Moved(w) == att[w].existing # None /\ att[w].snap.dir # env[att[w].job].dir

\* The session lives in another directory.
RetireMoved(w, ok) ==
  /\ pc[w] = "ready" /\ Moved(w)
  /\ RetireSession(w, ok)
  /\ att' = [att EXCEPT ![w] = AfterRetirement(w, ok)]
  /\ Upset(StoreFails(w, ok))
  /\ UNCHANGED <<bridge, jobs, pc, session>>

Call(w, a) ==
  /\ att' = [att EXCEPT ![w] = a]
  /\ pc' = [pc EXCEPT ![w] = "calling"]

\* A session left by a lost attempt is resumed before anything else.
Recover(w) ==
  LET m == att[w].job IN
  /\ pc[w] = "ready" /\ ~Moved(w) /\ rec[m] # None
  /\ Call(w, [att[w] EXCEPT !.target = rec[m], !.prompt = Full(m), !.existing = None])
  /\ UNCHANGED <<bridge, jobs, mem, session, store, upsets>>

Resume(w) ==
  LET m == att[w].job IN
  /\ pc[w] = "ready" /\ ~Moved(w) /\ rec[m] = None /\ att[w].existing # None
  /\ Call(w, [att[w] EXCEPT !.target = att[w].existing, !.prompt = Prompt(w, m, att[w].snap)])
  /\ crossed' = IF Crosses(w, m, att[w].snap) THEN crossed \cup {att[w].existing} ELSE crossed
  /\ UNCHANGED <<bridge, jobs, mem, started, seen, store, upsets>>

Fresh(w) ==
  LET m == att[w].job IN
  /\ pc[w] = "ready" /\ rec[m] = None /\ att[w].existing = None
  /\ started < MaxSession /\ started' = started + 1
  /\ Call(w, [att[w] EXCEPT !.target = started', !.prompt = Full(m)])
  /\ UNCHANGED <<bridge, jobs, mem, seen, crossed, store, upsets>>

\* The provider succeeds.  The report is confirmed, or the result is left
\* alone (AgentdWorker).
Succeed(w, confirmed) ==
  /\ pc[w] = "calling"
  /\ seen' = [seen EXCEPT ![att[w].target] = @ \cup att[w].prompt]
  /\ IF confirmed /\ att[w].writable
     THEN pc' = [pc EXCEPT ![w] = "saving"] /\ UNCHANGED att ELSE Stop(w)
  /\ job' = [job EXCEPT ![att[w].job] = "done"]
  /\ Upset(Count(~confirmed))
  /\ UNCHANGED <<bridge, rec, mem, started, crossed, store>>

\* The provider fails.  Nothing is saved.
Fail(w) ==
  /\ pc[w] = "calling" /\ att[w].existing = None
  /\ Stop(w)
  /\ job' = [job EXCEPT ![att[w].job] = "done"]
  /\ Upset(1)
  /\ UNCHANGED <<bridge, rec, mem, session, store>>

\* A resume fails: the session is retired, and if that was this attempt's
\* doing, and the adapter and the error allow it, a fresh one is called.
ResumeFails(w, ok) ==
  /\ pc[w] = "calling" /\ att[w].existing # None
  /\ RetireSession(w, ok)
  /\ \/ /\ ok /\ pc' = [pc EXCEPT ![w] = "ready"]
        /\ att' = [att EXCEPT ![w] = AfterRetirement(w, ok)]
        /\ UNCHANGED job
     \/ /\ Stop(w)
        /\ job' = [job EXCEPT ![att[w].job] = "done"]
  /\ Upset(1 + StoreFails(w, ok))
  /\ UNCHANGED <<bridge, rec, session>>

\* Mutant: the row is written whatever became of it.
MaySave_Always(w) == TRUE

\* _session_matches_expected in upsert.
MaySave(w) == row = att[w].snap

\* _persist_session_result, first transaction.  A lost comparison, or a
\* failing store, leaves the row alone.
Save(w) ==
  LET a == att[w]
      e == env[a.job]
      r == Upserted(row, a.target, e.dir, IF a.context THEN e.gen ELSE NoGen)
  IN
  /\ pc[w] = "saving"
  /\ MaySave(w)
  /\ row' = r /\ basis' = a.basis
  /\ IF a.context
     THEN /\ pc' = [pc EXCEPT ![w] = "advancing"]
          /\ att' = [att EXCEPT ![w].snap = r]
     ELSE Stop(w)
  /\ UNCHANGED <<bridge, jobs, mem, session, retired, upsets>>

\* The row is as the attempt saved it.
CursorMoves(w) ==
  LET a == att[w] IN
  /\ row = a.snap
  /\ MayAdvance(row, a.target, env[a.job].gen, a.snap.cursor, order, a.job)

\* Second transaction: the cursor.
Advance(w) ==
  LET a == att[w] IN
  /\ pc[w] = "advancing"
  /\ CursorMoves(w)
  /\ row' = Advanced(row, a.job)
  /\ mem' = [mem EXCEPT ![w] = [sess |-> a.target, gen |-> env[a.job].gen]]
  /\ Stop(w)
  /\ UNCHANGED <<bridge, jobs, session, retired, basis, upsets>>

\* The comparison fails (the entry in memory stays), the store does, or the
\* process crashes.
SaveFails(w) ==
  /\ pc[w] \in {"saving", "advancing"}
  /\ mem' \in {mem, [mem EXCEPT ![w] = NoMem]}
  /\ Stop(w)
  /\ Upset(Count(\/ mem' # mem
                 \/ pc[w] = "saving" /\ MaySave(w)
                 \/ pc[w] = "advancing" /\ CursorMoves(w)))
  /\ UNCHANGED <<bridge, jobs, session, store>>

\* The lease is lost, or the process crashes and is started again.  The
\* provider may have reported its session, and a recovery worker may claim
\* the job.
Lose(w, crash, evidence) ==
  /\ pc[w] \in {"ready", "calling"}
  /\ Stop(w)
  /\ mem' = IF crash THEN [mem EXCEPT ![w] = NoMem] ELSE mem
  /\ job' = [job EXCEPT ![att[w].job] = "lost"]
  /\ rec' = IF evidence /\ att[w].target # None
            THEN [rec EXCEPT ![att[w].job] = att[w].target] ELSE rec
  /\ Upset(1)
  /\ UNCHANGED <<bridge, session, store>>

Next ==
  \/ \E m \in Msg, asks \in BOOLEAN : Record(m, asks)
  \/ \E m \in Msg : Ask(m)
  \/ \E w \in Worker :
       \/ \E m \in Msg, readable, renders \in BOOLEAN : Take(w, m, readable, renders)
       \/ Recover(w) \/ Resume(w) \/ Fresh(w)
       \/ \E confirmed \in BOOLEAN : Succeed(w, confirmed)
       \/ Fail(w)
       \/ \E ok \in BOOLEAN : RetireMoved(w, ok) \/ ResumeFails(w, ok)
       \/ Save(w) \/ Advance(w) \/ SaveFails(w)
       \/ \E crash, evidence \in BOOLEAN : Lose(w, crash, evidence)

Spec == Init /\ [][Next]_vars

-----------------------------------------------------------------------------
\* The variables have their types, and a worker's attempt is one of its job.
TypeOK ==
  /\ order \in [Msg -> Nat] /\ horizon \in Nat
  /\ config \in [gen : Gen, dir : Dir]
  /\ job \in [Msg -> {"none", "asked", "queued", "taken", "lost", "done"}]
  /\ env \in [Msg -> Envelope]
  /\ rec \in [Msg -> Ever \cup {None}] /\ upsets \in 0..MaxUpset
  /\ row \in Row /\ retired \in Nat /\ basis \in Nat
  /\ pc \in [Worker -> {"idle"} \cup Busy]
  /\ att \in [Worker -> Attempt]
  /\ mem \in [Worker -> [sess : Ever \cup {None}, gen : Gen \cup {NoGen}]]
  /\ started \in 0..MaxSession /\ seen \in [Ever -> SUBSET Msg] /\ crossed \subseteq Ever
  /\ \A w \in Worker :
       /\ pc[w] = "idle" <=> att[w] = NoAttempt
       /\ pc[w] \in {"ready", "calling"} => job[att[w].job] = "taken"

\* The cursor of an active row is a message that the row's session was given:
\* what is left out later, on the strength of the cursor, starts from there.
CursorWasSeen ==
  Active(row) /\ row.cursor # None => row.cursor \in seen[row.sess]

\* A retired session does not come back through an attempt that had read the
\* row before: an active row was written by an attempt that knew of the last
\* retirement (_session_matches_expected: absence or a row as read is "not
\* permission to reactivate a row another attempt retired").
RetirementHolds == Active(row) => basis = retired

\* A delta leaves out only messages that the session has been given, so the
\* provider's conversation has no holes (delta_prompt, messages_after_cursor),
\* if each question was recorded after the envelope of the cursor's message was
\* built.  Otherwise the code may leave a hole: the older window already shows
\* the younger question, which took the room of what the delta then omits.
DeltaOmitsOnlySeen ==
  \A w \in Worker : pc[w] = "calling" /\ att[w].target \notin crossed =>
    env[att[w].job].msgs \ att[w].prompt \subseteq seen[att[w].target]

\* While a session is the row's, its cursor never goes back, whatever the
\* order in which results arrive.
CursorNeverBack ==
  [][Active(row) /\ Active(row') /\ row'.sess = row.sess
       /\ row.cursor # None /\ row'.cursor # None
     => order[row.cursor] <= order[row'.cursor]]_vars
=============================================================================
