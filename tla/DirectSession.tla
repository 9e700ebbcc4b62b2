---------------------------- MODULE DirectSession ----------------------------
(***************************************************************************)
(* The provider session of one channel and one agent in the modes without  *)
(* Coordinate: the bridge that calls its adapter itself                    *)
(* (_run_adapter_for_scope) and the standalone daemon (AgentDaemon).  Both  *)
(* keep the session in SessionStore under the channel's scope, after an    *)
(* upgrade under its legacy scope, and write it without compare-and-set.   *)
(* The daemon serves one request at a time; the bridge serves every        *)
(* message in a task of its own and has the operator's reset command.      *)
(***************************************************************************)
EXTENDS Naturals

CONSTANTS DirectRequests,  \* messages addressed to the agent in the channel
          DirectDirs,      \* work directories
          DirectSessions   \* bound: sessions the provider opens

ASSUME DirectConstants == DirectSessions \in Nat \ {0}

VARIABLES
  dSerial,   \* TRUE for the daemon and its lock, FALSE for the bridge
  dDir,      \* work_dir of the configuration of this process
  dRow,      \* the rows of the canonical and the legacy scope
  dReq,      \* the requests
  dOpened,   \* sessions the provider opened
  dDead,     \* history: sessions a resume failed with
  dReset,    \* history: sessions the operator was told are reset
  dTorn      \* history: a crash came between the two writes of a save

directVars == <<dSerial, dDir, dRow, dReq, dOpened, dDead, dReset, dTorn>>

DirectScopes == {"channel", "legacy"}
NoSession == 0
DirectPc == {"idle", "resume", "call", "done"}
DirectRow == [sess : Nat, dir : DirectDirs, active : BOOLEAN]
DirectRequest == [pc : DirectPc, sess : Nat, scope : DirectScopes, dir : DirectDirs,
                  resets : SUBSET Nat]

DirectTypeOK ==
  /\ dSerial \in BOOLEAN /\ dDir \in DirectDirs
  /\ dRow \in [DirectScopes -> DirectRow]
  /\ dReq \in [DirectRequests -> DirectRequest]
  /\ dOpened \in 0..DirectSessions
  /\ dDead \in SUBSET Nat /\ dReset \in SUBSET Nat /\ dTorn \in BOOLEAN

\* A store that was upgraded may hold a session under the legacy scope.
DirectInit ==
  /\ dSerial \in BOOLEAN
  /\ dDir \in DirectDirs
  /\ \E d \in DirectDirs, upgraded \in BOOLEAN :
       dRow = [s \in DirectScopes |->
                 [sess |-> IF s = "legacy" /\ upgraded THEN 1 ELSE NoSession,
                  dir |-> d, active |-> s = "legacy" /\ upgraded]]
  /\ dReq = [r \in DirectRequests |->
               [pc |-> "idle", sess |-> NoSession, scope |-> "channel", dir |-> dDir,
                resets |-> {}]]
  /\ dOpened = 1 /\ dDead = {} /\ dReset = {} /\ dTorn = FALSE

\* get_first_active: the scopes in order.
CurrentScope == IF dRow["channel"].active THEN "channel" ELSE "legacy"
HasSession == dRow[CurrentScope].active

\* mark_stale names the scope and not the session.
MarkedStale(rows, s) == [rows EXCEPT ![s].active = FALSE]

\* upsert without expected_session: whatever the row holds is replaced.
Upserted(rows, sess, d) ==
  [rows EXCEPT !["channel"] = [sess |-> sess, dir |-> d, active |-> TRUE]]

\* Mutant: the daemon forgets its lock.
MayBegin_NoLock == TRUE

\* The daemon's lock around _run_adapter; the bridge has none.
MayBegin == dSerial => \A r \in DirectRequests : dReq[r].pc \in {"idle", "done"}

\* A request reads the session; one of another work_dir is retired.
DirectBegin(r, d) ==
  /\ dReq[r].pc = "idle" /\ MayBegin
  /\ d = dDir \/ dSerial
  /\ LET fits == HasSession /\ dRow[CurrentScope].dir = d
     IN /\ dReq' = [dReq EXCEPT ![r] =
             [pc |-> IF fits THEN "resume" ELSE "call",
              sess |-> IF fits THEN dRow[CurrentScope].sess ELSE NoSession,
              scope |-> CurrentScope, dir |-> d, resets |-> dReset]]
        /\ dRow' = IF HasSession /\ ~fits THEN MarkedStale(dRow, CurrentScope) ELSE dRow
  /\ UNCHANGED <<dSerial, dDir, dOpened, dDead, dReset, dTorn>>

Settled(r) == dReq' = [dReq EXCEPT ![r].pc = "done"]

\* Persist session: upsert the canonical scope, then retire the legacy one the
\* session came from.
SavedRow(r, sess) ==
  LET saved == Upserted(dRow, sess, dReq[r].dir)
  IN IF dReq[r].pc = "resume" /\ dReq[r].scope # "channel"
     THEN MarkedStale(saved, dReq[r].scope) ELSE saved

\* The resume succeeds and the session is saved again.
DirectResumed(r) ==
  /\ dReq[r].pc = "resume"
  /\ dRow' = SavedRow(r, dReq[r].sess)
  /\ Settled(r)
  /\ UNCHANGED <<dSerial, dDir, dOpened, dDead, dReset, dTorn>>

\* Mutant: a failed resume leaves its session id in the result, and the
\* persistence below saves it.
RowAfterFailure_SavesResult(r) == Upserted(dRow, dReq[r].sess, dReq[r].dir)

\* Mutant: a failed resume keeps the row.
RowAfterFailure_Kept(r) == dRow

\* A resume that does not succeed retires the row of its scope; the result is
\* stripped of the session id, so that nothing reactivates it.
RowAfterFailure(r) == MarkedStale(dRow, dReq[r].scope)

\* The resume fails: a fresh call follows unless the adapter or an internal
\* error forbids it.
DirectResumeFailed(r, fallback) ==
  /\ dReq[r].pc = "resume"
  /\ dRow' = RowAfterFailure(r)
  /\ dDead' = dDead \cup {dReq[r].sess}
  /\ dReq' = [dReq EXCEPT ![r].pc = IF fallback THEN "call" ELSE "done"]
  /\ UNCHANGED <<dSerial, dDir, dOpened, dReset, dTorn>>

\* A fresh call answers, with a session of its own that is saved.
DirectCalled(r) ==
  /\ dReq[r].pc = "call" /\ dOpened < DirectSessions
  /\ dOpened' = dOpened + 1
  /\ dRow' = SavedRow(r, dOpened + 1)
  /\ Settled(r)
  /\ UNCHANGED <<dSerial, dDir, dDead, dReset, dTorn>>

\* A timeout, an exception or a result without a session saves nothing.
DirectNoResult(r) ==
  /\ dReq[r].pc \in {"resume", "call"}
  /\ Settled(r)
  /\ UNCHANGED <<dSerial, dDir, dRow, dOpened, dDead, dReset, dTorn>>

\* session reset, by chat command or slash command.
DirectReset ==
  /\ ~dSerial /\ HasSession
  /\ dReset' = dReset \cup {dRow[CurrentScope].sess}
  /\ dRow' = MarkedStale(dRow, CurrentScope)
  /\ UNCHANGED <<dSerial, dDir, dReq, dOpened, dDead, dTorn>>

\* The process restarts, perhaps with another configuration.
DirectCrash(d) ==
  /\ dDir' = d
  /\ dReq' = [r \in DirectRequests |->
                IF dReq[r].pc = "idle" THEN dReq[r] ELSE [dReq[r] EXCEPT !.pc = "done"]]
  /\ UNCHANGED <<dSerial, dRow, dOpened, dDead, dReset, dTorn>>

\* The crash comes after the upsert and before the legacy scope is retired.
DirectTornSave(r) ==
  /\ dReq[r].pc = "resume" /\ dReq[r].scope = "legacy"
  /\ dRow' = Upserted(dRow, dReq[r].sess, dReq[r].dir)
  /\ dTorn' = TRUE
  /\ dReq' = [q \in DirectRequests |->
                IF dReq[q].pc = "idle" THEN dReq[q] ELSE [dReq[q] EXCEPT !.pc = "done"]]
  /\ UNCHANGED <<dSerial, dDir, dOpened, dDead, dReset>>

DirectNext ==
  \/ \E r \in DirectRequests :
       \/ \E d \in DirectDirs : DirectBegin(r, d)
       \/ DirectResumed(r)
       \/ \E fallback \in BOOLEAN : DirectResumeFailed(r, fallback)
       \/ DirectCalled(r)
       \/ DirectNoResult(r)
       \/ DirectTornSave(r)
  \/ DirectReset
  \/ \E d \in DirectDirs : DirectCrash(d)

DirectSpec == DirectInit /\ [][DirectNext]_directVars

----------------------------------------------------------------------------
\* In the daemon a session that failed to resume is never tried again: neither
\* the saving of a later result nor the legacy scope brings it back.  Two
\* concurrent requests of the bridge may legitimately do so, and a crash inside
\* a save leaves the session under both scopes.
DeadNotResumed ==
  dSerial /\ ~dTorn =>
    \A s \in DirectScopes : dRow[s].active => dRow[s].sess \notin dDead

\* What the reset command answers: the next call starts a new session.
\* It does not hold in the bridge: a request that was in flight saves its session
\* after the reset.
ResetStartsFresh ==
  ~dTorn => \A r \in DirectRequests :
    dReq[r].pc = "resume" => dReq[r].sess \notin dReq[r].resets
=============================================================================
