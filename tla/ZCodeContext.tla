---------------------------- MODULE ZCodeContext ----------------------------
(***************************************************************************)
(* The private contexts of the native ZCode transport: one directory per   *)
(* session with the provider's configuration, an .active claim, and a      *)
(* locator from the session to its directory.  Invocations of several      *)
(* workers may ask for the same session; the worker process may die at any *)
(* step, the native process it started may survive it, and every file      *)
(* operation and the termination of the native process may fail.           *)
(***************************************************************************)
CONSTANTS ZRuns,     \* invocations; a fresh one owns the context of its name
          NoClaim    \* the directory has no .active file

ASSUME ZContextConstants == NoClaim \notin ZRuns

VARIABLES
  zRun,      \* the invocations
  zClaim,    \* the token in the .active file of each context
  zConfig,   \* the files with the credential in each context
  zLocator,  \* the session of the context has a locator
  zNative,   \* native processes alive, by invocation
  zSurvived  \* history: the invocations that could not stop their process

zContextVars == <<zRun, zClaim, zConfig, zLocator, zNative, zSurvived>>

ZPc == {"idle", "claim", "config", "writing", "intact", "spawn", "bind", "turn", "stop",
        "undo", "undoclaim", "close", "unclaim", "done", "dead"}
ZRun == [pc : ZPc, ctx : ZRuns]

\* The configuration, the temporary file _atomic_json writes first, and one whose
\* removal failed.
ZFiles == {"file", "temporary", "leftover"}

ZContextTypeOK ==
  /\ zRun \in [ZRuns -> ZRun]
  /\ zClaim \in [ZRuns -> ZRuns \cup {NoClaim}]
  /\ zConfig \in [ZRuns -> SUBSET ZFiles]
  /\ zLocator \in [ZRuns -> BOOLEAN]
  /\ zNative \in SUBSET ZRuns /\ zSurvived \in SUBSET ZRuns

ZContextInit ==
  /\ zRun = [r \in ZRuns |-> [pc |-> "idle", ctx |-> r]]
  /\ zClaim = [c \in ZRuns |-> NoClaim]
  /\ zConfig = [c \in ZRuns |-> {}]
  /\ zLocator = [c \in ZRuns |-> FALSE]
  /\ zNative = {} /\ zSurvived = {}

ZAt(r, pc) == zRun[r].pc = pc
ZGo(r, pc) == zRun' = [zRun EXCEPT ![r].pc = pc]
Ctx(r) == zRun[r].ctx

\* prepare_context: a fresh context, or that of the session's locator; a provider,
\* a workspace or a directory that is not as it should be is refused before
\* anything is claimed.
Prepare(r, c, fits) ==
  /\ ZAt(r, "idle")
  /\ c = r \/ zLocator[c]
  /\ zRun' = [zRun EXCEPT ![r] = [pc |-> IF fits THEN "claim" ELSE "done", ctx |-> c]]
  /\ UNCHANGED <<zClaim, zConfig, zLocator, zNative, zSurvived>>

\* Mutant: the claim file is opened without O_EXCL.
ClaimFree_Always(c) == TRUE

\* _claim: the file is created exclusively.
ClaimFree(c) == zClaim[c] = NoClaim

\* A claim that was created and cannot be written or made private stays.
Claim(r, ok) ==
  /\ ZAt(r, "claim")
  /\ IF ClaimFree(Ctx(r))
     THEN /\ zClaim' = [zClaim EXCEPT ![Ctx(r)] = r]
          /\ ZGo(r, IF ok THEN "config" ELSE "done")
     ELSE ZGo(r, "done") /\ UNCHANGED zClaim
  /\ UNCHANGED <<zConfig, zLocator, zNative, zSurvived>>

\* _atomic_json opens the temporary file of the configuration under the claim.
OpenTemporary(r, ok) ==
  /\ ZAt(r, "config")
  /\ zConfig' = IF ok THEN [zConfig EXCEPT ![Ctx(r)] = @ \cup {"temporary"}] ELSE zConfig
  /\ ZGo(r, IF ok THEN "writing" ELSE "undo")
  /\ UNCHANGED <<zClaim, zLocator, zNative, zSurvived>>

\* It becomes the configuration, or it is removed, or it cannot be removed; a
\* failure, which may come after os.replace, goes to the error path.
WriteConfig(r, ok) ==
  /\ ZAt(r, "writing")
  /\ \E new \in IF ok THEN {{"file"}} ELSE {{}, {"file"}, {"leftover"}} :
       zConfig' = [zConfig EXCEPT ![Ctx(r)] = (@ \ {"temporary"}) \cup new]
  /\ ZGo(r, IF ok THEN "intact" ELSE "undo")
  /\ UNCHANGED <<zClaim, zLocator, zNative, zSurvived>>

\* assert_intact.
Intact(r) == zClaim[Ctx(r)] = r /\ "file" \in zConfig[Ctx(r)]

CheckIntact(r, ok) ==
  /\ ZAt(r, "intact") /\ (ok => Intact(r))
  /\ ZGo(r, IF ok THEN "spawn" ELSE "undo")
  /\ UNCHANGED <<zClaim, zConfig, zLocator, zNative, zSurvived>>

\* The error path of prepare_context: the configuration, then the claim.  An
\* error of it ends the run with what it did not remove.
Undo(r, ok) ==
  /\ ZAt(r, "undo")
  /\ zConfig' = IF ok THEN [zConfig EXCEPT ![Ctx(r)] = @ \ {"file"}] ELSE zConfig
  /\ ZGo(r, IF ok THEN "undoclaim" ELSE "done")
  /\ UNCHANGED <<zClaim, zLocator, zNative, zSurvived>>

UndoClaim(r, ok) ==
  /\ ZAt(r, "undoclaim")
  /\ zClaim' = IF ok THEN [zClaim EXCEPT ![Ctx(r)] = NoClaim] ELSE zClaim
  /\ ZGo(r, "done")
  /\ UNCHANGED <<zConfig, zLocator, zNative, zSurvived>>

\* _execute: binaries, node home and integrity are checked, the app server
\* starts.
Spawn(r, ok) ==
  /\ ZAt(r, "spawn") /\ (ok => Intact(r))
  /\ zNative' = IF ok THEN zNative \cup {r} ELSE zNative
  /\ ZGo(r, IF ok THEN "bind" ELSE "close")
  /\ UNCHANGED <<zClaim, zConfig, zLocator, zSurvived>>

\* bind_session: the locator is written when the provider named the session; the
\* integrity check that follows may fail and leaves it.
BindSession(r, ok) ==
  /\ ZAt(r, "bind") /\ (ok => Intact(r))
  /\ \E written \in {TRUE, ok} :
       zLocator' = IF written THEN [zLocator EXCEPT ![Ctx(r)] = TRUE] ELSE zLocator
  /\ ZGo(r, IF ok THEN "turn" ELSE "stop")
  /\ UNCHANGED <<zClaim, zConfig, zNative, zSurvived>>

\* Mutant: a turn that failed leaves the native process to itself.
AfterTurn_Abandon(ok) == "close"

\* A failure, the timeout and a cancellation terminate the process group first;
\* a completed turn waited for the process to exit.
AfterTurn(ok) == IF ok THEN "close" ELSE "stop"

EndTurn(r, ok) ==
  /\ ZAt(r, "turn")
  /\ ok => r \notin zNative
  /\ ZGo(r, AfterTurn(ok))
  /\ UNCHANGED <<zClaim, zConfig, zLocator, zNative, zSurvived>>

\* terminate_owned_process_group; it raises when the group survives SIGKILL or
\* taskkill fails, and run_native closes the context all the same.
StopNative(r, ok) ==
  /\ ZAt(r, "stop")
  /\ IF ok THEN zNative' = zNative \ {r} /\ UNCHANGED zSurvived
           ELSE zSurvived' = zSurvived \cup {r} /\ UNCHANGED zNative
  /\ ZGo(r, "close")
  /\ UNCHANGED <<zClaim, zConfig, zLocator>>

\* Mutant: the claim is given up before the configuration is removed.
Removes_Swapped(pc) == IF pc = "close" THEN "claim" ELSE "config"

\* close: the configuration is removed first, the claim last.
Removes(pc) == IF pc = "close" THEN "config" ELSE "claim"

CloseStep(r) ==
  /\ zRun[r].pc \in {"close", "unclaim"}
  /\ IF Removes(zRun[r].pc) = "config"
     THEN zConfig' = [zConfig EXCEPT ![Ctx(r)] = @ \ {"file"}] /\ UNCHANGED zClaim
     ELSE /\ zClaim' = IF zClaim[Ctx(r)] = r THEN [zClaim EXCEPT ![Ctx(r)] = NoClaim]
                       ELSE zClaim
          /\ UNCHANGED zConfig
  /\ ZGo(r, IF ZAt(r, "close") THEN "unclaim" ELSE "done")
  /\ UNCHANGED <<zLocator, zNative, zSurvived>>

\* A cleanup that fails leaves what it did not remove, and the run has failed.
CloseFails(r) ==
  /\ zRun[r].pc \in {"close", "unclaim"}
  /\ ZGo(r, "done")
  /\ UNCHANGED <<zClaim, zConfig, zLocator, zNative, zSurvived>>

NativeExit(r) ==
  /\ r \in zNative
  /\ zNative' = zNative \ {r}
  /\ UNCHANGED <<zRun, zClaim, zConfig, zLocator, zSurvived>>

\* The worker of an invocation dies; files and native process stay.
ZCrash(r) ==
  /\ zRun[r].pc \notin {"idle", "done", "dead"}
  /\ ZGo(r, "dead")
  /\ UNCHANGED <<zClaim, zConfig, zLocator, zNative, zSurvived>>

ZContextNext ==
  \E r \in ZRuns :
    \/ \E ok \in BOOLEAN :
         \/ \E c \in ZRuns : Prepare(r, c, ok)
         \/ Claim(r, ok) \/ OpenTemporary(r, ok) \/ WriteConfig(r, ok) \/ CheckIntact(r, ok)
         \/ Undo(r, ok) \/ UndoClaim(r, ok) \/ Spawn(r, ok) \/ BindSession(r, ok)
         \/ EndTurn(r, ok) \/ StopNative(r, ok)
    \/ CloseStep(r) \/ CloseFails(r) \/ NativeExit(r) \/ ZCrash(r)

ZContextSpec == ZContextInit /\ [][ZContextNext]_zContextVars

----------------------------------------------------------------------------
\* One native process at a time works on the database of a session, also
\* when its worker died and a resume of the session is asked for, except for one
\* whose termination failed: its context is closed, and may be resumed.
OneNativePerContext ==
  \A r, s \in zNative \ zSurvived : Ctx(r) = Ctx(s) => r = s

\* A configuration with the credential, or the file it is written from, never lies
\* in a context that nobody claims, wherever a crash or a failed cleanup stopped
\* its invocation; one temporary file does, that its writer could not remove.
CredentialUnderClaim ==
  \A c \in ZRuns : zConfig[c] \cap {"file", "temporary"} # {} => zClaim[c] # NoClaim
=============================================================================
