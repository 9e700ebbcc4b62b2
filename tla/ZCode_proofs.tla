---------------------------- MODULE ZCode_proofs ----------------------------
(***************************************************************************)
(* Proofs about the native ZCode transport.  ZCodeContext: a context has    *)
(* one native process, because whoever starts one holds the .active claim   *)
(* until the process is gone or could not be stopped, and a credential lies *)
(* under a claim, because the configuration is gone before the claim is     *)
(* given up.  ZCodeTurn: a tool call is allowed in the running turn only,   *)
(* once per request id.                                                     *)
(***************************************************************************)
EXTENDS ZCodeContext, ZCodeTurn, TLAPS

\* Between its claim and its cleanup a living invocation holds the claim.
Claimed == {"config", "writing", "intact", "spawn", "bind", "turn", "stop", "undo", "undoclaim",
            "close", "unclaim"}
ClaimHeld == \A r \in ZRuns : zRun[r].pc \in Claimed => zClaim[Ctx(r)] = r

\* A native process has the claim of its invocation, dead or alive, unless its
\* termination failed.
NativeUnderClaim ==
  \A r \in zNative \ zSurvived :
    zRun[r].pc \in {"bind", "turn", "stop", "dead"} /\ zClaim[Ctx(r)] = r

\* A temporary file is there only while the configuration is written, or after a
\* crash in between, and the configuration is removed before the claim.
ConfigGoesFirst ==
  \A r \in ZRuns :
    /\ zRun[r].pc \in Claimed \ {"writing"} => "temporary" \notin zConfig[Ctx(r)]
    /\ zRun[r].pc \in {"undoclaim", "unclaim"} => "file" \notin zConfig[Ctx(r)]

ZContextInv ==
  ZContextTypeOK /\ ClaimHeld /\ NativeUnderClaim /\ ConfigGoesFirst /\ CredentialUnderClaim

\* The invariant holds initially.
LEMMA ZContextInitially == ZContextInit => ZContextInv
BY ZContextConstants DEF ZContextInit, ZContextInv, ZContextTypeOK, ClaimHeld, Claimed,
   NativeUnderClaim, ConfigGoesFirst, CredentialUnderClaim, ZRun, ZPc, ZFiles

\* Every step keeps the types.
LEMMA ZContextTypeStep == ZContextTypeOK /\ [ZContextNext]_zContextVars => ZContextTypeOK'
<1> SUFFICES ASSUME ZContextTypeOK, [ZContextNext]_zContextVars PROVE ZContextTypeOK'
  OBVIOUS
<1> USE DEF ZContextTypeOK, ZRun, ZPc, ZFiles, ZGo, Ctx
<1>1. ASSUME NEW r \in ZRuns, NEW c \in ZRuns, NEW ok \in BOOLEAN, Prepare(r, c, ok) PROVE ZContextTypeOK'
  BY <1>1 DEF Prepare
<1>2. ASSUME NEW r \in ZRuns, NEW ok \in BOOLEAN, Claim(r, ok) PROVE ZContextTypeOK'
  BY <1>2 DEF Claim
<1>3. ASSUME NEW r \in ZRuns, NEW ok \in BOOLEAN, OpenTemporary(r, ok) PROVE ZContextTypeOK'
  BY <1>3 DEF OpenTemporary
<1>4. ASSUME NEW r \in ZRuns, NEW ok \in BOOLEAN, WriteConfig(r, ok) PROVE ZContextTypeOK'
  BY <1>4 DEF WriteConfig
<1>5. ASSUME NEW r \in ZRuns, NEW ok \in BOOLEAN, CheckIntact(r, ok) PROVE ZContextTypeOK'
  BY <1>5 DEF CheckIntact
<1>6. ASSUME NEW r \in ZRuns, NEW ok \in BOOLEAN, Undo(r, ok) PROVE ZContextTypeOK'
  BY <1>6 DEF Undo
<1>7. ASSUME NEW r \in ZRuns, NEW ok \in BOOLEAN, UndoClaim(r, ok) PROVE ZContextTypeOK'
  BY <1>7 DEF UndoClaim
<1>8. ASSUME NEW r \in ZRuns, NEW ok \in BOOLEAN, Spawn(r, ok) PROVE ZContextTypeOK'
  BY <1>8 DEF Spawn
<1>9. ASSUME NEW r \in ZRuns, NEW ok \in BOOLEAN, BindSession(r, ok) PROVE ZContextTypeOK'
  BY <1>9 DEF BindSession
<1>10. ASSUME NEW r \in ZRuns, NEW ok \in BOOLEAN, EndTurn(r, ok) PROVE ZContextTypeOK'
  BY <1>10 DEF EndTurn, AfterTurn
<1>11. ASSUME NEW r \in ZRuns, NEW ok \in BOOLEAN, StopNative(r, ok) PROVE ZContextTypeOK'
  BY <1>11 DEF StopNative
<1>12. ASSUME NEW r \in ZRuns, CloseStep(r) PROVE ZContextTypeOK'
  <2>1. UNCHANGED <<zLocator, zNative, zSurvived>> /\ zRun' \in [ZRuns -> ZRun]
    BY <1>12 DEF CloseStep
  <2>2. zConfig' \in [ZRuns -> SUBSET ZFiles]
    BY <1>12 DEF CloseStep
  <2>3. zClaim' \in [ZRuns -> ZRuns \cup {NoClaim}]
    BY <1>12 DEF CloseStep
  <2> QED BY <2>1, <2>2, <2>3
<1>13. ASSUME NEW r \in ZRuns, CloseFails(r) PROVE ZContextTypeOK'
  BY <1>13 DEF CloseFails
<1>14. ASSUME NEW r \in ZRuns, NativeExit(r) PROVE ZContextTypeOK'
  BY <1>14 DEF NativeExit
<1>15. ASSUME NEW r \in ZRuns, ZCrash(r) PROVE ZContextTypeOK'
  BY <1>15 DEF ZCrash
<1>16. ASSUME UNCHANGED zContextVars PROVE ZContextTypeOK'
  BY <1>16 DEF zContextVars
<1> HIDE DEF ZContextTypeOK
<1> QED BY <1>1, <1>2, <1>3, <1>4, <1>5, <1>6, <1>7, <1>8, <1>9, <1>10, <1>11, <1>12, <1>13,
       <1>14, <1>15, <1>16 DEF ZContextNext

\* Every step keeps the invariant.
LEMMA ZContextPreserved == ZContextInv /\ [ZContextNext]_zContextVars => ZContextInv'
<1> SUFFICES ASSUME ZContextInv, [ZContextNext]_zContextVars PROVE ZContextInv'
  OBVIOUS
<1> USE ZContextConstants DEF ZContextInv, ZRun, ZPc, ZFiles, Claimed, ZAt, ZGo, Ctx
<1>0. ZContextTypeOK'
  BY ZContextTypeStep
<1> DEFINE Rest == ClaimHeld /\ NativeUnderClaim /\ ConfigGoesFirst /\ CredentialUnderClaim
<1>1. ASSUME NEW r \in ZRuns, NEW c \in ZRuns, NEW ok \in BOOLEAN, Prepare(r, c, ok) PROVE Rest'
  <2>1. ClaimHeld'
    BY <1>1 DEF Prepare, ZContextTypeOK, ClaimHeld
  <2>2. NativeUnderClaim'
    BY <1>1 DEF Prepare, ZContextTypeOK, ClaimHeld, NativeUnderClaim
  <2>3. ConfigGoesFirst'
    BY <1>1 DEF Prepare, ZContextTypeOK, ClaimHeld, ConfigGoesFirst, CredentialUnderClaim
  <2>4. CredentialUnderClaim'
    BY <1>1 DEF Prepare, ZContextTypeOK, ClaimHeld, ConfigGoesFirst, CredentialUnderClaim
  <2> QED BY <2>1, <2>2, <2>3, <2>4
<1>2. ASSUME NEW r \in ZRuns, NEW ok \in BOOLEAN, Claim(r, ok) PROVE Rest'
  <2>1. ClaimHeld'
    BY <1>2 DEF Claim, ClaimFree, ZContextTypeOK, ClaimHeld
  <2>2. NativeUnderClaim'
    BY <1>2 DEF Claim, ClaimFree, ZContextTypeOK, ClaimHeld, NativeUnderClaim
  <2>3. ConfigGoesFirst'
    BY <1>2 DEF Claim, ClaimFree, ZContextTypeOK, ClaimHeld, ConfigGoesFirst, CredentialUnderClaim
  <2>4. CredentialUnderClaim'
    BY <1>2 DEF Claim, ClaimFree, ZContextTypeOK, ClaimHeld, ConfigGoesFirst, CredentialUnderClaim
  <2> QED BY <2>1, <2>2, <2>3, <2>4
<1>3. ASSUME NEW r \in ZRuns, NEW ok \in BOOLEAN, OpenTemporary(r, ok) PROVE Rest'
  <2>1. ClaimHeld'
    BY <1>3 DEF OpenTemporary, ZContextTypeOK, ClaimHeld
  <2>2. NativeUnderClaim'
    BY <1>3 DEF OpenTemporary, ZContextTypeOK, ClaimHeld, NativeUnderClaim
  <2>3. ConfigGoesFirst'
    BY <1>3 DEF OpenTemporary, ZContextTypeOK, ClaimHeld, ConfigGoesFirst, CredentialUnderClaim
  <2>4. CredentialUnderClaim'
    BY <1>3 DEF OpenTemporary, ZContextTypeOK, ClaimHeld, ConfigGoesFirst, CredentialUnderClaim
  <2> QED BY <2>1, <2>2, <2>3, <2>4
<1>4. ASSUME NEW r \in ZRuns, NEW ok \in BOOLEAN, WriteConfig(r, ok) PROVE Rest'
  <2>1. ClaimHeld'
    BY <1>4 DEF WriteConfig, ZContextTypeOK, ClaimHeld
  <2>2. NativeUnderClaim'
    BY <1>4 DEF WriteConfig, ZContextTypeOK, ClaimHeld, NativeUnderClaim
  <2>3. ConfigGoesFirst'
    BY <1>4 DEF WriteConfig, ZContextTypeOK, ClaimHeld, ConfigGoesFirst, CredentialUnderClaim
  <2>4. CredentialUnderClaim'
    BY <1>4 DEF WriteConfig, ZContextTypeOK, ClaimHeld, ConfigGoesFirst, CredentialUnderClaim
  <2> QED BY <2>1, <2>2, <2>3, <2>4
<1>5. ASSUME NEW r \in ZRuns, NEW ok \in BOOLEAN, CheckIntact(r, ok) PROVE Rest'
  <2>1. ClaimHeld'
    BY <1>5 DEF CheckIntact, ZContextTypeOK, ClaimHeld
  <2>2. NativeUnderClaim'
    BY <1>5 DEF CheckIntact, ZContextTypeOK, ClaimHeld, NativeUnderClaim
  <2>3. ConfigGoesFirst'
    BY <1>5 DEF CheckIntact, ZContextTypeOK, ClaimHeld, ConfigGoesFirst, CredentialUnderClaim
  <2>4. CredentialUnderClaim'
    BY <1>5 DEF CheckIntact, ZContextTypeOK, ClaimHeld, ConfigGoesFirst, CredentialUnderClaim
  <2> QED BY <2>1, <2>2, <2>3, <2>4
<1>6. ASSUME NEW r \in ZRuns, NEW ok \in BOOLEAN, Undo(r, ok) PROVE Rest'
  <2>1. ClaimHeld'
    BY <1>6 DEF Undo, ZContextTypeOK, ClaimHeld
  <2>2. NativeUnderClaim'
    BY <1>6 DEF Undo, ZContextTypeOK, ClaimHeld, NativeUnderClaim
  <2>3. ConfigGoesFirst'
    BY <1>6 DEF Undo, ZContextTypeOK, ClaimHeld, ConfigGoesFirst, CredentialUnderClaim
  <2>4. CredentialUnderClaim'
    BY <1>6 DEF Undo, ZContextTypeOK, ClaimHeld, ConfigGoesFirst, CredentialUnderClaim
  <2> QED BY <2>1, <2>2, <2>3, <2>4
<1>7. ASSUME NEW r \in ZRuns, NEW ok \in BOOLEAN, UndoClaim(r, ok) PROVE Rest'
  <2>1. ClaimHeld'
    BY <1>7 DEF UndoClaim, ZContextTypeOK, ClaimHeld
  <2>2. NativeUnderClaim'
    BY <1>7 DEF UndoClaim, ZContextTypeOK, ClaimHeld, NativeUnderClaim
  <2>3. ConfigGoesFirst'
    BY <1>7 DEF UndoClaim, ZContextTypeOK, ClaimHeld, ConfigGoesFirst, CredentialUnderClaim
  <2>4. CredentialUnderClaim'
    BY <1>7 DEF UndoClaim, ZContextTypeOK, ClaimHeld, ConfigGoesFirst, CredentialUnderClaim
  <2> QED BY <2>1, <2>2, <2>3, <2>4
<1>8. ASSUME NEW r \in ZRuns, NEW ok \in BOOLEAN, Spawn(r, ok) PROVE Rest'
  <2>1. ClaimHeld'
    BY <1>8 DEF Spawn, Intact, ZContextTypeOK, ClaimHeld
  <2>2. NativeUnderClaim'
    BY <1>8 DEF Spawn, Intact, ZContextTypeOK, ClaimHeld, NativeUnderClaim
  <2>3. ConfigGoesFirst'
    BY <1>8 DEF Spawn, Intact, ZContextTypeOK, ClaimHeld, ConfigGoesFirst, CredentialUnderClaim
  <2>4. CredentialUnderClaim'
    BY <1>8 DEF Spawn, Intact, ZContextTypeOK, ClaimHeld, ConfigGoesFirst, CredentialUnderClaim
  <2> QED BY <2>1, <2>2, <2>3, <2>4
<1>9. ASSUME NEW r \in ZRuns, NEW ok \in BOOLEAN, BindSession(r, ok) PROVE Rest'
  <2>1. ClaimHeld'
    BY <1>9 DEF BindSession, ZContextTypeOK, ClaimHeld
  <2>2. NativeUnderClaim'
    BY <1>9 DEF BindSession, ZContextTypeOK, ClaimHeld, NativeUnderClaim
  <2>3. ConfigGoesFirst'
    BY <1>9 DEF BindSession, ZContextTypeOK, ClaimHeld, ConfigGoesFirst, CredentialUnderClaim
  <2>4. CredentialUnderClaim'
    BY <1>9 DEF BindSession, ZContextTypeOK, ClaimHeld, ConfigGoesFirst, CredentialUnderClaim
  <2> QED BY <2>1, <2>2, <2>3, <2>4
<1>10. ASSUME NEW r \in ZRuns, NEW ok \in BOOLEAN, EndTurn(r, ok) PROVE Rest'
  <2>1. ClaimHeld'
    BY <1>10 DEF EndTurn, AfterTurn, ZContextTypeOK, ClaimHeld
  <2>2. NativeUnderClaim'
    BY <1>10 DEF EndTurn, AfterTurn, ZContextTypeOK, ClaimHeld, NativeUnderClaim
  <2>3. ConfigGoesFirst'
    BY <1>10 DEF EndTurn, AfterTurn, ZContextTypeOK, ClaimHeld, ConfigGoesFirst,
           CredentialUnderClaim
  <2>4. CredentialUnderClaim'
    BY <1>10 DEF EndTurn, AfterTurn, ZContextTypeOK, ClaimHeld, ConfigGoesFirst,
           CredentialUnderClaim
  <2> QED BY <2>1, <2>2, <2>3, <2>4
<1>11. ASSUME NEW r \in ZRuns, NEW ok \in BOOLEAN, StopNative(r, ok) PROVE Rest'
  <2>1. ClaimHeld'
    BY <1>11 DEF StopNative, ZContextTypeOK, ClaimHeld
  <2>2. NativeUnderClaim'
    BY <1>11 DEF StopNative, ZContextTypeOK, ClaimHeld, NativeUnderClaim
  <2>3. ConfigGoesFirst'
    BY <1>11 DEF StopNative, ZContextTypeOK, ClaimHeld, ConfigGoesFirst, CredentialUnderClaim
  <2>4. CredentialUnderClaim'
    BY <1>11 DEF StopNative, ZContextTypeOK, ClaimHeld, ConfigGoesFirst, CredentialUnderClaim
  <2> QED BY <2>1, <2>2, <2>3, <2>4
<1>12. ASSUME NEW r \in ZRuns, CloseStep(r) PROVE Rest'
  <2>1. ClaimHeld'
    BY <1>12 DEF CloseStep, Removes, ZContextTypeOK, ClaimHeld
  <2>2. NativeUnderClaim'
    BY <1>12 DEF CloseStep, Removes, ZContextTypeOK, ClaimHeld, NativeUnderClaim
  <2>3. ConfigGoesFirst'
    BY <1>12 DEF CloseStep, Removes, ZContextTypeOK, ClaimHeld, ConfigGoesFirst,
           CredentialUnderClaim
  <2>4. CredentialUnderClaim'
    <3> SUFFICES ASSUME NEW c \in ZRuns, zConfig'[c] \cap {"file", "temporary"} # {}
                 PROVE  zClaim'[c] # NoClaim
      BY DEF CredentialUnderClaim
    <3>1. zConfig'[c] \subseteq zConfig[c]
      BY <1>12 DEF CloseStep, ZContextTypeOK
    <3>2. zClaim[c] # NoClaim
      BY <3>1 DEF CredentialUnderClaim
    <3>3. CASE ZAt(r, "close")
      BY <1>12, <3>2, <3>3 DEF CloseStep, Removes
    <3>4. CASE ZAt(r, "unclaim")
      <4>1. zConfig[Ctx(r)] \cap {"file", "temporary"} = {}
        BY <3>4 DEF ConfigGoesFirst
      <4>2. c # Ctx(r)
        BY <3>1, <4>1
      <4> QED BY <1>12, <3>2, <3>4, <4>2 DEF CloseStep, Removes, ZContextTypeOK
    <3> QED BY <1>12, <3>3, <3>4 DEF CloseStep
  <2> QED BY <2>1, <2>2, <2>3, <2>4
<1>13. ASSUME NEW r \in ZRuns, CloseFails(r) PROVE Rest'
  <2>1. ClaimHeld'
    BY <1>13 DEF CloseFails, ZContextTypeOK, ClaimHeld
  <2>2. NativeUnderClaim'
    BY <1>13 DEF CloseFails, ZContextTypeOK, ClaimHeld, NativeUnderClaim
  <2>3. ConfigGoesFirst'
    BY <1>13 DEF CloseFails, ZContextTypeOK, ClaimHeld, ConfigGoesFirst, CredentialUnderClaim
  <2>4. CredentialUnderClaim'
    BY <1>13 DEF CloseFails, ZContextTypeOK, ClaimHeld, ConfigGoesFirst, CredentialUnderClaim
  <2> QED BY <2>1, <2>2, <2>3, <2>4
<1>14. ASSUME NEW r \in ZRuns, NativeExit(r) PROVE Rest'
  <2>1. ClaimHeld'
    BY <1>14 DEF NativeExit, ZContextTypeOK, ClaimHeld
  <2>2. NativeUnderClaim'
    BY <1>14 DEF NativeExit, ZContextTypeOK, ClaimHeld, NativeUnderClaim
  <2>3. ConfigGoesFirst'
    BY <1>14 DEF NativeExit, ZContextTypeOK, ClaimHeld, ConfigGoesFirst, CredentialUnderClaim
  <2>4. CredentialUnderClaim'
    BY <1>14 DEF NativeExit, ZContextTypeOK, ClaimHeld, ConfigGoesFirst, CredentialUnderClaim
  <2> QED BY <2>1, <2>2, <2>3, <2>4
<1>15. ASSUME NEW r \in ZRuns, ZCrash(r) PROVE Rest'
  <2>1. ClaimHeld'
    BY <1>15 DEF ZCrash, ZContextTypeOK, ClaimHeld
  <2>2. NativeUnderClaim'
    BY <1>15 DEF ZCrash, ZContextTypeOK, ClaimHeld, NativeUnderClaim
  <2>3. ConfigGoesFirst'
    BY <1>15 DEF ZCrash, ZContextTypeOK, ClaimHeld, ConfigGoesFirst, CredentialUnderClaim
  <2>4. CredentialUnderClaim'
    BY <1>15 DEF ZCrash, ZContextTypeOK, ClaimHeld, ConfigGoesFirst, CredentialUnderClaim
  <2> QED BY <2>1, <2>2, <2>3, <2>4
<1>16. ASSUME UNCHANGED zContextVars PROVE Rest'
  BY <1>16 DEF zContextVars, ClaimHeld, NativeUnderClaim, ConfigGoesFirst, CredentialUnderClaim
<1> HIDE DEF Rest, ZContextInv, Claimed, ZAt, ZGo, Ctx
<1>q. Rest'
  BY <1>1, <1>2, <1>3, <1>4, <1>5, <1>6, <1>7, <1>8, <1>9, <1>10, <1>11, <1>12, <1>13, <1>14,
         <1>15, <1>16 DEF ZContextNext
<1> QED BY <1>0, <1>q DEF Rest, ZContextInv

\* The invariant holds in every behaviour of the contexts.
LEMMA ZContextInvariant == ZContextSpec => []ZContextInv
BY ZContextInitially, ZContextPreserved, PTL DEF ZContextSpec

\* The state of the contexts always has its type.
THEOREM ZContextTypes == ZContextSpec => []ZContextTypeOK
BY ZContextInvariant, PTL DEF ZContextInv

\* However invocations contend and die, the database of a session has at most one
\* native process beside those terminate_owned_process_group failed to stop:
\* _claim, AfterTurn and close.
THEOREM NativeIsExclusive == ZContextSpec => []OneNativePerContext
<1>1. ZContextInv => OneNativePerContext
  BY DEF ZContextInv, ZContextTypeOK, NativeUnderClaim, OneNativePerContext, Ctx
<1> QED BY <1>1, ZContextInvariant, PTL

\* Wherever an invocation stops, its credential is under a claim: close and the
\* error path of prepare_context.
THEOREM CredentialIsClaimed == ZContextSpec => []CredentialUnderClaim
BY ZContextInvariant, PTL DEF ZContextInv

-----------------------------------------------------------------------------
\* An allowed input was decided, in the running turn, and a request id has one
\* decision.
Decided ==
  /\ \A d, f \in tDecisions : d.req = f.req => d = f
  /\ \A a \in tAllowed :
       a.permission \in tDecisions /\ a.permission.turn = a.turn /\ ~a.ended

\* As long as the reader did not fail, whatever it read fits one turn and one
\* terminal.
OneStory ==
  ~tFailed =>
    /\ tRead \subseteq tHashes
    /\ \A e \in tHashes :
         /\ e.kind # "drift"
         /\ e.kind = "started" => e.turn = tTurn /\ e.mine
         /\ e.kind = "completed" => e = tTerminal /\ e.turn = tTurn /\ e.mine
    /\ tTerminal # NoTerminal => tTerminal \in tRead /\ tTerminal.kind = "completed"

\* The stages after the terminal have one, and a success ends a reader that did
\* not fail.
StageFits ==
  /\ tStage \in {"drain", "closing", "exited", "success"} => tTerminal # NoTerminal
  /\ tStage = "success" => ~tReading /\ ~tFailed

ZTurnInv == ZTurnTypeOK /\ Decided /\ OneStory /\ StageFits

\* The invariant holds initially.
LEMMA ZTurnInitially == ZTurnInit => ZTurnInv
<1> SUFFICES ASSUME ZTurnInit PROVE ZTurnInv
  OBVIOUS
<1>1. ZTurnTypeOK
  BY DEF ZTurnInit, ZTurnTypeOK, TurnStages
<1>2. Decided
  BY DEF ZTurnInit, Decided
<1>3. OneStory /\ StageFits
  BY DEF ZTurnInit, OneStory, StageFits
<1> QED BY <1>1, <1>2, <1>3 DEF ZTurnInv

\* Every step keeps the invariant.
LEMMA ZTurnPreserved == ZTurnInv /\ [ZTurnNext]_zTurnVars => ZTurnInv'
<1> SUFFICES ASSUME ZTurnInv, [ZTurnNext]_zTurnVars PROVE ZTurnInv'
  OBVIOUS
<1> USE ZTurnConstants DEF ZTurnInv
<1>1. ASSUME Noise PROVE ZTurnInv'
  <2>1. ZTurnTypeOK'
    BY <1>1 DEF Noise, ReaderFails, ZTurnTypeOK, TurnStages, Permission, Input
  <2>2. Decided'
    BY <1>1 DEF Noise, ReaderFails, ZTurnTypeOK, Decided
  <2>3. OneStory'
    BY <1>1 DEF Noise, ReaderFails, ZTurnTypeOK, OneStory, StageFits, Event
  <2>4. StageFits'
    BY <1>1 DEF Noise, ReaderFails, ZTurnTypeOK, StageFits
  <2> QED BY <2>1, <2>2, <2>3, <2>4
<1>2. ASSUME EndOfFile PROVE ZTurnInv'
  <2>1. ZTurnTypeOK'
    BY <1>2 DEF EndOfFile, ZTurnTypeOK, TurnStages, Permission, Input
  <2>2. Decided'
    BY <1>2 DEF EndOfFile, ZTurnTypeOK, Decided
  <2>3. OneStory'
    BY <1>2 DEF EndOfFile, ZTurnTypeOK, OneStory, StageFits, Event
  <2>4. StageFits'
    BY <1>2 DEF EndOfFile, ZTurnTypeOK, StageFits
  <2> QED BY <2>1, <2>2, <2>3, <2>4
<1>3. ASSUME NEW e \in Event, ReadEvent(e) PROVE ZTurnInv'
  <2> USE <1>3
  <2>0. CASE Ignored /\ UNCHANGED <<tRead, tHashes>>
    <3>1. ZTurnTypeOK'
      BY <2>0 DEF ReadEvent, ZTurnTypeOK, Ignored
    <3> QED BY <2>0, <3>1 DEF ReadEvent, Ignored, Decided, OneStory, StageFits
  <2>1. ASSUME Recorded(e)
        PROVE  /\ tRead' = tRead \cup {e}
               /\ tHashes' \in {tHashes, tHashes \cup {e}}
               /\ UNCHANGED <<tStage, tFloor, tDecisions, tAllowed>>
    BY <2>1 DEF ReadEvent, Recorded
  <2>2. CASE Recorded(e) /\ ReaderFails /\ UNCHANGED <<tTurn, tTerminal>>
    <3>1. tFailed' = TRUE /\ tReading' = FALSE
      BY <2>2 DEF ReaderFails
    <3>2. ZTurnTypeOK'
      BY <2>1, <2>2, <3>1 DEF ZTurnTypeOK
    <3>3. tStage # "success"
      BY DEF ReadEvent, StageFits
    <3> QED BY <3>1, <3>2, <3>3, <2>1, <2>2 DEF Decided, OneStory, StageFits
  <2>3. CASE Recorded(e) /\ e \in tHashes /\ Ignored
    <3>1. tHashes' = tHashes
      BY <2>3 DEF Recorded
    <3>2. ZTurnTypeOK'
      BY <2>1, <2>3, <3>1 DEF ZTurnTypeOK, Ignored
    <3> QED BY <2>1, <2>3, <3>1, <3>2 DEF Ignored, Decided, OneStory, StageFits
  <2>4. CASE /\ Recorded(e) /\ \A f \in tHashes : f.id # e.id
             /\ UNCHANGED <<tFailed, tReading>>
             /\ \/ e.kind = "started" /\ StartedOk(e) /\ tTurn' = e.turn /\ UNCHANGED tTerminal
                \/ e.kind = "completed" /\ CompletedOk(e) /\ tTerminal' = e /\ UNCHANGED tTurn
                \/ e.kind = "closed" /\ UNCHANGED <<tTurn, tTerminal>>
    <3>1. tHashes' = tHashes \cup {e}
      BY <2>4 DEF Recorded
    <3>2. ZTurnTypeOK'
      BY <2>1, <2>4, <3>1 DEF ZTurnTypeOK, Event
    <3>3. tTurn # NoTurn => tTurn' = tTurn
      BY <2>4 DEF StartedOk
    <3>4. OneStory'
      <4> SUFFICES ASSUME ~tFailed' PROVE OneStory'
        BY DEF OneStory
      <4>1. ~tFailed /\ tRead \subseteq tHashes
        BY <2>4 DEF OneStory
      <4>2. ASSUME NEW f \in tHashes PROVE
              /\ f.kind # "drift"
              /\ f.kind = "started" => f.turn = tTurn' /\ f.mine
              /\ f.kind = "completed" => f = tTerminal' /\ f.turn = tTurn' /\ f.mine
        <5>1. f \in Event /\ f # e
          BY <2>4 DEF ZTurnTypeOK
        <5>2. f.kind \in {"started", "completed"} => tTurn # NoTurn
          BY <4>1, <5>1 DEF OneStory, Event
        <5>3. f.kind = "completed" => tTerminal = f /\ tTerminal' = tTerminal
          BY <2>4, <4>1, <5>1 DEF OneStory, CompletedOk
        <5> QED BY <4>1, <5>2, <5>3, <3>3 DEF OneStory
      <4>3. /\ e.kind # "drift"
            /\ e.kind = "started" => e.turn = tTurn' /\ e.mine
            /\ e.kind = "completed" => e = tTerminal' /\ e.turn = tTurn' /\ e.mine
        BY <2>4 DEF StartedOk, CompletedOk
      <4>4. tTerminal' # NoTerminal => tTerminal' \in tRead' /\ tTerminal'.kind = "completed"
        BY <2>1, <2>4, <4>1 DEF OneStory
      <4>5. \A f \in tHashes' :
              /\ f.kind # "drift"
              /\ f.kind = "started" => f.turn = tTurn' /\ f.mine
              /\ f.kind = "completed" => f = tTerminal' /\ f.turn = tTurn' /\ f.mine
        BY <3>1, <4>2, <4>3
      <4>6. tRead' \subseteq tHashes'
        BY <2>1, <2>4, <3>1, <4>1
      <4> QED BY <4>4, <4>5, <4>6 DEF OneStory
    <3>5. StageFits' /\ Decided'
      BY <2>1, <2>4 DEF StageFits, Decided
    <3> QED BY <3>2, <3>4, <3>5
  <2> QED BY <2>0, <2>2, <2>3, <2>4 DEF ReadEvent, ReaderFails, Ignored
<1>4. ASSUME NEW p \in Permission, ReadPermission(p) PROVE ZTurnInv'
  <2>1. UNCHANGED <<tStage, tFloor, tTurn, tTerminal, tHashes, tRead>>
    BY <1>4 DEF ReadPermission
  <2>2. CASE ReaderFails /\ UNCHANGED <<tDecisions, tAllowed>>
    BY <1>4, <2>1, <2>2
       DEF ReadPermission, ReaderFails, ZTurnTypeOK, Decided, OneStory, StageFits
  <2>5. CASE /\ ReaderFails /\ UNCHANGED tAllowed /\ Earlier(p) = {}
             /\ tDecisions' = tDecisions \cup {p}
    <3>1. \A d \in tDecisions : d.req # p.req
      BY <2>5 DEF Earlier
    <3>2. ZTurnTypeOK'
      BY <2>1, <2>5 DEF ReaderFails, ZTurnTypeOK
    <3>3. Decided'
      BY <2>5, <3>1 DEF Decided
    <3> QED BY <1>4, <2>1, <2>5, <3>2, <3>3 DEF ReadPermission, ReaderFails, OneStory, StageFits
  <2>3. CASE /\ UNCHANGED <<tFailed, tReading>> /\ InTurn(p)
             /\ tDecisions' = tDecisions \cup {p}
             /\ p \in tDecisions \/ \A d \in tDecisions : d.req # p.req
             /\ \E verdict \in Input : Answer(p, verdict)
    <3> DEFINE allowed == [permission |-> p, turn |-> tTurn, ended |-> tTerminal # NoTerminal]
    <3>1. tAllowed' \in {tAllowed, tAllowed \cup {allowed}}
      BY <2>3 DEF Answer
    <3>2. /\ allowed \in [permission : Permission, turn : Turns \cup {NoTurn}, ended : BOOLEAN]
          /\ allowed.permission = p /\ allowed.turn = p.turn /\ ~allowed.ended
      BY <2>3 DEF InTurn, ZTurnTypeOK
    <3> HIDE DEF allowed
    <3>3. ZTurnTypeOK'
      BY <2>1, <2>3, <3>1, <3>2 DEF ZTurnTypeOK
    <3>4. Decided'
      BY <2>3, <3>1, <3>2 DEF Decided
    <3> QED BY <2>1, <2>3, <3>3, <3>4 DEF OneStory, StageFits
  <2>4. ASSUME InTurn(p), UNCHANGED <<tFailed, tReading>>,
               \/ /\ \E d \in Earlier(p) : SameRequest(d, p) /\ Answer(p, d.input)
                  /\ UNCHANGED tDecisions
               \/ /\ Earlier(p) = {} /\ tDecisions' = tDecisions \cup {p}
                  /\ Answer(p, p.input)
        PROVE  ZTurnInv'
    <3>1. CASE /\ \E d \in Earlier(p) : SameRequest(d, p) /\ Answer(p, d.input)
               /\ UNCHANGED tDecisions
      <4>1. p \in tDecisions /\ Answer(p, p.input)
        BY <3>1 DEF Earlier, SameRequest
      <4> QED BY <2>3, <2>4, <3>1, <4>1 DEF Permission
    <3>2. CASE Earlier(p) = {} /\ tDecisions' = tDecisions \cup {p} /\ Answer(p, p.input)
      <4>1. \A d \in tDecisions : d.req # p.req
        BY <3>2 DEF Earlier
      <4> QED BY <2>3, <2>4, <3>2, <4>1 DEF Permission
    <3> QED BY <2>4, <3>1, <3>2
  <2> QED BY <1>4, <2>2, <2>4, <2>5 DEF ReadPermission
<1>5. ASSUME OpenSession PROVE ZTurnInv'
  <2>1. ZTurnTypeOK'
    BY <1>5, ZTurnNumbers DEF OpenSession, MainGoes, ZTurnTypeOK, TurnStages, Permission, Input
  <2>2. Decided'
    BY <1>5 DEF OpenSession, MainGoes, ZTurnTypeOK, Decided
  <2>3. OneStory'
    BY <1>5 DEF OpenSession, MainGoes, ZTurnTypeOK, OneStory, StageFits, Event
  <2>4. StageFits'
    BY <1>5 DEF OpenSession, MainGoes, ZTurnTypeOK, StageFits
  <2> QED BY <2>1, <2>2, <2>3, <2>4
<1>6. ASSUME IssueInput PROVE ZTurnInv'
  <2>1. ZTurnTypeOK'
    BY <1>6 DEF IssueInput, MainGoes, ZTurnTypeOK, TurnStages, Permission, Input
  <2>2. Decided'
    BY <1>6 DEF IssueInput, MainGoes, ZTurnTypeOK, Decided
  <2>3. OneStory'
    BY <1>6 DEF IssueInput, MainGoes, ZTurnTypeOK, OneStory, StageFits, Event
  <2>4. StageFits'
    BY <1>6 DEF IssueInput, MainGoes, ZTurnTypeOK, StageFits
  <2> QED BY <2>1, <2>2, <2>3, <2>4
<1>7. ASSUME InputAccepted PROVE ZTurnInv'
  <2>1. ZTurnTypeOK'
    BY <1>7 DEF InputAccepted, MainGoes, ZTurnTypeOK, TurnStages, Permission, Input
  <2>2. Decided'
    BY <1>7 DEF InputAccepted, MainGoes, ZTurnTypeOK, Decided
  <2>3. OneStory'
    BY <1>7 DEF InputAccepted, MainGoes, ZTurnTypeOK, OneStory, StageFits, Event
  <2>4. StageFits'
    BY <1>7 DEF InputAccepted, MainGoes, ZTurnTypeOK, StageFits
  <2> QED BY <2>1, <2>2, <2>3, <2>4
<1>8. ASSUME TerminalSeen PROVE ZTurnInv'
  <2>1. ZTurnTypeOK'
    BY <1>8 DEF TerminalSeen, MainGoes, ZTurnTypeOK, TurnStages, Permission, Input
  <2>2. Decided'
    BY <1>8 DEF TerminalSeen, MainGoes, ZTurnTypeOK, Decided
  <2>3. OneStory'
    BY <1>8 DEF TerminalSeen, MainGoes, ZTurnTypeOK, OneStory, StageFits, Event
  <2>4. StageFits'
    BY <1>8 DEF TerminalSeen, MainGoes, ZTurnTypeOK, StageFits
  <2> QED BY <2>1, <2>2, <2>3, <2>4
<1>9. ASSUME Drained PROVE ZTurnInv'
  <2>1. ZTurnTypeOK'
    BY <1>9 DEF Drained, MainGoes, ZTurnTypeOK, TurnStages, Permission, Input
  <2>2. Decided'
    BY <1>9 DEF Drained, MainGoes, ZTurnTypeOK, Decided
  <2>3. OneStory'
    BY <1>9 DEF Drained, MainGoes, ZTurnTypeOK, OneStory, StageFits, Event
  <2>4. StageFits'
    BY <1>9 DEF Drained, MainGoes, ZTurnTypeOK, StageFits
  <2> QED BY <2>1, <2>2, <2>3, <2>4
<1>10. ASSUME ProcessExits PROVE ZTurnInv'
  <2>1. ZTurnTypeOK'
    BY <1>10 DEF ProcessExits, MainGoes, ZTurnTypeOK, TurnStages, Permission, Input
  <2>2. Decided'
    BY <1>10 DEF ProcessExits, MainGoes, ZTurnTypeOK, Decided
  <2>3. OneStory'
    BY <1>10 DEF ProcessExits, MainGoes, ZTurnTypeOK, OneStory, StageFits, Event
  <2>4. StageFits'
    BY <1>10 DEF ProcessExits, MainGoes, ZTurnTypeOK, StageFits
  <2> QED BY <2>1, <2>2, <2>3, <2>4
<1>11. ASSUME TurnSucceeds PROVE ZTurnInv'
  <2>1. ZTurnTypeOK'
    BY <1>11 DEF TurnSucceeds, MainGoes, LastCheck, ZTurnTypeOK, TurnStages, Permission, Input
  <2>2. Decided'
    BY <1>11 DEF TurnSucceeds, MainGoes, LastCheck, ZTurnTypeOK, Decided
  <2>3. OneStory'
    BY <1>11 DEF TurnSucceeds, MainGoes, LastCheck, ZTurnTypeOK, OneStory, StageFits, Event
  <2>4. StageFits'
    BY <1>11 DEF TurnSucceeds, MainGoes, LastCheck, ZTurnTypeOK, StageFits
  <2> QED BY <2>1, <2>2, <2>3, <2>4
<1>12. ASSUME TurnFails PROVE ZTurnInv'
  <2>1. ZTurnTypeOK'
    BY <1>12 DEF TurnFails, Over, ZTurnTypeOK, TurnStages, Permission, Input
  <2>2. Decided'
    BY <1>12 DEF TurnFails, Over, ZTurnTypeOK, Decided
  <2>3. OneStory'
    BY <1>12 DEF TurnFails, Over, ZTurnTypeOK, OneStory, StageFits, Event
  <2>4. StageFits'
    BY <1>12 DEF TurnFails, Over, ZTurnTypeOK, StageFits
  <2> QED BY <2>1, <2>2, <2>3, <2>4
<1>13. ASSUME UNCHANGED zTurnVars PROVE ZTurnInv'
  BY <1>13 DEF zTurnVars, ZTurnTypeOK, Decided, OneStory, StageFits
<1> QED BY <1>1, <1>2, <1>3, <1>4, <1>5, <1>6, <1>7, <1>8, <1>9, <1>10, <1>11, <1>12, <1>13 DEF
       ZTurnNext

\* The invariant holds in every invocation.
LEMMA ZTurnInvariant == ZTurnSpec => []ZTurnInv
BY ZTurnInitially, ZTurnPreserved, PTL DEF ZTurnSpec

\* The state of an invocation always has its type.
THEOREM ZTurnTypes == ZTurnSpec => []ZTurnTypeOK
BY ZTurnInvariant, PTL DEF ZTurnInv

\* Whatever the server writes, _permission allows a tool call in the running turn
\* only, and one input for one request id.
THEOREM AllowsOnce == ZTurnSpec => []AllowedOnceInTurn
<1>1. ZTurnInv => AllowedOnceInTurn
  BY DEF ZTurnInv, Decided, AllowedOnceInTurn
<1> QED BY <1>1, ZTurnInvariant, PTL

\* A success rests on the only terminal above the session's snapshot that the
\* server wrote up to its exit.
THEOREM SuccessHasOneStory == ZTurnSpec => []SuccessIsUnambiguous
<1>1. ZTurnInv => SuccessIsUnambiguous
  BY DEF ZTurnInv, ZTurnTypeOK, OneStory, StageFits, SuccessIsUnambiguous
<1> QED BY <1>1, ZTurnInvariant, PTL
=============================================================================
