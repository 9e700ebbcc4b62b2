------------------------------- MODULE MCHost -------------------------------
(***************************************************************************)
(* The parts of a host that share no state with each other: how a worker   *)
(* reads a claim, the desktop native job, the ZCode context and the ZCode  *)
(* turn of a provider, the parity check of the registry and the washer.    *)
(* The initial state picks the part that moves, the others stay in one     *)
(* initial state.                                                          *)
(***************************************************************************)
EXTENDS ClaimValidation, DesktopNative, ZCodeContext, ZCodeTurn, RegistryAuthority, Washer, TLC

CONSTANTS d1, p1

VARIABLE hostPart

hostVars == <<hostPart, claimVars, nativeVars, zContextVars, zTurnVars, registryVars,
              washerVars>>

\* Three attempts of this agent's job in one tree, two of them under another
\* spelling of its path, and an attempt of another agent.
MCPaths == {"/w/t", "/w//t", "/w/./t", "/w/u"}
MCNormalPath == [p \in MCPaths |-> IF p = "/w/u" THEN p ELSE "/w/t"]
MCDotted == {"/w/./t"}
MCAttempt(job, count, agent, path) ==
  [job |-> job, count |-> count, agent |-> agent, profile |-> agent,
   adapter |-> "codex", host |-> "h", path |-> path]
MCAttempts == {MCAttempt("j1", 1, "me", "/w/t"), MCAttempt("j1", 2, "me", "/w//t"),
               MCAttempt("j1", 3, "me", "/w/./t"),
               MCAttempt("j2", 1, "other", "/w/u")}

MCAdapterOf == [d \in {d1} |-> p1]

\* Events are only told apart by their names, so these may be swapped.
Symmetry == Permutations(EventIds)

HostInit ==
  /\ hostPart \in {"claim", "native", "context", "turn", "registry", "washer"}
  /\ ClaimInit /\ NativeInit /\ ZContextInit /\ ZTurnInit /\ RegistryInit /\ WasherInit
  /\ hostPart # "native" => nKind = "codex"

ClaimStep ==
  /\ hostPart = "claim" /\ ClaimNext
  /\ UNCHANGED <<hostPart, nativeVars, zContextVars, zTurnVars, registryVars, washerVars>>

NativeStep ==
  /\ hostPart = "native" /\ NativeNext
  /\ UNCHANGED <<hostPart, claimVars, zContextVars, zTurnVars, registryVars, washerVars>>

ZContextStep ==
  /\ hostPart = "context" /\ ZContextNext
  /\ UNCHANGED <<hostPart, claimVars, nativeVars, zTurnVars, registryVars, washerVars>>

ZTurnStep ==
  /\ hostPart = "turn" /\ ZTurnNext
  /\ UNCHANGED <<hostPart, claimVars, nativeVars, zContextVars, registryVars, washerVars>>

RegistryStep ==
  /\ hostPart = "registry" /\ RegistryNext
  /\ UNCHANGED <<hostPart, claimVars, nativeVars, zContextVars, zTurnVars, washerVars>>

WasherStep ==
  /\ hostPart = "washer" /\ WasherNext
  /\ UNCHANGED <<hostPart, claimVars, nativeVars, zContextVars, zTurnVars, registryVars>>

HostNext == ClaimStep \/ NativeStep \/ ZContextStep \/ ZTurnStep \/ RegistryStep \/ WasherStep

HostSpec == HostInit /\ [][HostNext]_hostVars

\* The state of each part of the host has its type.
HostTypeOK == ClaimTypeOK /\ NativeTypeOK /\ ZContextTypeOK /\ ZTurnTypeOK
              /\ RegistryTypeOK /\ WasherTypeOK
=============================================================================
