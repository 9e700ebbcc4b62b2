------------------------------ MODULE MCBridge ------------------------------
(***************************************************************************)
(* The parts of the Discord bridge that share no state with each other:    *)
(* the direct session path, the admission of a message and the handoffs of *)
(* the coordinator.  The initial state picks the part that moves, the      *)
(* others stay in one initial state.                                       *)
(***************************************************************************)
EXTENDS DirectSession, ChannelAdmission, CoordinatorHandoff

VARIABLE bridgePart

bridgeVars == <<bridgePart, directVars, admissionVars, handoffVars>>

\* Both clients of the instance use one Coordinate endpoint.
MCAuthority == [c \in Clients |-> "coordinate"]

StillDirect == ~dSerial /\ dDir = (CHOOSE d \in DirectDirs : TRUE)
               /\ ~dRow["legacy"].active /\ dRow["legacy"].dir = dDir

BridgeInit ==
  /\ bridgePart \in {"direct", "admission", "handoff"}
  /\ DirectInit /\ AdmissionInit /\ HandoffInit
  /\ bridgePart # "direct" => StillDirect
  /\ bridgePart # "admission" => cBinding = Unbound
  /\ bridgePart # "handoff" => ~hManaged

DirectStep ==
  /\ bridgePart = "direct" /\ DirectNext
  /\ UNCHANGED <<bridgePart, admissionVars, handoffVars>>

AdmissionStep ==
  /\ bridgePart = "admission" /\ AdmissionNext
  /\ UNCHANGED <<bridgePart, directVars, handoffVars>>

HandoffStep ==
  /\ bridgePart = "handoff" /\ HandoffNext
  /\ UNCHANGED <<bridgePart, directVars, admissionVars>>

BridgeNext == DirectStep \/ AdmissionStep \/ HandoffStep

BridgeSpec == BridgeInit /\ [][BridgeNext]_bridgeVars

\* The state of each part of the bridge has its type.
BridgeTypeOK == DirectTypeOK /\ AdmissionTypeOK /\ HandoffTypeOK
=============================================================================
