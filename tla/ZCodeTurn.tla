----------------------------- MODULE ZCodeTurn ------------------------------
(***************************************************************************)
(* One invocation of the native ZCode app server (_NativeClient): invoke   *)
(* opens the session, sends the input, waits for the terminal and drains;  *)
(* beside it the read loop takes whatever the server writes, one message   *)
(* at a time.  The server is not trusted to be well behaved: it may repeat, *)
(* contradict or invent events and permission requests.  Wire schemas are  *)
(* abstracted to what a message claims; one that no schema admits is Noise. *)
(***************************************************************************)
EXTENDS Naturals, FiniteSets

CONSTANTS Turns,         \* turn ids the server may name
          EventIds,      \* event ids it may use
          EventSeqs,     \* event sequence numbers it may use
          Requests,      \* permission request ids it may use
          DecisionLimit, \* the most requests one invocation decides (256)
          NoTurn, NoTerminal

ASSUME ZTurnNumbers == EventSeqs \in SUBSET Nat /\ DecisionLimit \in Nat

VARIABLES
  tStage,      \* where invoke and _execute are
  tReading,    \* the read loop runs
  tFailed,     \* _failure is set
  tFloor,      \* _event_floor: the sequence number of the session's snapshot
  tTurn,       \* turn_id
  tTerminal,   \* _terminal
  tHashes,     \* events whose hash was stored
  tDecisions,  \* _decisions: the answered permission requests
  tRead,       \* history: the events read above the floor of that time
  tAllowed     \* history: the inputs that were allowed, and when

zTurnVars == <<tStage, tReading, tFailed, tFloor, tTurn, tTerminal, tHashes, tDecisions,
               tRead, tAllowed>>

TurnStages == {"open", "subscribed", "sent", "accepted", "drain", "closing", "exited",
               "success", "failed"}
Event == {e \in [id : EventIds, seq : EventSeqs,
                 kind : {"started", "completed", "drift", "closed"},
                 turn : Turns, mine : BOOLEAN, success : BOOLEAN] :
            e.success => e.kind = "completed"}
ASSUME ZTurnConstants == NoTurn \notin Turns /\ NoTerminal \notin Event

Input == {"permitted", "refused"}   \* what ZCodePermissionPolicy.decide says of it
Permission == [req : Requests, turn : Turns, input : Input]

ZTurnTypeOK ==
  /\ tStage \in TurnStages /\ tReading \in BOOLEAN /\ tFailed \in BOOLEAN
  /\ tFloor \in Nat
  /\ tTurn \in Turns \cup {NoTurn}
  /\ tTerminal \in Event \cup {NoTerminal}
  /\ tHashes \in SUBSET Event /\ tRead \in SUBSET Event
  /\ tDecisions \in SUBSET Permission
  /\ tAllowed \in SUBSET [permission : Permission, turn : Turns \cup {NoTurn},
                          ended : BOOLEAN]

ZTurnInit ==
  /\ tStage = "open" /\ tReading = TRUE /\ tFailed = FALSE /\ tFloor = 0
  /\ tTurn = NoTurn /\ tTerminal = NoTerminal
  /\ tHashes = {} /\ tDecisions = {} /\ tRead = {} /\ tAllowed = {}

Over == tStage \in {"success", "failed"}
SendIssued == tStage \notin {"open", "subscribed"}

\* An exception in the read loop: recorded, every waiter woken, no more reads.
ReaderFails == tFailed' = TRUE /\ tReading' = FALSE
Ignored == UNCHANGED <<tTurn, tTerminal, tFailed, tReading>>

\* Mutant: a later terminal replaces the first one.
CompletedOk_Last(e) == tTurn = e.turn /\ e.mine

\* _completed: the terminal of this input and turn, and of no other event.
CompletedOk(e) == tTurn = e.turn /\ e.mine /\ tTerminal \in {NoTerminal, e}

\* _started: the answer to the input that was sent, of one turn only.
StartedOk(e) == SendIssued /\ e.mine /\ tTurn \in {NoTurn, e.turn}

\* The snapshot the session was opened with already contains the event.
InSnapshot(e) == e.seq <= tFloor

Recorded(e) ==
  /\ tRead' = tRead \cup {e}
  /\ tHashes' = IF \E f \in tHashes : f.id = e.id THEN tHashes ELSE tHashes \cup {e}

\* _event: an event at or below the snapshot is ignored, a repeated one too; one
\* that contradicts its own id, its turn or its input ends the invocation.  The
\* events in the answer to the subscription go the same way.
ReadEvent(e) ==
  /\ tReading
  /\ \/ InSnapshot(e) /\ Ignored /\ UNCHANGED <<tRead, tHashes>>
     \/ ~InSnapshot(e) /\ Recorded(e) /\ e \in tHashes /\ Ignored
     \/ /\ ~InSnapshot(e) /\ Recorded(e)
        /\ \E f \in tHashes : f.id = e.id /\ f # e
        /\ ReaderFails /\ UNCHANGED <<tTurn, tTerminal>>
     \/ /\ ~InSnapshot(e) /\ Recorded(e)
        /\ \A f \in tHashes : f.id # e.id
        /\ \/ /\ e.kind = "started" /\ StartedOk(e)
              /\ tTurn' = e.turn /\ UNCHANGED <<tTerminal, tFailed, tReading>>
           \/ /\ e.kind = "completed" /\ CompletedOk(e)
              /\ tTerminal' = e /\ UNCHANGED <<tTurn, tFailed, tReading>>
           \/ e.kind = "closed" /\ tTerminal # NoTerminal /\ Ignored
           \/ /\ \/ e.kind = "started" /\ ~StartedOk(e)
                 \/ e.kind = "completed" /\ ~CompletedOk(e)
                 \/ e.kind = "closed" /\ tTerminal = NoTerminal
                 \/ e.kind = "drift"
              /\ ReaderFails /\ UNCHANGED <<tTurn, tTerminal>>
  /\ UNCHANGED <<tStage, tFloor, tDecisions, tAllowed>>

\* Mutant: a decision is remembered by the request id and not by the input.
SameRequest_Id(d, p) == d.req = p.req

\* The request hash covers the input and the turn.
SameRequest(d, p) == d = p

\* Mutant: a permission asked for after the terminal still counts.
InTurn_Ended(p) == tTurn = p.turn

\* The request belongs to the turn that runs.
InTurn(p) == tTurn = p.turn /\ tTerminal = NoTerminal

\* The answer to p is the verdict; what the server then runs is p.
Answer(p, verdict) ==
  tAllowed' = IF verdict = "permitted"
              THEN tAllowed \cup {[permission |-> p, turn |-> tTurn,
                                   ended |-> tTerminal # NoTerminal]}
              ELSE tAllowed

Earlier(p) == {d \in tDecisions : d.req = p.req}

\* _permission: a repeated request gets the decision it got before; one that is
\* not of the running turn, contradicts an earlier one, or comes after
\* DecisionLimit others is denied and ends the invocation.  A decision that cannot
\* be recorded on disk is remembered, not answered, and ends it too.
ReadPermission(p) ==
  /\ tReading
  /\ \/ /\ \/ ~InTurn(p)
           \/ \E d \in Earlier(p) : ~SameRequest(d, p)
           \/ Earlier(p) = {} /\ Cardinality(tDecisions) >= DecisionLimit
        /\ ReaderFails /\ UNCHANGED <<tDecisions, tAllowed>>
     \/ /\ InTurn(p)
        /\ \E d \in Earlier(p) : SameRequest(d, p) /\ Answer(p, d.input)
        /\ UNCHANGED <<tDecisions, tFailed, tReading>>
     \/ /\ InTurn(p) /\ Earlier(p) = {} /\ Cardinality(tDecisions) < DecisionLimit
        /\ tDecisions' = tDecisions \cup {p}
        /\ \/ Answer(p, p.input) /\ UNCHANGED <<tFailed, tReading>>
           \/ ReaderFails /\ UNCHANGED tAllowed
  /\ UNCHANGED <<tStage, tFloor, tTurn, tTerminal, tHashes, tRead>>

\* A message no schema admits, an unknown request or response id, a mode change,
\* a rejected input, an integrity check that fails, or the end of the output
\* before the drain.
Noise ==
  /\ tReading
  /\ ReaderFails
  /\ UNCHANGED <<tStage, tFloor, tTurn, tTerminal, tHashes, tDecisions, tRead, tAllowed>>

\* The output ends after the drain.
EndOfFile ==
  /\ tReading /\ tStage \in {"closing", "exited"}
  /\ tReading' = FALSE
  /\ UNCHANGED <<tStage, tFailed, tFloor, tTurn, tTerminal, tHashes, tDecisions, tRead,
                 tAllowed>>

MainGoes(from, to) ==
  /\ tStage = from /\ tStage' = to
  /\ UNCHANGED <<tReading, tFailed, tTurn, tTerminal, tHashes, tDecisions, tRead, tAllowed>>

\* _open_session, session/subscribe, and session/send: each call fails when the
\* reader failed, and otherwise when the server answers with an error.  The
\* snapshot of the opened session sets the floor.
OpenSession ==
  /\ ~tFailed /\ MainGoes("open", "subscribed")
  /\ tFloor' \in EventSeqs
IssueInput == ~tFailed /\ MainGoes("subscribed", "sent") /\ UNCHANGED tFloor
InputAccepted == ~tFailed /\ MainGoes("sent", "accepted") /\ UNCHANGED tFloor

\* _finished is set.
TerminalSeen == ~tFailed /\ tTerminal # NoTerminal /\ MainGoes("accepted", "drain")
                /\ UNCHANGED tFloor

\* _drain_terminal: the session is idle, at or past the terminal, with nothing
\* pending.
Drained == ~tFailed /\ MainGoes("drain", "closing") /\ UNCHANGED tFloor

\* The input is closed and the process exits within 3 seconds.
ProcessExits == MainGoes("closing", "exited") /\ UNCHANGED tFloor

\* Mutant: what the reader met after the drain is not looked at.
LastCheck_None == TRUE

\* The reader is awaited and its failure raised.
LastCheck == ~tReading /\ ~tFailed

\* Only a terminal that says success is a success.
TurnSucceeds ==
  /\ tStage = "exited" /\ LastCheck
  /\ tTerminal.success
  /\ MainGoes("exited", "success") /\ UNCHANGED tFloor

\* An error of any step, a terminal that is no success, the total timeout or a
\* cancellation: the native process is stopped.
TurnFails ==
  /\ ~Over
  /\ tStage' = "failed" /\ tReading' = FALSE
  /\ UNCHANGED <<tFailed, tFloor, tTurn, tTerminal, tHashes, tDecisions, tRead, tAllowed>>

ZTurnNext ==
  \/ Noise \/ EndOfFile
  \/ \E e \in Event : ReadEvent(e)
  \/ \E p \in Permission : ReadPermission(p)
  \/ OpenSession \/ IssueInput \/ InputAccepted \/ TerminalSeen \/ Drained
  \/ ProcessExits \/ TurnSucceeds \/ TurnFails

ZTurnSpec == ZTurnInit /\ [][ZTurnNext]_zTurnVars

----------------------------------------------------------------------------
\* A success was told by exactly one terminal, of this input and of the only turn
\* the server started for it; no event above the snapshot the session was opened
\* with, up to the exit of the process, contradicts it.
SuccessIsUnambiguous ==
  tStage = "success" =>
    /\ {e \in tRead : e.kind = "completed"} = {tTerminal}
    /\ \A e \in tRead : e.kind # "drift"
    /\ \A e \in tRead : e.kind \in {"started", "completed"} => e.turn = tTurn /\ e.mine

\* An allowed tool call belongs to the turn that was running, and one request
\* id never allowed two different inputs or was allowed after it was refused.
AllowedOnceInTurn ==
  /\ \A a \in tAllowed : a.permission.turn = a.turn /\ ~a.ended
  /\ \A a \in tAllowed : \A d \in tDecisions :
       a.permission.req = d.req => a.permission = d
=============================================================================
