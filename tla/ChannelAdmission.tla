-------------------------- MODULE ChannelAdmission --------------------------
(***************************************************************************)
(* How the Discord clients of one bridge admit a message in managed mode:  *)
(* the resolution of the channel's workspace, one Coordinate call shared by *)
(* the clients that see the same event, and what becomes of the message.    *)
(* The bridge runs on one event loop: code between two awaits is one step.  *)
(* A slash command resolves the channel too, on its own and without state.  *)
(* An edit that arrives while the message is still being resolved is left   *)
(* out.                                                                    *)
(***************************************************************************)
EXTENDS Naturals

CONSTANTS Clients,     \* the Discord clients, one per agent
          Events,      \* messages of the channel, seen by every client
          Authority,   \* the Coordinate endpoint each client is configured with
          Workspaces,  \* workspaces the channel may be bound to
          Unbound      \* the channel has no workspace

ASSUME AdmissionConstants ==
  /\ Unbound \notin Workspaces
  /\ {"error", "none"} \cap (Workspaces \cup {Unbound}) = {} /\ "none" \notin Clients

VARIABLES
  cBinding,  \* the workspace of the channel in Coordinate
  cSince,    \* history: the bindings since an event was first seen
  cFuture,   \* _channel_resolve_inflight
  cTask      \* the handler of each client and event

admissionVars == <<cBinding, cSince, cFuture, cTask>>

Bindings == Workspaces \cup {Unbound}
Answers == Bindings \cup {"error", "none"}
Keys == {<<Authority[c], e>> : c \in Clients, e \in Events}
AdmissionPc == {"none", "lookup", "waiting", "resolved", "handled", "recorded",
                "notified", "dropped", "cancelled"}
Task == [pc : AdmissionPc, addressed : BOOLEAN, answer : Answers]

\* The future of a key: the client whose task started the call and completes it.
NoFuture == "none"

AdmissionTypeOK ==
  /\ cBinding \in Bindings
  /\ cSince \in [Events -> SUBSET Bindings]
  /\ cFuture \in [Keys -> Clients \cup {NoFuture}]
  /\ cTask \in [Clients -> [Events -> Task]]

AdmissionInit ==
  /\ cBinding \in Bindings
  /\ cSince = [e \in Events |-> {}]
  /\ cFuture = [k \in Keys |-> NoFuture]
  /\ cTask = [c \in Clients |-> [e \in Events |->
                [pc |-> "none", addressed |-> FALSE, answer |-> "none"]]]

\* The operator binds the channel to another workspace, or unbinds it.
Rebind(b) ==
  /\ b # cBinding
  /\ cBinding' = b
  /\ cSince' = [e \in Events |-> IF cSince[e] = {} THEN {} ELSE cSince[e] \cup {b}]
  /\ UNCHANGED <<cFuture, cTask>>

\* Mutant: the event is not part of the key.
KeyOf_AnyEvent(c, e) == <<Authority[c], CHOOSE x \in Events : TRUE>>

\* What the clients that share a call have in common.
KeyOf(c, e) == <<Authority[c], e>>

\* What the gates of a message tell apart.  An ignored author is the agent itself,
\* a user who is not allowed, or a bot where the agent does not answer bots.  What
\* a bot hands over is a handoff or a lifecycle notice of the coordinator.
Messages == [author : {"ignored", "bot", "human"}, addressed : BOOLEAN, handoff : BOOLEAN]

\* on_message: the client answers to users, and to bots that hand it something.
Admits(m) ==
  /\ m.author # "ignored"
  /\ m.author = "bot" => m.addressed /\ m.handoff

\* on_message_edit: only a bot's edit that now hands something to the agent.
AdmitsEdit(m) == m.author = "bot" /\ Admits(m)

Handling == {"lookup", "waiting", "resolved"}

\* A message, or the edit of a message, up to the resolution.  The first client
\* to ask starts the call, the others wait for its future.  An edit is handled
\* whether or not the message already was.
Observe(c, e, m, edited) ==
  /\ IF edited THEN AdmitsEdit(m) /\ cTask[c][e].pc \notin Handling
               ELSE Admits(m) /\ cTask[c][e].pc = "none"
  /\ cSince' = [cSince EXCEPT ![e] = @ \cup {cBinding}]
  /\ LET k == KeyOf(c, e)
         joins == cFuture[k] # NoFuture
     IN /\ cTask' = [cTask EXCEPT ![c][e] =
                       [pc |-> IF joins THEN "waiting" ELSE "lookup",
                        addressed |-> m.addressed, answer |-> "none"]]
        /\ cFuture' = IF joins THEN cFuture
                      ELSE [cFuture EXCEPT ![k] = c]
  /\ UNCHANGED <<cBinding>>

\* Coordinate serves the call of the task that started it, or the call fails.
ServeLookup(c, e) ==
  /\ cTask[c][e].pc = "lookup" /\ cTask[c][e].answer = "none"
  /\ \E a \in {cBinding, "error"} : cTask' = [cTask EXCEPT ![c][e].answer = a]
  /\ UNCHANGED <<cBinding, cSince, cFuture>>

\* Mutant: the answer itself is taken for what becomes of the message.
Outcome_Answer(t, answer) == answer

\* What becomes of a message once the workspace is known: it is recorded under
\* the workspace and, when addressed to the agent, handled (as a command, a
\* handoff or a request); an unbound channel or a failed call is visible to whom
\* addressed the agent.
Outcome(t, answer) ==
  IF answer \in Workspaces
  THEN IF t.addressed THEN "handled" ELSE "recorded"
  ELSE IF t.addressed THEN "notified" ELSE "dropped"

\* The handler is over; a cancelled one used no answer.
Settle(t, pc) ==
  [pc |-> pc, addressed |-> FALSE,
   answer |-> IF pc = "cancelled" THEN "none" ELSE t.answer]

Awaits(c, e, d, f) ==
  /\ cTask[d][f].pc = "waiting" /\ KeyOf(d, f) = KeyOf(c, e)

\* Mutant: the future of a failed call is removed and never completed.
Woken_OnlyResults(answer) == answer \notin {"error", "cancelled"}

\* set_result or set_exception wake every waiter.
Woken(answer) == TRUE

\* The future is completed and removed in one step, and the waiters are woken.
Complete(c, e, answer, pc) ==
  /\ cTask' = [d \in Clients |-> [f \in Events |->
       IF d = c /\ f = e THEN Settle(cTask[c][e], pc)
       ELSE IF Awaits(c, e, d, f) /\ Woken(answer)
       THEN IF answer = "cancelled" THEN Settle(cTask[d][f], "cancelled")
            ELSE [cTask[d][f] EXCEPT !.pc = "resolved", !.answer = answer]
       ELSE cTask[d][f]]]
  /\ cFuture' = [cFuture EXCEPT ![KeyOf(c, e)] = NoFuture]

\* The answer reaches the task that asked.
ReturnLookup(c, e) ==
  /\ cTask[c][e].pc = "lookup" /\ cTask[c][e].answer # "none"
  /\ Complete(c, e, cTask[c][e].answer, Outcome(cTask[c][e], cTask[c][e].answer))
  /\ UNCHANGED <<cBinding, cSince>>

\* The task that asked is cancelled: its waiters get the cancellation.
CancelOwner(c, e) ==
  /\ cTask[c][e].pc = "lookup"
  /\ Complete(c, e, "cancelled", "cancelled")
  /\ UNCHANGED <<cBinding, cSince>>

\* A waiter is cancelled: the future is shielded.
CancelWaiter(c, e) ==
  /\ cTask[c][e].pc = "waiting"
  /\ cTask' = [cTask EXCEPT ![c][e] = Settle(@, "cancelled")]
  /\ UNCHANGED <<cBinding, cSince, cFuture>>

\* A woken waiter goes on.
Resume(c, e) ==
  /\ cTask[c][e].pc = "resolved"
  /\ cTask' = [cTask EXCEPT ![c][e] = Settle(@, Outcome(@, @.answer))]
  /\ UNCHANGED <<cBinding, cSince, cFuture>>

AdmissionNext ==
  \/ \E b \in Bindings : Rebind(b)
  \/ \E c \in Clients, e \in Events :
       \/ \E m \in Messages, edited \in BOOLEAN : Observe(c, e, m, edited)
       \/ ServeLookup(c, e) \/ ReturnLookup(c, e) \/ Resume(c, e)
       \/ CancelOwner(c, e) \/ CancelWaiter(c, e)

AdmissionSpec == AdmissionInit /\ [][AdmissionNext]_admissionVars

----------------------------------------------------------------------------
\* The binding a message is handled under was the channel's binding at some
\* time since a client first saw the event: sharing a call is no cache of
\* earlier events (DiscordBridge.resolve_channel_workspace).
BindingNotOlderThanEvent ==
  \A c \in Clients, e \in Events :
    cTask[c][e].answer \in Bindings => cTask[c][e].answer \in cSince[e]

\* A waiter always waits for a call that is under way, so that no client hangs on
\* a call another one started and that failed or was cancelled.
WaiterHasOwner ==
  \A c \in Clients, e \in Events : cTask[c][e].pc = "waiting" =>
    /\ cFuture[KeyOf(c, e)] # NoFuture
    /\ \E d \in Clients, f \in Events : cTask[d][f].pc = "lookup" /\ KeyOf(d, f) = KeyOf(c, e)
=============================================================================
