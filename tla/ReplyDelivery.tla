--------------------------- MODULE ReplyDelivery ---------------------------
(***************************************************************************)
(* The bridge's side of a managed request: a chat client submits the job,   *)
(* journals its reply in runtime_reply_outbox, waits for the job and sends  *)
(* the reply (DiscordClient._handle_via_agentd, KookBridge), while recovery *)
(* tasks of the same and of other clients replay the rows that are still    *)
(* pending (_recover_runtime_replies).  All clients share one outbox;       *)
(* handlers and recovery tasks interleave at every await, and a bridge      *)
(* process may crash.                                                       *)
(***************************************************************************)
EXTENDS Naturals, FiniteSets

CONSTANTS Client,      \* the chat clients that share the outbox
          Kook,        \* those that are KOOK bridges; the others are Discord's
          Bridges,     \* the bridge processes, each the set of its clients
          Job,         \* requests, named by the job they become
          NoClient,    \* "nobody has taken this request yet"
          Limit,       \* rows one recovery task takes (20 in the code)
          MaxShown,    \* bound: sends of a reply that are told apart
          MaxCrashes   \* bound: crashes of bridge processes

ASSUME ClientsAssumption == Kook \subseteq Client /\ NoClient \notin Client
ASSUME BridgesAssumption == UNION Bridges = Client
ASSUME LimitsAssumption  == Limit \in Nat \ {0} /\ MaxShown \in Nat \ {0} /\ MaxCrashes \in Nat

VARIABLES
  coordJob,     \* job -> its state at Coordinate: none, open or final
  row,          \* job -> its row in the outbox: absent, pending or sent
  stamp,        \* job -> when its row was created (created_at_ms)
  clock,        \* the latest stamp
  ready,        \* client -> it is connected and its identity verified
  by,           \* job -> the client that handles the request
  live,         \* job -> where its handler is
  task,         \* client -> where its recovery task is
  queue,        \* client -> the rows its recovery task still has to do
  shown,        \* history: how often the reply became visible
  whole,        \* history: some send showed all of it
  unjournaled,  \* history: the handler ended before it wrote the row
  crashes       \* number of crashes so far

outbox  == <<row, stamp, clock>>
handler == <<by, live>>
recov   == <<task, queue>>
history == <<shown, whole, unjournaled, crashes>>
vars    == <<coordJob, outbox, ready, handler, recov, history>>

Init ==
  /\ coordJob = [j \in Job |-> "none"]
  /\ row = [j \in Job |-> "absent"]
  /\ stamp = [j \in Job |-> 0] /\ clock = 0
  /\ ready = [c \in Client |-> FALSE]
  /\ by = [j \in Job |-> NoClient]
  /\ live = [j \in Job |-> "new"]
  /\ task = [c \in Client |-> "none"] /\ queue = [c \in Client |-> {}]
  /\ shown = [j \in Job |-> 0] /\ whole = [j \in Job |-> FALSE]
  /\ unjournaled = [j \in Job |-> FALSE] /\ crashes = 0

-----------------------------------------------------------------------------
\* Coordinate finishes the job.
JobFinishes(j) ==
  /\ coordJob[j] = "open"
  /\ coordJob' = [coordJob EXCEPT ![j] = "final"]
  /\ UNCHANGED <<outbox, ready, handler, recov, history>>

SamePlatform(c, d) == c \in Kook <=> d \in Kook

\* Mutant: a task that has ended still counts as running.
TaskFree_Forgotten(c) == task[c] = "none"

\* _start_reply_recovery: one task at a time.
TaskFree(c) == task[c] \in {"none", "done"}

StartRecovery(c) == task' = IF TaskFree(c) THEN [task EXCEPT ![c] = "scheduled"] ELSE task

\* on_ready comes after every new gateway session, on_startup of the KOOK
\* bridge once in a process.
OnReady(c) ==
  /\ c \in Kook => ~ready[c]
  /\ ready' = [ready EXCEPT ![c] = TRUE]
  /\ StartRecovery(c)
  /\ UNCHANGED <<coordJob, outbox, handler, queue, history>>

\* mark_runtime_reply_sent
MarkSent(j) == row' = [row EXCEPT ![j] = IF @ = "pending" THEN "sent" ELSE @]

\* The first chunk of the reply is visible in the channel.
BecomesVisible(j) ==
  shown' = [shown EXCEPT ![j] = IF @ < MaxShown THEN @ + 1 ELSE @]

\* Mutant: KOOK takes the first chunk for the reply, as Discord does.
FirstChunkIsEnough_Always(c) == TRUE

\* _send_text_chunks of the Discord client says "delivered" although a later
\* chunk failed; the KOOK bridge lets the error escape.
FirstChunkIsEnough(c) == c \notin Kook

\* The send returns: the rest of the chunks went out, or one of them failed.
SendReturns(c, j) ==
  /\ \/ whole' = [whole EXCEPT ![j] = TRUE]
     \/ FirstChunkIsEnough(c) /\ UNCHANGED whole
  /\ MarkSent(j)

-----------------------------------------------------------------------------
(* The handler of a request.                                               *)

Submit(c, j) ==
  /\ ready[c] /\ live[j] = "new"
  /\ by' = [by EXCEPT ![j] = c]
  /\ live' = [live EXCEPT ![j] = "submitting"]
  /\ UNCHANGED <<coordJob, outbox, ready, recov, history>>

\* The request may be served after the client gave it up.
SubmitServed(j) ==
  /\ live[j] = "submitting" \/ unjournaled[j]
  /\ coordJob[j] = "none"
  /\ coordJob' = [coordJob EXCEPT ![j] = "open"]
  /\ UNCHANGED <<outbox, ready, handler, recov, history>>

\* An error or an answer without a job; the job may exist nevertheless.
SubmitFails(j) ==
  /\ live[j] = "submitting"
  /\ live' = [live EXCEPT ![j] = "over"]
  /\ unjournaled' = [unjournaled EXCEPT ![j] = TRUE]
  /\ UNCHANGED <<coordJob, outbox, ready, by, recov, shown, whole, crashes>>

\* record_runtime_reply comes right after the answer.
SubmitAnswered(j) ==
  /\ live[j] = "submitting" /\ coordJob[j] # "none"
  /\ live' = [live EXCEPT ![j] = "waiting"]
  /\ row' = [row EXCEPT ![j] = "pending"]
  /\ clock' = clock + 1
  /\ stamp' = [stamp EXCEPT ![j] = clock']
  /\ UNCHANGED <<coordJob, ready, by, recov, history>>

JobSeen(j) ==
  /\ live[j] = "waiting" /\ coordJob[j] = "final"
  /\ live' = [live EXCEPT ![j] = "sending"]
  /\ UNCHANGED <<coordJob, outbox, ready, by, recov, history>>

\* wait_for_job_result returns None: a text says so, recovery is started, and
\* the row stays pending.
TimedOut(j) ==
  /\ live[j] = "waiting" /\ coordJob[j] # "final"
  /\ live' = [live EXCEPT ![j] = "over"]
  /\ StartRecovery(by[j])
  /\ UNCHANGED <<coordJob, outbox, ready, by, queue, history>>

ReplyVisible(j) ==
  /\ live[j] = "sending"
  /\ live' = [live EXCEPT ![j] = "visible"]
  /\ BecomesVisible(j)
  /\ UNCHANGED <<coordJob, outbox, ready, by, recov, whole, unjournaled, crashes>>

ReplySent(j) ==
  /\ live[j] = "visible"
  /\ live' = [live EXCEPT ![j] = "over"]
  /\ SendReturns(by[j], j)
  /\ UNCHANGED <<coordJob, stamp, clock, ready, by, recov, shown, unjournaled, crashes>>

\* The wait or the send raises: the handler ends without a mark.
HandlerFails(j) ==
  /\ live[j] \in {"waiting", "sending", "visible"}
  /\ live' = [live EXCEPT ![j] = "over"]
  /\ UNCHANGED <<coordJob, outbox, ready, by, recov, history>>

-----------------------------------------------------------------------------
(* The recovery task of a client.                                          *)

\* pending_runtime_replies: the oldest pending rows of the platform.
PendingRows(c) ==
  LET mine == {j \in Job : row[j] = "pending" /\ SamePlatform(by[j], c)}
  IN  {j \in mine : Cardinality({i \in mine : stamp[i] < stamp[j]}) < Limit}

TakeSnapshot(c) ==
  /\ task[c] = "scheduled"
  /\ queue' = [queue EXCEPT ![c] = PendingRows(c)]
  /\ task' = [task EXCEPT ![c] = IF PendingRows(c) = {} THEN "done" ELSE "waiting"]
  /\ UNCHANGED <<coordJob, outbox, ready, handler, history>>

\* The row the for loop of the task is at.
Current(c, j) == j \in queue[c] /\ \A i \in queue[c] : stamp[j] <= stamp[i]

\* Mutant: the last row is kept when the task ends.
NextRow_Kept(c, j) ==
  /\ task' = [task EXCEPT ![c] = IF queue[c] = {j} THEN "done" ELSE "waiting"]
  /\ queue' = [queue EXCEPT ![c] = IF @ = {j} THEN @ ELSE @ \ {j}]

\* The loop goes on with the next row of its snapshot, whatever became of
\* that row meanwhile.
NextRow(c, j) ==
  /\ task' = [task EXCEPT ![c] = IF queue[c] = {j} THEN "done" ELSE "waiting"]
  /\ queue' = [queue EXCEPT ![c] = @ \ {j}]

RecoverySees(c, j) ==
  /\ task[c] = "waiting" /\ Current(c, j) /\ coordJob[j] = "final"
  /\ task' = [task EXCEPT ![c] = "sending"]
  /\ UNCHANGED <<coordJob, outbox, ready, handler, queue, history>>

RecoveryVisible(c, j) ==
  /\ task[c] = "sending" /\ Current(c, j)
  /\ task' = [task EXCEPT ![c] = "visible"]
  /\ BecomesVisible(j)
  /\ UNCHANGED <<coordJob, outbox, ready, handler, queue, whole, unjournaled, crashes>>

RecoverySent(c, j) ==
  /\ task[c] = "visible" /\ Current(c, j)
  /\ NextRow(c, j)
  /\ SendReturns(c, j)
  /\ UNCHANGED <<coordJob, stamp, clock, ready, handler, shown, unjournaled, crashes>>

\* Mutant: the error path acknowledges the row.
RecoverySkips_Marks(c, j) ==
  /\ task[c] \in {"waiting", "sending", "visible"} /\ Current(c, j)
  /\ NextRow(c, j) /\ MarkSent(j)
  /\ UNCHANGED <<coordJob, stamp, clock, ready, handler, history>>

\* The wait times out, or anything raises: on to the next row.
RecoverySkips(c, j) ==
  /\ task[c] \in {"waiting", "sending", "visible"} /\ Current(c, j)
  /\ NextRow(c, j)
  /\ UNCHANGED <<coordJob, outbox, ready, handler, history>>

-----------------------------------------------------------------------------
\* A bridge process dies with its handlers and tasks.
Crash(B) ==
  /\ crashes < MaxCrashes /\ \E c \in B : ready[c]
  /\ crashes' = crashes + 1
  /\ ready' = [c \in Client |-> ready[c] /\ c \notin B]
  /\ task' = [c \in Client |-> IF c \in B THEN "none" ELSE task[c]]
  /\ queue' = [c \in Client |-> IF c \in B THEN {} ELSE queue[c]]
  /\ live' = [j \in Job |-> IF by[j] \in B THEN "over" ELSE live[j]]
  /\ unjournaled' = [j \in Job |-> \/ unjournaled[j]
                                   \/ by[j] \in B /\ live[j] = "submitting"]
  /\ UNCHANGED <<coordJob, outbox, by, shown, whole>>

HandlerNext(j) ==
  \/ \E c \in Client : Submit(c, j)
  \/ SubmitServed(j) \/ SubmitFails(j) \/ SubmitAnswered(j)
  \/ JobSeen(j) \/ TimedOut(j)
  \/ ReplyVisible(j) \/ ReplySent(j) \/ HandlerFails(j)

RecoveryNext(c) ==
  \/ TakeSnapshot(c)
  \/ \E j \in queue[c] :
       RecoverySees(c, j) \/ RecoveryVisible(c, j) \/ RecoverySent(c, j) \/ RecoverySkips(c, j)

Next ==
  \/ \E j \in Job : JobFinishes(j) \/ HandlerNext(j)
  \/ \E c \in Client : OnReady(c) \/ RecoveryNext(c)
  \/ \E B \in Bridges : Crash(B)

\* Every job reaches a terminal status, handlers and tasks are scheduled
\* (their waits have timeouts), gateway sessions are renewed now and then,
\* and the platform does not fail a client's recovery at the same point for
\* ever.
Fairness ==
  /\ \A j \in Job : WF_vars(JobFinishes(j)) /\ WF_vars(HandlerNext(j))
  /\ \A c \in Client :
       /\ WF_vars(OnReady(c)) /\ WF_vars(RecoveryNext(c))
       /\ SF_vars(\E j \in Job : RecoverySees(c, j))
       /\ SF_vars(\E j \in Job : RecoveryVisible(c, j))
       /\ SF_vars(\E j \in Job : RecoverySent(c, j))

Spec == Init /\ [][Next]_vars /\ Fairness

-----------------------------------------------------------------------------
(* Properties.                                                             *)

\* The variables have their types; a recovery task that runs has rows to do.
TypeOK ==
  /\ coordJob \in [Job -> {"none", "open", "final"}]
  /\ row \in [Job -> {"absent", "pending", "sent"}]
  /\ stamp \in [Job -> Nat] /\ clock \in Nat
  /\ ready \in [Client -> BOOLEAN]
  /\ by \in [Job -> Client \cup {NoClient}]
  /\ live \in [Job -> {"new", "submitting", "waiting", "sending", "visible", "over"}]
  /\ task \in [Client -> {"none", "scheduled", "waiting", "sending", "visible", "done"}]
  /\ queue \in [Client -> SUBSET Job]
  /\ \A c \in Client :
       queue[c] # {} <=> task[c] \in {"waiting", "sending", "visible"}
  /\ shown \in [Job -> 0..MaxShown] /\ whole \in [Job -> BOOLEAN]
  /\ unjournaled \in [Job -> BOOLEAN] /\ crashes \in 0..MaxCrashes

\* The reply of a job that nobody has seen yet is not forgotten: its row is
\* pending, or its handler has not recorded it yet.  The only gap is a
\* handler that ends between the creation of the job and the row, by a crash
\* or an unanswered submission (record_runtime_reply follows submit_request).
UnseenReplyIsPending ==
  \A j \in Job :
    coordJob[j] # "none" /\ shown[j] = 0 /\ ~unjournaled[j]
      => row[j] = "pending" \/ live[j] = "submitting"

\* A KOOK reply counts as sent only when some send showed all of its chunks,
\* however handlers, tasks and crashes interleave.  (For Discord it does not
\* hold: _send_text_chunks breaks off after a failed chunk and is content.)
KookSentIsWhole ==
  \A j \in Job : by[j] \in Kook /\ row[j] = "sent" => whole[j]

\* As long as gateway sessions come and sends succeed now and then, every
\* journaled Discord reply is delivered in the end, across crashes, timeouts
\* and failed sends, even though a task takes only the oldest Limit rows.
RepliesEventuallySent ==
  \A j \in Job :
    row[j] = "pending" /\ by[j] \notin Kook ~> row[j] = "sent"

\* docs/architecture.md: a delivery that was confirmed is not sent again.
ConfirmedNotResent ==
  [][\A j \in Job : row[j] = "sent" => shown'[j] = shown[j]]_vars
=============================================================================
