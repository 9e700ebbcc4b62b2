------------------------ MODULE ReplyDelivery_proofs ------------------------
(***************************************************************************)
(* Proofs about ReplyDelivery: no unseen reply is forgotten, and a KOOK     *)
(* reply counts as sent only when all of it was shown.  Both follow from    *)
(* IInv, which says where a row, a handler and a recovery task can be       *)
(* relative to each other.  The last part bounds how often a reply that is  *)
(* confirmed may be sent again.                                             *)
(***************************************************************************)
EXTENDS ReplyDelivery, TLAPS

\* A handler writes the row before it waits, and sends before it is done.
Handlers ==
  \A j \in Job :
    /\ live[j] \in {"new", "submitting"} => row[j] = "absent"
    /\ live[j] \in {"waiting", "sending", "visible"} => row[j] # "absent"
    /\ live[j] = "new" => coordJob[j] = "none" /\ by[j] = NoClient
    /\ live[j] # "new" => by[j] \in Client
    /\ live[j] = "visible" => shown[j] > 0
    /\ unjournaled[j] => live[j] = "over"
    /\ coordJob[j] # "none" /\ ~unjournaled[j]
         => row[j] # "absent" \/ live[j] = "submitting"

\* Rows have stamps of their own.
Stamps ==
  \A j \in Job :
    /\ stamp[j] <= clock
    /\ \A i \in Job : row[i] # "absent" /\ row[j] # "absent" /\ stamp[i] = stamp[j] => i = j

\* A recovery task works on rows of its platform.
Tasks ==
  \A c \in Client :
    /\ \A j \in queue[c] : row[j] # "absent" /\ SamePlatform(by[j], c)
    /\ task[c] = "visible" => \A j \in queue[c] : Current(c, j) => shown[j] > 0

\* A row that is marked was shown.
SentIsSeen == \A j \in Job : row[j] = "sent" => shown[j] > 0

IInv == TypeOK /\ Handlers /\ Stamps /\ Tasks /\ SentIsSeen /\ KookSentIsWhole

-----------------------------------------------------------------------------
\* The invariant holds initially.
LEMMA InitInvariant == Init => IInv
BY LimitsAssumption, ClientsAssumption
   DEF Init, IInv, TypeOK, Handlers, Stamps, Tasks, SentIsSeen, KookSentIsWhole

\* Every step keeps the types.
LEMMA TypeStep == IInv /\ [Next]_vars => TypeOK'
<1> SUFFICES ASSUME IInv, [Next]_vars PROVE TypeOK'
  OBVIOUS
<1> USE LimitsAssumption, ClientsAssumption, BridgesAssumption DEF IInv
<1>1. ASSUME NEW j \in Job, JobFinishes(j) PROVE TypeOK'
  BY <1>1 DEF JobFinishes, TypeOK, TaskFree, outbox, handler, recov, history
<1>2. ASSUME NEW j \in Job, NEW c \in Client, Submit(c, j) PROVE TypeOK'
  BY <1>2 DEF Submit, TypeOK, TaskFree, outbox, handler, recov, history
<1>3. ASSUME NEW j \in Job, SubmitServed(j) PROVE TypeOK'
  BY <1>3 DEF SubmitServed, TypeOK, TaskFree, outbox, handler, recov, history
<1>4. ASSUME NEW j \in Job, SubmitFails(j) PROVE TypeOK'
  BY <1>4 DEF SubmitFails, TypeOK, TaskFree, outbox, handler, recov, history
<1>5. ASSUME NEW j \in Job, SubmitAnswered(j) PROVE TypeOK'
  BY <1>5 DEF SubmitAnswered, TypeOK, TaskFree, outbox, handler, recov, history
<1>6. ASSUME NEW j \in Job, JobSeen(j) PROVE TypeOK'
  BY <1>6 DEF JobSeen, TypeOK, TaskFree, outbox, handler, recov, history
<1>7. ASSUME NEW j \in Job, TimedOut(j) PROVE TypeOK'
  BY <1>7 DEF TimedOut, StartRecovery, TypeOK, TaskFree, outbox, handler, recov, history
<1>8. ASSUME NEW j \in Job, ReplyVisible(j) PROVE TypeOK'
  BY <1>8 DEF ReplyVisible, BecomesVisible, TypeOK, TaskFree, outbox, handler, recov,
       history
<1>9. ASSUME NEW j \in Job, ReplySent(j) PROVE TypeOK'
  BY <1>9 DEF ReplySent, SendReturns, MarkSent, FirstChunkIsEnough, TypeOK, TaskFree,
       outbox, handler, recov, history
<1>10. ASSUME NEW j \in Job, HandlerFails(j) PROVE TypeOK'
  BY <1>10 DEF HandlerFails, TypeOK, TaskFree, outbox, handler, recov, history
<1>11. ASSUME NEW c \in Client, OnReady(c) PROVE TypeOK'
  BY <1>11 DEF OnReady, StartRecovery, TypeOK, TaskFree, outbox, handler, recov, history
<1>12. ASSUME NEW c \in Client, TakeSnapshot(c) PROVE TypeOK'
  BY <1>12 DEF TakeSnapshot, PendingRows, TypeOK, TaskFree, outbox, handler, recov,
       history
<1>13. ASSUME NEW c \in Client, NEW j \in Job, RecoverySees(c, j) PROVE TypeOK'
  BY <1>13 DEF RecoverySees, Current, TypeOK, TaskFree, outbox, handler, recov, history
<1>14. ASSUME NEW c \in Client, NEW j \in Job, RecoveryVisible(c, j) PROVE TypeOK'
  BY <1>14 DEF RecoveryVisible, BecomesVisible, Current, TypeOK, TaskFree, outbox,
       handler, recov, history
<1>15. ASSUME NEW c \in Client, NEW j \in Job, RecoverySent(c, j) PROVE TypeOK'
  <2>1. row' \in [Job -> {"absent", "pending", "sent"}] /\ whole' \in [Job -> BOOLEAN]
    BY <1>15 DEF RecoverySent, SendReturns, MarkSent, TypeOK
  <2>2. /\ task' \in [Client -> {"none", "scheduled", "waiting", "sending",
                              "visible", "done"}]
        /\ queue' \in [Client -> SUBSET Job]
        /\ \A d \in Client :
             queue'[d] # {} <=> task'[d] \in {"waiting", "sending", "visible"}
    BY <1>15 DEF RecoverySent, NextRow, Current, TypeOK
  <2> QED
    BY <1>15, <2>1, <2>2 DEF RecoverySent, TypeOK, handler
<1>16. ASSUME NEW c \in Client, NEW j \in Job, RecoverySkips(c, j) PROVE TypeOK'
  BY <1>16 DEF RecoverySkips, NextRow, Current, TypeOK, TaskFree, outbox, handler,
       recov, history
<1>17. ASSUME NEW B \in Bridges, Crash(B) PROVE TypeOK'
  BY <1>17 DEF Crash, TypeOK, TaskFree, outbox, handler, recov, history
<1>18. CASE UNCHANGED vars
  BY <1>18 DEF vars, TypeOK, TaskFree, outbox, handler, recov, history
<1> QED
  BY <1>1, <1>2, <1>3, <1>4, <1>5, <1>6, <1>7, <1>8, <1>9, <1>10, <1>11, <1>12,
       <1>13, <1>14, <1>15, <1>16, <1>17, <1>18 DEF Next, HandlerNext, RecoveryNext,
       TypeOK

\* Every step keeps Handlers.
LEMMA HandlersStep == IInv /\ [Next]_vars => Handlers'
<1> SUFFICES ASSUME IInv, [Next]_vars PROVE Handlers'
  OBVIOUS
<1> USE LimitsAssumption, ClientsAssumption, BridgesAssumption DEF IInv
<1>1. ASSUME NEW j \in Job, JobFinishes(j) PROVE Handlers'
  BY <1>1 DEF JobFinishes, TypeOK, Handlers, outbox, handler, recov, history
<1>2. ASSUME NEW j \in Job, NEW c \in Client, Submit(c, j) PROVE Handlers'
  BY <1>2 DEF Submit, TypeOK, Handlers, outbox, handler, recov, history
<1>3. ASSUME NEW j \in Job, SubmitServed(j) PROVE Handlers'
  BY <1>3 DEF SubmitServed, TypeOK, Handlers, outbox, handler, recov, history
<1>4. ASSUME NEW j \in Job, SubmitFails(j) PROVE Handlers'
  BY <1>4 DEF SubmitFails, TypeOK, Handlers, outbox, handler, recov, history
<1>5. ASSUME NEW j \in Job, SubmitAnswered(j) PROVE Handlers'
  BY <1>5 DEF SubmitAnswered, TypeOK, Handlers, outbox, handler, recov, history
<1>6. ASSUME NEW j \in Job, JobSeen(j) PROVE Handlers'
  BY <1>6 DEF JobSeen, TypeOK, Handlers, outbox, handler, recov, history
<1>7. ASSUME NEW j \in Job, TimedOut(j) PROVE Handlers'
  BY <1>7 DEF TimedOut, StartRecovery, TypeOK, Handlers, outbox, handler, recov, history
<1>8. ASSUME NEW j \in Job, ReplyVisible(j) PROVE Handlers'
  BY <1>8 DEF ReplyVisible, BecomesVisible, TypeOK, Handlers, outbox, handler, recov,
       history
<1>9. ASSUME NEW j \in Job, ReplySent(j) PROVE Handlers'
  BY <1>9 DEF ReplySent, SendReturns, MarkSent, FirstChunkIsEnough, TypeOK, Handlers,
       outbox, handler, recov, history
<1>10. ASSUME NEW j \in Job, HandlerFails(j) PROVE Handlers'
  BY <1>10 DEF HandlerFails, TypeOK, Handlers, outbox, handler, recov, history
<1>11. ASSUME NEW c \in Client, OnReady(c) PROVE Handlers'
  BY <1>11 DEF OnReady, StartRecovery, TypeOK, Handlers, outbox, handler, recov, history
<1>12. ASSUME NEW c \in Client, TakeSnapshot(c) PROVE Handlers'
  BY <1>12 DEF TakeSnapshot, PendingRows, TypeOK, Handlers, outbox, handler, recov,
       history
<1>13. ASSUME NEW c \in Client, NEW j \in Job, RecoverySees(c, j) PROVE Handlers'
  BY <1>13 DEF RecoverySees, Current, TypeOK, Handlers, outbox, handler, recov, history
<1>14. ASSUME NEW c \in Client, NEW j \in Job, RecoveryVisible(c, j) PROVE Handlers'
  BY <1>14 DEF RecoveryVisible, BecomesVisible, Current, TypeOK, Handlers, outbox,
       handler, recov, history
<1>15. ASSUME NEW c \in Client, NEW j \in Job, RecoverySent(c, j) PROVE Handlers'
  BY <1>15 DEF RecoverySent, SendReturns, MarkSent, NextRow, FirstChunkIsEnough,
       Current, TypeOK, Handlers, outbox, handler, recov, history, Tasks
<1>16. ASSUME NEW c \in Client, NEW j \in Job, RecoverySkips(c, j) PROVE Handlers'
  BY <1>16 DEF RecoverySkips, NextRow, Current, TypeOK, Handlers, outbox, handler,
       recov, history
<1>17. ASSUME NEW B \in Bridges, Crash(B) PROVE Handlers'
  BY <1>17 DEF Crash, TypeOK, Handlers, outbox, handler, recov, history
<1>18. CASE UNCHANGED vars
  BY <1>18 DEF vars, TypeOK, Handlers, outbox, handler, recov, history
<1> QED
  BY <1>1, <1>2, <1>3, <1>4, <1>5, <1>6, <1>7, <1>8, <1>9, <1>10, <1>11, <1>12,
       <1>13, <1>14, <1>15, <1>16, <1>17, <1>18 DEF Next, HandlerNext, RecoveryNext,
       TypeOK

\* Every step keeps Stamps.
LEMMA StampsStep == IInv /\ [Next]_vars => Stamps'
<1> SUFFICES ASSUME IInv, [Next]_vars PROVE Stamps'
  OBVIOUS
<1> USE LimitsAssumption, ClientsAssumption, BridgesAssumption DEF IInv
<1>1. ASSUME NEW j \in Job, JobFinishes(j) PROVE Stamps'
  BY <1>1 DEF JobFinishes, TypeOK, Stamps, outbox, handler, recov, history
<1>2. ASSUME NEW j \in Job, NEW c \in Client, Submit(c, j) PROVE Stamps'
  BY <1>2 DEF Submit, TypeOK, Stamps, outbox, handler, recov, history
<1>3. ASSUME NEW j \in Job, SubmitServed(j) PROVE Stamps'
  BY <1>3 DEF SubmitServed, TypeOK, Stamps, outbox, handler, recov, history
<1>4. ASSUME NEW j \in Job, SubmitFails(j) PROVE Stamps'
  BY <1>4 DEF SubmitFails, TypeOK, Stamps, outbox, handler, recov, history
<1>5. ASSUME NEW j \in Job, SubmitAnswered(j) PROVE Stamps'
  BY <1>5 DEF SubmitAnswered, TypeOK, Stamps, outbox, handler, recov, history, Handlers
<1>6. ASSUME NEW j \in Job, JobSeen(j) PROVE Stamps'
  BY <1>6 DEF JobSeen, TypeOK, Stamps, outbox, handler, recov, history
<1>7. ASSUME NEW j \in Job, TimedOut(j) PROVE Stamps'
  BY <1>7 DEF TimedOut, StartRecovery, TypeOK, Stamps, outbox, handler, recov, history
<1>8. ASSUME NEW j \in Job, ReplyVisible(j) PROVE Stamps'
  BY <1>8 DEF ReplyVisible, BecomesVisible, TypeOK, Stamps, outbox, handler, recov,
       history
<1>9. ASSUME NEW j \in Job, ReplySent(j) PROVE Stamps'
  BY <1>9 DEF ReplySent, SendReturns, MarkSent, FirstChunkIsEnough, TypeOK, Stamps,
       outbox, handler, recov, history
<1>10. ASSUME NEW j \in Job, HandlerFails(j) PROVE Stamps'
  BY <1>10 DEF HandlerFails, TypeOK, Stamps, outbox, handler, recov, history
<1>11. ASSUME NEW c \in Client, OnReady(c) PROVE Stamps'
  BY <1>11 DEF OnReady, StartRecovery, TypeOK, Stamps, outbox, handler, recov, history
<1>12. ASSUME NEW c \in Client, TakeSnapshot(c) PROVE Stamps'
  BY <1>12 DEF TakeSnapshot, PendingRows, TypeOK, Stamps, outbox, handler, recov,
       history
<1>13. ASSUME NEW c \in Client, NEW j \in Job, RecoverySees(c, j) PROVE Stamps'
  BY <1>13 DEF RecoverySees, Current, TypeOK, Stamps, outbox, handler, recov, history
<1>14. ASSUME NEW c \in Client, NEW j \in Job, RecoveryVisible(c, j) PROVE Stamps'
  BY <1>14 DEF RecoveryVisible, BecomesVisible, Current, TypeOK, Stamps, outbox,
       handler, recov, history
<1>15. ASSUME NEW c \in Client, NEW j \in Job, RecoverySent(c, j) PROVE Stamps'
  BY <1>15 DEF RecoverySent, SendReturns, MarkSent, NextRow, FirstChunkIsEnough,
       Current, TypeOK, Stamps, outbox, handler, recov, history
<1>16. ASSUME NEW c \in Client, NEW j \in Job, RecoverySkips(c, j) PROVE Stamps'
  BY <1>16 DEF RecoverySkips, NextRow, Current, TypeOK, Stamps, outbox, handler,
       recov, history
<1>17. ASSUME NEW B \in Bridges, Crash(B) PROVE Stamps'
  BY <1>17 DEF Crash, TypeOK, Stamps, outbox, handler, recov, history
<1>18. CASE UNCHANGED vars
  BY <1>18 DEF vars, TypeOK, Stamps, outbox, handler, recov, history
<1> QED
  BY <1>1, <1>2, <1>3, <1>4, <1>5, <1>6, <1>7, <1>8, <1>9, <1>10, <1>11, <1>12,
       <1>13, <1>14, <1>15, <1>16, <1>17, <1>18 DEF Next, HandlerNext, RecoveryNext,
       TypeOK

\* Every step keeps Tasks.
LEMMA TasksStep == IInv /\ [Next]_vars => Tasks'
<1> SUFFICES ASSUME IInv, [Next]_vars PROVE Tasks'
  OBVIOUS
<1> USE LimitsAssumption, ClientsAssumption, BridgesAssumption DEF IInv
<1>1. ASSUME NEW j \in Job, JobFinishes(j) PROVE Tasks'
  BY <1>1 DEF JobFinishes, TypeOK, Tasks, Current, SamePlatform, outbox, handler,
       recov, history
<1>2. ASSUME NEW j \in Job, NEW c \in Client, Submit(c, j) PROVE Tasks'
  BY <1>2 DEF Submit, TypeOK, Tasks, Current, SamePlatform, outbox, handler, recov,
       history, Handlers
<1>3. ASSUME NEW j \in Job, SubmitServed(j) PROVE Tasks'
  BY <1>3 DEF SubmitServed, TypeOK, Tasks, Current, SamePlatform, outbox, handler,
       recov, history
<1>4. ASSUME NEW j \in Job, SubmitFails(j) PROVE Tasks'
  BY <1>4 DEF SubmitFails, TypeOK, Tasks, Current, SamePlatform, outbox, handler,
       recov, history
<1>5. ASSUME NEW j \in Job, SubmitAnswered(j) PROVE Tasks'
  BY <1>5 DEF SubmitAnswered, TypeOK, Tasks, Current, SamePlatform, outbox, handler,
       recov, history, Handlers, Stamps
<1>6. ASSUME NEW j \in Job, JobSeen(j) PROVE Tasks'
  BY <1>6 DEF JobSeen, TypeOK, Tasks, Current, SamePlatform, outbox, handler, recov,
       history
<1>7. ASSUME NEW j \in Job, TimedOut(j) PROVE Tasks'
  BY <1>7 DEF TimedOut, StartRecovery, TypeOK, Tasks, Current, SamePlatform, outbox,
       handler, recov, history, TaskFree
<1>8. ASSUME NEW j \in Job, ReplyVisible(j) PROVE Tasks'
  BY <1>8 DEF ReplyVisible, BecomesVisible, TypeOK, Tasks, Current, SamePlatform,
       outbox, handler, recov, history
<1>9. ASSUME NEW j \in Job, ReplySent(j) PROVE Tasks'
  BY <1>9 DEF ReplySent, SendReturns, MarkSent, FirstChunkIsEnough, TypeOK, Tasks,
       Current, SamePlatform, outbox, handler, recov, history
<1>10. ASSUME NEW j \in Job, HandlerFails(j) PROVE Tasks'
  BY <1>10 DEF HandlerFails, TypeOK, Tasks, Current, SamePlatform, outbox, handler,
       recov, history
<1>11. ASSUME NEW c \in Client, OnReady(c) PROVE Tasks'
  BY <1>11 DEF OnReady, StartRecovery, TypeOK, Tasks, Current, SamePlatform, outbox,
       handler, recov, history, TaskFree
<1>12. ASSUME NEW c \in Client, TakeSnapshot(c) PROVE Tasks'
  BY <1>12 DEF TakeSnapshot, PendingRows, TypeOK, Tasks, Current, SamePlatform,
       outbox, handler, recov, history
<1>13. ASSUME NEW c \in Client, NEW j \in Job, RecoverySees(c, j) PROVE Tasks'
  BY <1>13 DEF RecoverySees, Current, TypeOK, Tasks, SamePlatform, outbox, handler,
       recov, history, Stamps
<1>14. ASSUME NEW c \in Client, NEW j \in Job, RecoveryVisible(c, j) PROVE Tasks'
  BY <1>14, SMTT(30) DEF RecoveryVisible, BecomesVisible, Current, TypeOK, Tasks,
       SamePlatform, outbox, handler, recov, history, Stamps
<1>15. ASSUME NEW c \in Client, NEW j \in Job, RecoverySent(c, j) PROVE Tasks'
  BY <1>15 DEF RecoverySent, SendReturns, MarkSent, NextRow, FirstChunkIsEnough,
       Current, TypeOK, Tasks, SamePlatform, outbox, handler, recov, history
<1>16. ASSUME NEW c \in Client, NEW j \in Job, RecoverySkips(c, j) PROVE Tasks'
  BY <1>16 DEF RecoverySkips, NextRow, Current, TypeOK, Tasks, SamePlatform, outbox,
       handler, recov, history
<1>17. ASSUME NEW B \in Bridges, Crash(B) PROVE Tasks'
  BY <1>17 DEF Crash, TypeOK, Tasks, Current, SamePlatform, outbox, handler, recov,
       history
<1>18. CASE UNCHANGED vars
  BY <1>18 DEF vars, TypeOK, Tasks, Current, SamePlatform, outbox, handler, recov,
       history
<1> QED
  BY <1>1, <1>2, <1>3, <1>4, <1>5, <1>6, <1>7, <1>8, <1>9, <1>10, <1>11, <1>12,
       <1>13, <1>14, <1>15, <1>16, <1>17, <1>18 DEF Next, HandlerNext, RecoveryNext,
       TypeOK

\* Every step keeps SentIsSeen.
LEMMA SentStep == IInv /\ [Next]_vars => SentIsSeen'
<1> SUFFICES ASSUME IInv, [Next]_vars PROVE SentIsSeen'
  OBVIOUS
<1> USE LimitsAssumption, ClientsAssumption, BridgesAssumption DEF IInv
<1>1. ASSUME NEW j \in Job, JobFinishes(j) PROVE SentIsSeen'
  BY <1>1 DEF JobFinishes, TypeOK, SentIsSeen, outbox, handler, recov, history
<1>2. ASSUME NEW j \in Job, NEW c \in Client, Submit(c, j) PROVE SentIsSeen'
  BY <1>2 DEF Submit, TypeOK, SentIsSeen, outbox, handler, recov, history
<1>3. ASSUME NEW j \in Job, SubmitServed(j) PROVE SentIsSeen'
  BY <1>3 DEF SubmitServed, TypeOK, SentIsSeen, outbox, handler, recov, history
<1>4. ASSUME NEW j \in Job, SubmitFails(j) PROVE SentIsSeen'
  BY <1>4 DEF SubmitFails, TypeOK, SentIsSeen, outbox, handler, recov, history
<1>5. ASSUME NEW j \in Job, SubmitAnswered(j) PROVE SentIsSeen'
  BY <1>5 DEF SubmitAnswered, TypeOK, SentIsSeen, outbox, handler, recov, history
<1>6. ASSUME NEW j \in Job, JobSeen(j) PROVE SentIsSeen'
  BY <1>6 DEF JobSeen, TypeOK, SentIsSeen, outbox, handler, recov, history
<1>7. ASSUME NEW j \in Job, TimedOut(j) PROVE SentIsSeen'
  BY <1>7 DEF TimedOut, StartRecovery, TypeOK, SentIsSeen, outbox, handler, recov,
       history
<1>8. ASSUME NEW j \in Job, ReplyVisible(j) PROVE SentIsSeen'
  BY <1>8 DEF ReplyVisible, BecomesVisible, TypeOK, SentIsSeen, outbox, handler,
       recov, history
<1>9. ASSUME NEW j \in Job, ReplySent(j) PROVE SentIsSeen'
  BY <1>9 DEF ReplySent, SendReturns, MarkSent, FirstChunkIsEnough, TypeOK,
       SentIsSeen, outbox, handler, recov, history, Handlers
<1>10. ASSUME NEW j \in Job, HandlerFails(j) PROVE SentIsSeen'
  BY <1>10 DEF HandlerFails, TypeOK, SentIsSeen, outbox, handler, recov, history
<1>11. ASSUME NEW c \in Client, OnReady(c) PROVE SentIsSeen'
  BY <1>11 DEF OnReady, StartRecovery, TypeOK, SentIsSeen, outbox, handler, recov,
       history
<1>12. ASSUME NEW c \in Client, TakeSnapshot(c) PROVE SentIsSeen'
  BY <1>12 DEF TakeSnapshot, PendingRows, TypeOK, SentIsSeen, outbox, handler, recov,
       history
<1>13. ASSUME NEW c \in Client, NEW j \in Job, RecoverySees(c, j) PROVE SentIsSeen'
  BY <1>13 DEF RecoverySees, Current, TypeOK, SentIsSeen, outbox, handler, recov,
       history
<1>14. ASSUME NEW c \in Client, NEW j \in Job, RecoveryVisible(c, j) PROVE SentIsSeen'
  BY <1>14 DEF RecoveryVisible, BecomesVisible, Current, TypeOK, SentIsSeen, outbox,
       handler, recov, history
<1>15. ASSUME NEW c \in Client, NEW j \in Job, RecoverySent(c, j) PROVE SentIsSeen'
  BY <1>15 DEF RecoverySent, SendReturns, MarkSent, NextRow, FirstChunkIsEnough,
       Current, TypeOK, SentIsSeen, outbox, handler, recov, history, Tasks
<1>16. ASSUME NEW c \in Client, NEW j \in Job, RecoverySkips(c, j) PROVE SentIsSeen'
  BY <1>16 DEF RecoverySkips, NextRow, Current, TypeOK, SentIsSeen, outbox, handler,
       recov, history
<1>17. ASSUME NEW B \in Bridges, Crash(B) PROVE SentIsSeen'
  BY <1>17 DEF Crash, TypeOK, SentIsSeen, outbox, handler, recov, history
<1>18. CASE UNCHANGED vars
  BY <1>18 DEF vars, TypeOK, SentIsSeen, outbox, handler, recov, history
<1> QED
  BY <1>1, <1>2, <1>3, <1>4, <1>5, <1>6, <1>7, <1>8, <1>9, <1>10, <1>11, <1>12,
       <1>13, <1>14, <1>15, <1>16, <1>17, <1>18 DEF Next, HandlerNext, RecoveryNext,
       TypeOK

\* Every step keeps KookSentIsWhole.
LEMMA WholeStep == IInv /\ [Next]_vars => KookSentIsWhole'
<1> SUFFICES ASSUME IInv, [Next]_vars PROVE KookSentIsWhole'
  OBVIOUS
<1> USE LimitsAssumption, ClientsAssumption, BridgesAssumption DEF IInv
<1>1. ASSUME NEW j \in Job, JobFinishes(j) PROVE KookSentIsWhole'
  BY <1>1 DEF JobFinishes, TypeOK, KookSentIsWhole, outbox, handler, recov, history
<1>2. ASSUME NEW j \in Job, NEW c \in Client, Submit(c, j) PROVE KookSentIsWhole'
  BY <1>2 DEF Submit, TypeOK, KookSentIsWhole, outbox, handler, recov, history, Handlers
<1>3. ASSUME NEW j \in Job, SubmitServed(j) PROVE KookSentIsWhole'
  BY <1>3 DEF SubmitServed, TypeOK, KookSentIsWhole, outbox, handler, recov, history
<1>4. ASSUME NEW j \in Job, SubmitFails(j) PROVE KookSentIsWhole'
  BY <1>4 DEF SubmitFails, TypeOK, KookSentIsWhole, outbox, handler, recov, history
<1>5. ASSUME NEW j \in Job, SubmitAnswered(j) PROVE KookSentIsWhole'
  BY <1>5 DEF SubmitAnswered, TypeOK, KookSentIsWhole, outbox, handler, recov,
       history, Handlers
<1>6. ASSUME NEW j \in Job, JobSeen(j) PROVE KookSentIsWhole'
  BY <1>6 DEF JobSeen, TypeOK, KookSentIsWhole, outbox, handler, recov, history
<1>7. ASSUME NEW j \in Job, TimedOut(j) PROVE KookSentIsWhole'
  BY <1>7 DEF TimedOut, StartRecovery, TypeOK, KookSentIsWhole, outbox, handler,
       recov, history
<1>8. ASSUME NEW j \in Job, ReplyVisible(j) PROVE KookSentIsWhole'
  BY <1>8 DEF ReplyVisible, BecomesVisible, TypeOK, KookSentIsWhole, outbox, handler,
       recov, history
<1>9. ASSUME NEW j \in Job, ReplySent(j) PROVE KookSentIsWhole'
  BY <1>9 DEF ReplySent, SendReturns, MarkSent, FirstChunkIsEnough, TypeOK,
       KookSentIsWhole, outbox, handler, recov, history
<1>10. ASSUME NEW j \in Job, HandlerFails(j) PROVE KookSentIsWhole'
  BY <1>10 DEF HandlerFails, TypeOK, KookSentIsWhole, outbox, handler, recov, history
<1>11. ASSUME NEW c \in Client, OnReady(c) PROVE KookSentIsWhole'
  BY <1>11 DEF OnReady, StartRecovery, TypeOK, KookSentIsWhole, outbox, handler,
       recov, history
<1>12. ASSUME NEW c \in Client, TakeSnapshot(c) PROVE KookSentIsWhole'
  BY <1>12 DEF TakeSnapshot, PendingRows, TypeOK, KookSentIsWhole, outbox, handler,
       recov, history
<1>13. ASSUME NEW c \in Client, NEW j \in Job, RecoverySees(c, j) PROVE KookSentIsWhole'
  BY <1>13 DEF RecoverySees, Current, TypeOK, KookSentIsWhole, outbox, handler,
       recov, history
<1>14. ASSUME NEW c \in Client, NEW j \in Job, RecoveryVisible(c,
     j) PROVE KookSentIsWhole'
  BY <1>14 DEF RecoveryVisible, BecomesVisible, Current, TypeOK, KookSentIsWhole,
       outbox, handler, recov, history
<1>15. ASSUME NEW c \in Client, NEW j \in Job, RecoverySent(c, j) PROVE KookSentIsWhole'
  BY <1>15 DEF RecoverySent, SendReturns, MarkSent, NextRow, FirstChunkIsEnough,
       Current, TypeOK, KookSentIsWhole, outbox, handler, recov, history, Tasks,
       SamePlatform, Handlers
<1>16. ASSUME NEW c \in Client, NEW j \in Job, RecoverySkips(c,
     j) PROVE KookSentIsWhole'
  BY <1>16 DEF RecoverySkips, NextRow, Current, TypeOK, KookSentIsWhole, outbox,
       handler, recov, history
<1>17. ASSUME NEW B \in Bridges, Crash(B) PROVE KookSentIsWhole'
  BY <1>17 DEF Crash, TypeOK, KookSentIsWhole, outbox, handler, recov, history
<1>18. CASE UNCHANGED vars
  BY <1>18 DEF vars, TypeOK, KookSentIsWhole, outbox, handler, recov, history
<1> QED
  BY <1>1, <1>2, <1>3, <1>4, <1>5, <1>6, <1>7, <1>8, <1>9, <1>10, <1>11, <1>12,
       <1>13, <1>14, <1>15, <1>16, <1>17, <1>18 DEF Next, HandlerNext, RecoveryNext,
       TypeOK

\* IInv is inductive.
LEMMA Invariance == Spec => []IInv
<1>1. IInv /\ [Next]_vars => IInv'
  BY TypeStep, HandlersStep, StampsStep, TasksStep, SentStep, WholeStep DEF IInv
<1> QED
  BY <1>1, InitInvariant, PTL DEF Spec

\* The types of handlers, rows and tasks: TypeOK in every reachable state.
THEOREM TypeCorrect == Spec => []TypeOK
<1>1. IInv => TypeOK
  BY DEF IInv
<1> QED
  BY <1>1, Invariance, PTL

\* No reply is forgotten: whatever handlers, recovery tasks, failed sends and
\* crashes do, a job whose reply nobody saw has a pending row, unless its
\* handler ended before the row was written.
THEOREM RepliesAccounted == Spec => []UnseenReplyIsPending
<1>1. IInv => UnseenReplyIsPending
  BY DEF IInv, TypeOK, Handlers, SentIsSeen, UnseenReplyIsPending
<1> QED
  BY <1>1, Invariance, PTL

\* A KOOK reply that counts as sent was shown to its last chunk.
THEOREM KookRepliesWhole == Spec => []KookSentIsWhole
<1>1. IInv => KookSentIsWhole
  BY DEF IInv
<1> QED
  BY <1>1, Invariance, PTL
-----------------------------------------------------------------------------
\* The recovery task of a client, or the handler, may yet show the reply.
TaskMayShow(c, j) == j \in queue[c] /\ ~(task[c] = "visible" /\ Current(c, j))
HandlerMayShow(j) == live[j] \in {"waiting", "sending"}

\* Once the reply k is confirmed nobody new gets to show it, and who shows it again
\* does so for the last time.
ResendUsedUp(k) ==
  row[k] = "sent" =>
    /\ HandlerMayShow(k)' => HandlerMayShow(k)
    /\ \A d \in Client : TaskMayShow(d, k)' => TaskMayShow(d, k)
    /\ shown'[k] # shown[k] =>
         \/ HandlerMayShow(k) /\ ~HandlerMayShow(k)'
         \/ \E d \in Client : TaskMayShow(d, k) /\ ~TaskMayShow(d, k)'

\* A reply is shown again after its confirmation at most once by its handler and
\* at most once by each recovery task whose snapshot was older.
ResentOncePerHolder == [][\A k \in Job : ResendUsedUp(k)]_vars

\* A task is at one row.
LEMMA CurrentUnique ==
  ASSUME IInv, NEW c \in Client, NEW i \in Job, NEW j \in Job, Current(c, i), Current(c, j)
  PROVE  i = j
BY DEF IInv, TypeOK, Tasks, Stamps, Current

\* Every step keeps to it.
LEMMA ResendStep == IInv /\ [Next]_vars => [\A k \in Job : ResendUsedUp(k)]_vars
<1> SUFFICES ASSUME IInv, Next, NEW k \in Job, row[k] = "sent" PROVE ResendUsedUp(k)
  BY DEF ResendUsedUp
<1> USE DEF IInv, TypeOK, outbox, handler, recov, history
<1>1. ASSUME NEW j \in Job, JobFinishes(j) PROVE ResendUsedUp(k)
  BY <1>1 DEF JobFinishes, ResendUsedUp, HandlerMayShow, TaskMayShow, Current
<1>2. ASSUME NEW j \in Job, NEW c \in Client, Submit(c, j) PROVE ResendUsedUp(k)
  BY <1>2 DEF Submit, ResendUsedUp, HandlerMayShow, TaskMayShow, Current
<1>3. ASSUME NEW j \in Job, SubmitServed(j) PROVE ResendUsedUp(k)
  BY <1>3 DEF SubmitServed, ResendUsedUp, HandlerMayShow, TaskMayShow, Current
<1>4. ASSUME NEW j \in Job, SubmitFails(j) PROVE ResendUsedUp(k)
  BY <1>4 DEF SubmitFails, ResendUsedUp, HandlerMayShow, TaskMayShow, Current
<1>5. ASSUME NEW j \in Job, SubmitAnswered(j) PROVE ResendUsedUp(k)
  BY <1>5 DEF SubmitAnswered, ResendUsedUp, HandlerMayShow, TaskMayShow, Current, Handlers, Stamps
<1>6. ASSUME NEW j \in Job, JobSeen(j) PROVE ResendUsedUp(k)
  BY <1>6 DEF JobSeen, ResendUsedUp, HandlerMayShow, TaskMayShow, Current
<1>7. ASSUME NEW j \in Job, TimedOut(j) PROVE ResendUsedUp(k)
  BY <1>7 DEF TimedOut, StartRecovery, TaskFree, ResendUsedUp, HandlerMayShow, TaskMayShow,
         Current
<1>8. ASSUME NEW j \in Job, ReplyVisible(j) PROVE ResendUsedUp(k)
  BY <1>8 DEF ReplyVisible, BecomesVisible, ResendUsedUp, HandlerMayShow, TaskMayShow, Current
<1>9. ASSUME NEW j \in Job, ReplySent(j) PROVE ResendUsedUp(k)
  BY <1>9 DEF ReplySent, ResendUsedUp, HandlerMayShow, TaskMayShow, Current
<1>10. ASSUME NEW j \in Job, HandlerFails(j) PROVE ResendUsedUp(k)
  BY <1>10 DEF HandlerFails, ResendUsedUp, HandlerMayShow, TaskMayShow, Current
<1>11. ASSUME NEW c \in Client, OnReady(c) PROVE ResendUsedUp(k)
  BY <1>11 DEF OnReady, StartRecovery, TaskFree, ResendUsedUp, HandlerMayShow, TaskMayShow,
         Current
<1>12. ASSUME NEW c \in Client, TakeSnapshot(c) PROVE ResendUsedUp(k)
  BY <1>12 DEF TakeSnapshot, PendingRows, ResendUsedUp, HandlerMayShow, TaskMayShow, Current
<1>13. ASSUME NEW c \in Client, NEW j \in queue[c], RecoverySees(c, j) PROVE ResendUsedUp(k)
  BY <1>13 DEF RecoverySees, ResendUsedUp, HandlerMayShow, TaskMayShow, Current
<1>14. ASSUME NEW c \in Client, NEW j \in queue[c], RecoveryVisible(c, j) PROVE ResendUsedUp(k)
  BY <1>14 DEF RecoveryVisible, BecomesVisible, ResendUsedUp, HandlerMayShow, TaskMayShow, Current
<1>15. ASSUME NEW c \in Client, NEW j \in queue[c], RecoverySent(c, j) PROVE ResendUsedUp(k)
  BY <1>15, CurrentUnique DEF RecoverySent, SendReturns, NextRow, ResendUsedUp, HandlerMayShow,
         TaskMayShow, Current
<1>16. ASSUME NEW c \in Client, NEW j \in queue[c], RecoverySkips(c, j) PROVE ResendUsedUp(k)
  <2>1. Current(c, j) /\ NextRow(c, j) /\ live' = live /\ shown' = shown /\ stamp' = stamp
    BY <1>16 DEF RecoverySkips
  <2>2. ASSUME NEW d \in Client, TaskMayShow(d, k)' PROVE TaskMayShow(d, k)
    <3>1. CASE d = c
      <4>1. k \in queue[c] /\ k # j
        BY <2>1, <2>2, <3>1 DEF NextRow, TaskMayShow
      <4>2. ~Current(c, k)
        BY <2>1, <4>1, CurrentUnique
      <4> QED BY <3>1, <4>1, <4>2 DEF TaskMayShow
    <3>2. CASE d # c
      BY <2>1, <2>2, <3>2 DEF NextRow, TaskMayShow, Current
    <3> QED BY <3>1, <3>2
  <2> QED BY <2>1, <2>2 DEF ResendUsedUp, HandlerMayShow
<1>17. ASSUME NEW B \in Bridges, Crash(B) PROVE ResendUsedUp(k)
  BY <1>17 DEF Crash, ResendUsedUp, HandlerMayShow, TaskMayShow, Current
<1> QED BY <1>1, <1>2, <1>3, <1>4, <1>5, <1>6, <1>7, <1>8, <1>9, <1>10, <1>11, <1>12, <1>13,
       <1>14, <1>15, <1>16, <1>17 DEF Next, HandlerNext, RecoveryNext

\* docs/architecture.md says that a confirmed reply is not sent again; the run
\* reply_resent shows that it may be.  By whom and how often is bounded: with n
\* clients of the platform a confirmed reply is shown at most n + 1 times more,
\* whatever is submitted, times out, restarts or crashes (_recover_runtime_replies
\* works through the snapshot it took).
THEOREM ResendsBounded == Spec => ResentOncePerHolder
<1> QED BY ResendStep, Invariance, PTL DEF Spec, ResentOncePerHolder
=============================================================================
