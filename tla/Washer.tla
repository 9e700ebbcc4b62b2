------------------------------- MODULE Washer -------------------------------
(***************************************************************************)
(* The nightly memory extraction: run_extraction over the conversations    *)
(* and their archive, each with a watermark over the rowids of its table,  *)
(* while the chat program saves, clears and archives messages.  The tables *)
(* have no AUTOINCREMENT: SQLite gives a new row the highest rowid plus one. *)
(***************************************************************************)
EXTENDS Integers, FiniteSets

CONSTANTS WMessages,  \* messages of the target user that pass the filters
          WLimit      \* rows one pass fetches from a table

ASSUME WasherConstants == IsFiniteSet(WMessages) /\ WLimit \in Nat \ {0}

VARIABLES
  wSaved,  \* messages that were said so far
  wRow,    \* the rowid of each message in each table, 0 if it is not there
  wUsed,   \* history: rowids that were ever given out in each table
  wTaken,  \* history: messages that got a rowid another row had before
  wMark,   \* memory_watermark of each table
  wPass,   \* the pass of run_extraction
  wDone    \* messages the model answered on, or the filter rejected

washerVars == <<wSaved, wRow, wUsed, wTaken, wMark, wPass, wDone>>

Sources == {"conversations", "conversations_archive"}
WPass == [pc : {"idle", "extract", "mark"}, source : Sources, todo : SUBSET WMessages,
          rows : [WMessages -> Nat], base : Nat, max : Nat]

WasherTypeOK ==
  /\ wSaved \in SUBSET WMessages
  /\ wRow \in [Sources -> [WMessages -> Nat]]
  /\ wUsed \in [Sources -> SUBSET Nat]
  /\ wTaken \in SUBSET WMessages
  /\ wMark \in [Sources -> Nat]
  /\ wPass \in WPass
  /\ wDone \in SUBSET WMessages

NoPass == [pc |-> "idle", source |-> "conversations", todo |-> {},
           rows |-> [m \in WMessages |-> 0], base |-> 0, max |-> 0]

WasherInit ==
  /\ wSaved = {}
  /\ wRow = [s \in Sources |-> [m \in WMessages |-> 0]]
  /\ wUsed = [s \in Sources |-> {}]
  /\ wTaken = {} /\ wDone = {}
  /\ wMark = [s \in Sources |-> 0]
  /\ wPass = NoPass

Stored(s) == {m \in WMessages : wRow[s][m] # 0}
HighestRow(s) ==
  IF Stored(s) = {} THEN 0
  ELSE CHOOSE n \in {wRow[s][m] : m \in Stored(s)} : \A m \in Stored(s) : wRow[s][m] <= n

\* A row is added to table s; from is the table it leaves, if any.
Insert(m, s, rows) ==
  LET n == HighestRow(s) + 1
  IN /\ wRow' = [rows EXCEPT ![s][m] = n]
     /\ wUsed' = [wUsed EXCEPT ![s] = @ \cup {n}]
     /\ wTaken' = IF n \in wUsed[s] THEN wTaken \cup {m} ELSE wTaken

\* save_message.
SaveMessage(m) ==
  /\ m \notin wSaved /\ wSaved' = wSaved \cup {m}
  /\ Insert(m, "conversations", wRow)
  /\ UNCHANGED <<wMark, wPass, wDone>>

\* archive_old_conversations: the oldest row moves.
Archive(m) ==
  /\ m \in Stored("conversations")
  /\ \A n \in Stored("conversations") : wRow["conversations"][m] <= wRow["conversations"][n]
  /\ Insert(m, "conversations_archive", [wRow EXCEPT !["conversations"][m] = 0])
  /\ UNCHANGED <<wSaved, wMark, wPass, wDone>>

\* clear_history of the thread of some messages.
ClearHistory(ms) ==
  /\ ms # {} /\ ms \subseteq Stored("conversations")
  /\ wRow' = [wRow EXCEPT !["conversations"] =
                [m \in WMessages |-> IF m \in ms THEN 0 ELSE wRow["conversations"][m]]]
  /\ UNCHANGED <<wSaved, wUsed, wTaken, wMark, wPass, wDone>>

\* Mutant: the newest rows come first.
Precedes_Newest(s, m, n) == wRow[s][m] > wRow[s][n]

\* ORDER BY rowid ASC.
Precedes(s, m, n) == wRow[s][m] < wRow[s][n]

\* _fetch_messages_since: the first WLimit rows above the watermark.
Fetched(s) ==
  LET above == {m \in Stored(s) : wRow[s][m] > wMark[s]}
  IN {m \in above : Cardinality({n \in above : Precedes(s, n, m)}) < WLimit}

\* The two tables are passed over one after the other.
BeginPass(s) ==
  /\ wPass.pc = "idle" /\ Fetched(s) # {}
  /\ wPass' = [pc |-> "extract", source |-> s, todo |-> Fetched(s), 
               rows |-> [m \in WMessages |-> IF m \in Fetched(s) THEN wRow[s][m] ELSE 0],
               base |-> wMark[s], max |-> wMark[s]]
  /\ UNCHANGED <<wSaved, wRow, wUsed, wTaken, wMark, wDone>>

Nearest(m) == \A n \in wPass.todo : wPass.rows[m] <= wPass.rows[n]

\* _call_llm answers and every item is routed, or the filter rejects the
\* message.  An answer without a readable list of items counts as one with none:
\* the message is passed, and not asked about again.
Extract(m) ==
  /\ wPass.pc = "extract" /\ m \in wPass.todo /\ Nearest(m)
  /\ wDone' = wDone \cup {m}
  /\ wPass' = [wPass EXCEPT !.todo = @ \ {m}, !.max = wPass.rows[m],
                            !.pc = IF wPass.todo = {m} THEN "mark" ELSE "extract"]
  /\ UNCHANGED <<wSaved, wRow, wUsed, wTaken, wMark>>

\* Mutant: the watermark passes the message the model failed on.
MaxAfterFailure_Counted(m) == wPass.rows[m]

\* The model or its transport fails: the pass stops below this message.
MaxAfterFailure(m) == wPass.max

ModelFails(m) ==
  /\ wPass.pc = "extract" /\ m \in wPass.todo /\ Nearest(m)
  /\ wPass' = [wPass EXCEPT !.pc = "mark", !.max = MaxAfterFailure(m)]
  /\ UNCHANGED <<wSaved, wRow, wUsed, wTaken, wMark, wDone>>

\* set_watermark, if the pass got anywhere.
WriteMark ==
  /\ wPass.pc = "mark"
  /\ wMark' = IF wPass.max > wPass.base THEN [wMark EXCEPT ![wPass.source] = wPass.max]
              ELSE wMark
  /\ wPass' = NoPass
  /\ UNCHANGED <<wSaved, wRow, wUsed, wTaken, wDone>>

\* The washer dies, or an item it cannot convert raises: no watermark is written.
WasherStops ==
  /\ wPass.pc # "idle"
  /\ wPass' = NoPass
  /\ UNCHANGED <<wSaved, wRow, wUsed, wTaken, wMark, wDone>>

WasherNext ==
  \/ \E m \in WMessages : SaveMessage(m) \/ Archive(m) \/ Extract(m) \/ ModelFails(m)
  \/ \E ms \in SUBSET WMessages : ClearHistory(ms)
  \/ \E s \in Sources : BeginPass(s)
  \/ WriteMark \/ WasherStops

WasherSpec == WasherInit /\ [][WasherNext]_washerVars

----------------------------------------------------------------------------
\* The model answered on every message at or below the watermark of its table,
\* readably or not, or the filter rejected it, however the passes failed and
\* whatever was archived meanwhile.  The exception are
\* messages that SQLite stored under the rowid of a deleted row: the watermark
\* passed that rowid already and they are never read.
NothingSkipped ==
  \A s \in Sources : \A m \in Stored(s) :
    wRow[s][m] <= wMark[s] => m \in wDone \cup wTaken
=============================================================================
