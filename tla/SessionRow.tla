----------------------------- MODULE SessionRow -----------------------------
(***************************************************************************)
(* The row that SessionStore (sessions/store.py) keeps for one scope and   *)
(* one agent, and what its operations make of it.  Every operation is one  *)
(* SQLite transaction.  The row names the provider session, its work_dir,  *)
(* the context generation and the cursor: the last message, by id and      *)
(* rowid, that the session has been given.  The adapter is the agent's and *)
(* does not change.  created_at, updated_at and turn_count serve the       *)
(* comparison of rows only: ver counts the writes.                         *)
(***************************************************************************)
EXTENDS Naturals

CONSTANTS Dir, Gen,      \* work directories, context generations
          NoDir, NoGen   \* of an absent row, of a job without an envelope

ASSUME NullAssumption == NoGen \notin Gen /\ NoDir \notin Dir

\* No session, no message, no row.
None == 0
NoRow == [sess |-> None, dir |-> NoDir, gen |-> NoGen, cursor |-> None,
          status |-> "absent", ver |-> 0]

Row == [sess : Nat, dir : Dir \cup {NoDir}, gen : Gen \cup {NoGen}, cursor : Nat,
        status : {"absent", "active", "stale"}, ver : Nat]

Active(r) == r.status = "active"

\* Mutant: a new session inherits the cursor of the old one.
KeepsCursor_AnySession(r, s, d, g) == Active(r) /\ (g = NoGen \/ r.gen = g)

\* upsert: the cursor survives when the same session goes on in the same
\* place and the generation did not change.
KeepsCursor(r, s, d, g) ==
  Active(r) /\ r.sess = s /\ r.dir = d /\ (g = NoGen \/ r.gen = g)

\* upsert: insert, or replace and reactivate.
Upserted(r, s, d, g) ==
  [sess |-> s, dir |-> d,
   gen |-> IF Active(r) /\ r.sess = s /\ r.dir = d /\ g = NoGen THEN r.gen ELSE g,
   cursor |-> IF KeepsCursor(r, s, d, g) THEN r.cursor ELSE None,
   status |-> "active", ver |-> r.ver + 1]

\* Mutant: the order of the cursors is not compared.
MayAdvance_Back(r, s, g, old, order, cur) ==
  Active(r) /\ r.sess = s /\ r.gen = g /\ r.cursor = old

\* advance_context_cursor: the session and the cursor are as expected, and
\* the new message is younger; order maps a message to its rowid.
MayAdvance(r, s, g, old, order, cur) ==
  /\ Active(r) /\ r.sess = s /\ r.gen = g /\ r.cursor = old
  /\ r.cursor # None => order[r.cursor] < order[cur]

Advanced(r, cur) == [r EXCEPT !.cursor = cur, !.ver = @ + 1]

\* mark_stale: the cursor goes with the session.
Retired(r) == [r EXCEPT !.status = "stale", !.cursor = None, !.ver = @ + 1]
=============================================================================
