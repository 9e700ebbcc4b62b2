---------------------------- MODULE AttemptLedger ----------------------------
(***************************************************************************)
(* What the worker and Coordinate promise together, without processes,      *)
(* claims or messages: a job has one attempt after the other, an attempt     *)
(* starts a provider at most once, and a job is done only by the success of  *)
(* its own, last attempt.                                                   *)
(***************************************************************************)
EXTENDS Naturals

CONSTANT Job

VARIABLES status,   \* job -> pending, running, done, failed or timed_out
          attempt,  \* job -> the number of its last attempt
          started,  \* <<job, attempt>> a provider was started for
          won       \* <<job, attempt>> whose provider succeeded

vars == <<status, attempt, started, won>>

Init ==
  /\ status = [j \in Job |-> "pending"] /\ attempt = [j \in Job |-> 0]
  /\ started = {} /\ won = {}

NewAttempt(j) ==
  /\ status[j] \in {"pending", "timed_out"}
  /\ status' = [status EXCEPT ![j] = "running"]
  /\ attempt' = [attempt EXCEPT ![j] = @ + 1]
  /\ UNCHANGED <<started, won>>

\* The attempt need not be the last one any more: its lease may be lost.
Begin(j, a) ==
  /\ <<j, a>> \notin started
  /\ started' = started \cup {<<j, a>>}
  /\ UNCHANGED <<status, attempt, won>>

Win(j, a) ==
  /\ <<j, a>> \in started
  /\ won' = won \cup {<<j, a>>}
  /\ UNCHANGED <<status, attempt, started>>

Settle(j, s) ==
  /\ status[j] = "running"
  /\ s = "done" => <<j, attempt[j]>> \in won
  /\ status' = [status EXCEPT ![j] = s]
  /\ UNCHANGED <<attempt, started, won>>

Next ==
  \E j \in Job :
    \/ NewAttempt(j)
    \/ \E s \in {"done", "failed", "timed_out"} : Settle(j, s)
    \/ \E a \in 1..attempt[j] : Begin(j, a) \/ Win(j, a)

Spec == Init /\ [][Next]_vars
=============================================================================
