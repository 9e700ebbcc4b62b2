--------------------------- MODULE NativeDelivery ---------------------------
(***************************************************************************)
(* What the hand over of jobs to a native desktop promises to whoever reads *)
(* them in Coordinate, without attempts, leases, crashes or lost calls: the *)
(* desktop gets a job at most once and only after Coordinate says that it   *)
(* may have it; a rejected job never reaches it; a job is done once it was  *)
(* answered, with one text.  Anything else ends as uncertain.               *)
(***************************************************************************)
CONSTANTS Job, Text

VARIABLES fate,      \* job -> open, rejected, uncertain, done or cancelled
          delivery,  \* job -> none, possible or queued
          said       \* job -> the texts the channel was sent

vars == <<fate, delivery, said>>

Init ==
  /\ fate = [j \in Job |-> "open"]
  /\ delivery = [j \in Job |-> "none"]
  /\ said = [j \in Job |-> {}]

Ends(j, f) == fate[j] = "open" /\ fate' = [fate EXCEPT ![j] = f] /\ UNCHANGED <<delivery, said>>

\* Before the call Coordinate learns that there may be one.
Announce(j) ==
  /\ fate[j] = "open" /\ delivery[j] = "none"
  /\ delivery' = [delivery EXCEPT ![j] = "possible"]
  /\ UNCHANGED <<fate, said>>

\* A call that is under way outlives whatever ended the job.
Deliver(j) ==
  /\ delivery[j] = "possible"
  /\ delivery' = [delivery EXCEPT ![j] = "queued"]
  /\ UNCHANGED <<fate, said>>

Answer(j, t) ==
  /\ delivery[j] = "queued" /\ said[j] \subseteq {t}
  /\ said' = [said EXCEPT ![j] = {t}]
  /\ UNCHANGED <<fate, delivery>>

Reject(j) == delivery[j] = "none" /\ Ends(j, "rejected")
Complete(j) == said[j] # {} /\ Ends(j, "done")
GiveUp(j) == Ends(j, "uncertain")
Cancel(j) == Ends(j, "cancelled")

Next ==
  \E j \in Job :
    \/ Announce(j) \/ Deliver(j) \/ \E t \in Text : Answer(j, t)
    \/ Reject(j) \/ Complete(j) \/ GiveUp(j) \/ Cancel(j)

Spec == Init /\ [][Next]_vars
=============================================================================
