---------------------------- MODULE LeaseRenewal ----------------------------
(***************************************************************************)
(* The clock of one managed execution lease: AgentdWorker._renewal_-        *)
(* supervisor, the renewal call of the Coordinate client with its retries   *)
(* and timeouts, and the cancellation of the provider when the lease is     *)
(* lost.  Time is discrete.  The worker's monotonic clock and Coordinate's  *)
(* clock run at the same rate; Coordinate's timestamps have a resolution of *)
(* one second, Sec ticks, and lose the rest.                                *)
(***************************************************************************)
EXTENDS Integers

CONSTANTS Sec,             \* ticks in a second
          TTL,             \* ttl_seconds of the lease
          Interval,        \* renew_interval_seconds of the lease
          Margin,          \* RENEWAL_SAFETY_MARGIN_SECONDS
          ClaimDelay,      \* longest time from the grant to the supervisor
          Attempts,        \* tries of one renewal call
          AttemptTimeout,  \* timeout of one try
          Backoff,         \* pause between two tries
          StopTime,        \* longest time to kill the provider's processes
          MaxTime          \* bound: the clock stops here

ASSUME ConstantsAreNat ==
  /\ Sec \in Nat \ {0} /\ TTL \in Nat /\ Interval \in Nat /\ Margin \in Nat
  /\ ClaimDelay \in Nat /\ Attempts \in Nat \ {0} /\ AttemptTimeout \in Nat
  /\ Backoff \in Nat /\ StopTime \in Nat /\ MaxTime \in Nat
\* Grant and expiry fall on whole seconds (validate_execution_lease).
ASSUME WholeSeconds == TTL % Sec = 0

VARIABLES
  now,       \* the time
  expires,   \* Coordinate's expires_at of the lease
  phase,     \* sleep, call, backoff, stopping or stopped
  until,     \* when the phase ends at the latest
  deadline,  \* the supervisor's local deadline
  tries,     \* tries of the current call, this one included
  answer,    \* what Coordinate answered to this try
  renewed    \* history: the lease was renewed at least once

vars == <<now, expires, phase, until, deadline, tries, answer, renewed>>

Lesser(a, b)  == IF a < b THEN a ELSE b
Greater(a, b) == IF a > b THEN a ELSE b
Stamp(t)      == t - (t % Sec)

\* The longest renewal call.
Budget == Attempts * AttemptTimeout + (Attempts - 1) * Backoff

\* What the lease has to leave room for, after a claim or an answer that was
\* under way and a rounded expiry: one interval, one failing call, and the
\* end of the provider.  validate_execution_lease only asks for
\* renew_interval_seconds < ttl_seconds.
RenewsInTime ==
  Greater(ClaimDelay, AttemptTimeout) + Greater(Sec, Interval) + Budget + StopTime + Sec - 1
    <= TTL

\* The margin covers an answer under way and the rounding.
MarginCoversAnswer == AttemptTimeout + Sec - 1 <= Margin

\* Mutant: the safety margin is not subtracted.
LocalDeadline_NoMargin(remaining) == now + remaining

\* _to_monotonic_deadline, for remaining = expires_at - server_now.
LocalDeadline(remaining) == now + remaining - Margin

\* Mutant: the heartbeat only watches the deadline.
NextWake_Deadline(d) == d

\* When the supervisor wakes up for the next renewal.
NextWake(d) == Lesser(d, now + Greater(Sec, Interval))

\* Top of the supervisor's loop: past the deadline the lease is lost, before
\* it the supervisor sleeps.
LoopHead(d) ==
  /\ deadline' = d
  /\ IF now >= d
     THEN phase' = "stopping" /\ until' = now + StopTime
     ELSE phase' = "sleep" /\ until' = NextWake(d)
  /\ tries' = 0 /\ answer' = "none"

\* The lease is granted at time g, the claim answered (or replayed) at time s
\* and the supervisor started at time now.
Init ==
  \E g \in 0..Sec - 1, s \in 0..Sec + ClaimDelay :
    /\ now \in g..g + ClaimDelay
    /\ s \in g..now
    /\ expires = Stamp(g) + TTL
    /\ deadline = LocalDeadline(expires - Stamp(s))
    /\ phase = IF now >= deadline THEN "stopping" ELSE "sleep"
    /\ until = IF now >= deadline THEN now + StopTime ELSE NextWake(deadline)
    /\ tries = 0 /\ answer = "none" /\ renewed = FALSE

Tick ==
  /\ now < MaxTime
  /\ phase # "stopped" => now < until
  /\ now' = now + 1
  /\ UNCHANGED <<expires, phase, until, deadline, tries, answer, renewed>>

StartTry ==
  /\ phase' = "call" /\ until' = now + AttemptTimeout
  /\ tries' = tries + 1 /\ answer' = "none"
  /\ UNCHANGED <<now, expires, deadline, renewed>>

\* The sleep is over: call renew_lease.
Wake == phase = "sleep" /\ now = until /\ StartTry

\* _request_with_retry sends the same body again.
Retry == phase = "backoff" /\ now = until /\ StartTry

\* Coordinate renews an active lease.  It refuses one that expired, and one
\* that it closed before its time, say because the job was cancelled.
Renewed ==
  /\ phase = "call" /\ answer = "none" /\ now < expires
  /\ expires' = Stamp(now) + TTL
  /\ answer' = "granted"
  /\ UNCHANGED <<now, phase, until, deadline, tries, renewed>>

Refused ==
  /\ phase = "call" /\ answer = "none"
  /\ answer' = "refused"
  /\ UNCHANGED <<now, expires, phase, until, deadline, tries, renewed>>

\* The answer arrives.  server_now and expires_at carry the same rounding,
\* so the remaining time is TTL.
Granted ==
  /\ phase = "call" /\ answer = "granted"
  /\ LoopHead(LocalDeadline(TTL))
  /\ renewed' = TRUE
  /\ UNCHANGED <<now, expires>>

\* Mutant: a call that fails in its last try is taken for an unfinished one.
Lose_StillCalling ==
  /\ phase' = "stopping" /\ until' = now + StopTime
  /\ answer' = "none"
  /\ UNCHANGED <<now, expires, deadline, tries, renewed>>

\* The lease is lost: the provider is cancelled.
Lose ==
  /\ phase' = "stopping" /\ until' = now + StopTime
  /\ answer' = "none" /\ tries' = 0
  /\ UNCHANGED <<now, expires, deadline, renewed>>

Rejected == phase = "call" /\ answer = "refused" /\ Lose

\* Timeout, connection failure, malformed answer or 5xx of one try; the
\* request may have been served.
TryFails ==
  /\ phase = "call"
  /\ \/ tries >= Attempts /\ Lose
     \/ /\ tries < Attempts
        /\ phase' = "backoff" /\ until' = now + Backoff /\ answer' = "none"
        /\ UNCHANGED <<now, expires, deadline, tries, renewed>>

\* The provider's process group is gone at the latest at `until`.
ProviderKilled ==
  /\ phase = "stopping" /\ phase' = "stopped"
  /\ UNCHANGED <<now, expires, until, deadline, tries, answer, renewed>>

\* The provider returned first: the supervisor is cancelled.
ProviderReturns ==
  /\ phase \in {"sleep", "call", "backoff"} /\ phase' = "stopped"
  /\ answer' = "none" /\ tries' = 0
  /\ UNCHANGED <<now, expires, until, deadline, renewed>>

Next == \/ Tick \/ Wake \/ Retry \/ Renewed \/ Refused \/ Granted \/ Rejected
        \/ TryFails \/ ProviderKilled \/ ProviderReturns

Spec == Init /\ [][Next]_vars

-----------------------------------------------------------------------------
\* The variables have their types; tries are counted during a call only.
TypeOK ==
  /\ now \in Nat /\ expires \in Nat /\ until \in Nat /\ deadline \in Int
  /\ phase \in {"sleep", "call", "backoff", "stopping", "stopped"}
  /\ tries \in 0..Attempts
  /\ answer \in {"none", "granted", "refused"}
  /\ renewed \in BOOLEAN
  /\ answer # "none" => phase = "call"
  /\ tries > 0 <=> phase \in {"call", "backoff"}
  /\ phase = "backoff" => tries < Attempts

\* The provider never runs when its lease has expired at Coordinate: if no
\* renewal gets through, the supervisor notices and the processes are killed
\* while the lease still holds, so no other attempt can overlap with it.
ProviderHoldsLease == phase # "stopped" => now <= expires

\* After a renewal the local deadline is not later than the expiry it stands
\* for, although the answer was on its way for some time and Coordinate's
\* timestamps are rounded (RENEWAL_SAFETY_MARGIN_SECONDS).
DeadlineWithinLease == renewed => deadline <= expires
=============================================================================
