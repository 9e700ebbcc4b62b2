------------------------ MODULE LeaseRenewal_proofs -------------------------
(***************************************************************************)
(* By how much a provider may outlive its lease, for every lease and every  *)
(* client timing, and that it does not where they satisfy RenewsInTime.      *)
(***************************************************************************)
EXTENDS LeaseRenewal, TLAPS

USE ConstantsAreNat, WholeSeconds

\* A time loses less than a second when it is stamped.
LEMMA StampBounds ==
  ASSUME NEW t \in Nat
  PROVE  Stamp(t) \in Nat /\ Stamp(t) <= t /\ t - Sec + 1 <= Stamp(t)
<1>1. t % Sec \in 0..Sec - 1 /\ t % Sec <= t
  OBVIOUS
<1> QED
  BY <1>1 DEF Stamp

\* The tries that are left of a call, with the pauses before them.
RestOf(k) == (Attempts - k) * (AttemptTimeout + Backoff)

\* RestOf shrinks by one try and one pause at a time, and with the first try
\* it makes up the budget.
LEMMA RestBounds ==
  /\ Budget = AttemptTimeout + RestOf(1)
  /\ Budget \in Nat
  /\ \A k \in 1..Attempts : RestOf(k) \in Nat /\ RestOf(k) <= RestOf(1)
  /\ \A k \in 1..Attempts : k < Attempts => RestOf(k) = RestOf(k + 1) + AttemptTimeout + Backoff
<1> DEFINE X == AttemptTimeout + Backoff
<1>1. Attempts * AttemptTimeout \in Nat /\ (Attempts - 1) * Backoff \in Nat
  OBVIOUS
<1>2. Budget = AttemptTimeout + RestOf(1)
  BY DEF Budget, RestOf
<1>3. ASSUME NEW k \in 1..Attempts PROVE RestOf(k) \in Nat
  BY DEF RestOf
<1>4. ASSUME NEW k \in 1..Attempts PROVE RestOf(k) <= RestOf(1)
  <2>1. (k - 1) * X >= 0
    OBVIOUS
  <2>2. (Attempts - 1) * X = (Attempts - k) * X + (k - 1) * X
    OBVIOUS
  <2>3. (Attempts - k) * X \in Int /\ (k - 1) * X \in Int
    OBVIOUS
  <2> QED
    BY <2>1, <2>2, <2>3 DEF RestOf
<1>5. ASSUME NEW k \in 1..Attempts, k < Attempts
      PROVE  RestOf(k) = RestOf(k + 1) + AttemptTimeout + Backoff
  BY DEF RestOf
<1> QED
  BY <1>1, <1>2, <1>3, <1>4, <1>5 DEF Budget

-----------------------------------------------------------------------------
\* The initial states have their types.
LEMMA TypeInit == Init => TypeOK
<1> SUFFICES ASSUME Init PROVE TypeOK
  OBVIOUS
<1>1. PICK g \in 0..Sec - 1, s \in 0..Sec + ClaimDelay :
        /\ now \in g..g + ClaimDelay
        /\ expires = Stamp(g) + TTL
        /\ deadline = LocalDeadline(expires - Stamp(s))
        /\ phase = IF now >= deadline THEN "stopping" ELSE "sleep"
        /\ until = IF now >= deadline THEN now + StopTime ELSE NextWake(deadline)
        /\ tries = 0 /\ answer = "none" /\ renewed = FALSE
  BY DEF Init
<1>2. g \in Nat /\ s \in Nat /\ now \in Nat
  BY <1>1
<1>3. expires \in Nat /\ deadline \in Int
  BY <1>1, <1>2, StampBounds DEF LocalDeadline
<1>4. until \in Nat
  BY <1>1, <1>2, <1>3 DEF NextWake, Lesser, Greater
<1>5. phase \in {"stopping", "sleep"} /\ tries = 0 /\ answer = "none" /\ renewed = FALSE
  BY <1>1
<1>6. tries \in 0..Attempts /\ ~(tries > 0)
  BY <1>1
<1>7. renewed \in BOOLEAN
  BY <1>1
<1> QED
  BY <1>2, <1>3, <1>4, <1>5, <1>6, <1>7 DEF TypeOK

\* The top of the supervisor's loop keeps the types.
LEMMA TypeLoopHead ==
  ASSUME now \in Nat, NEW d \in Int, LoopHead(d)
  PROVE  /\ until' \in Nat /\ deadline' = d /\ phase' \in {"sleep", "stopping"}
         /\ tries' = 0 /\ answer' = "none"
  BY DEF LoopHead, NextWake, Lesser, Greater

\* Every step keeps the types.
LEMMA TypeStep == TypeOK /\ [Next]_vars => TypeOK'
<1> SUFFICES ASSUME TypeOK, [Next]_vars PROVE TypeOK'
  OBVIOUS
<1>1. CASE UNCHANGED vars
  BY <1>1 DEF TypeOK, vars
<1>2. CASE Tick
  BY <1>2 DEF TypeOK, Tick
<1>3. CASE Wake \/ Retry
  BY <1>3 DEF TypeOK, Wake, Retry, StartTry
<1>4. CASE Renewed
  BY <1>4, StampBounds DEF TypeOK, Renewed
<1>5. CASE Refused
  BY <1>5 DEF TypeOK, Refused
<1>6. CASE Granted
  <2>1. LocalDeadline(TTL) \in Int
    BY DEF TypeOK, LocalDeadline
  <2> QED
    BY <1>6, <2>1, TypeLoopHead DEF TypeOK, Granted
<1>7. CASE Rejected \/ TryFails
  BY <1>7 DEF TypeOK, Rejected, TryFails, Lose
<1>8. CASE ProviderKilled \/ ProviderReturns
  BY <1>8 DEF TypeOK, ProviderKilled, ProviderReturns
<1> QED
  BY <1>1, <1>2, <1>3, <1>4, <1>5, <1>6, <1>7, <1>8 DEF Next

\* The state always has its type.
THEOREM TypeCorrect == Spec => []TypeOK
  BY TypeInit, TypeStep, PTL DEF Spec

-----------------------------------------------------------------------------
\* By how much the lease is too short for what RenewsInTime asks of it.
Excess ==
  Greater(0, Greater(ClaimDelay, AttemptTimeout) + Greater(Sec, Interval) + Budget + StopTime
             + Sec - 1 - TTL)

\* The lease makes room for one interval, one failing call and the end of the
\* provider, at the latest Excess after its expiry.
LEMMA ExcessBounds ==
  /\ Excess \in Nat
  /\ ClaimDelay + Greater(Sec, Interval) + Budget + StopTime + Sec - 1 <= TTL + Excess
  /\ AttemptTimeout + Greater(Sec, Interval) + Budget + StopTime + Sec - 1 <= TTL + Excess
  /\ Greater(Sec, Interval) \in Nat
  /\ RenewsInTime => Excess = 0
<1> DEFINE D == Greater(ClaimDelay, AttemptTimeout)
           G == Greater(Sec, Interval)
<1>1. D \in Nat /\ ClaimDelay <= D /\ AttemptTimeout <= D /\ G \in Nat /\ Budget \in Nat
  BY RestBounds DEF Greater
<1>2. Excess = IF 0 > D + G + Budget + StopTime + Sec - 1 - TTL THEN 0
               ELSE D + G + Budget + StopTime + Sec - 1 - TTL
  BY DEF Excess, Greater
<1>3. RenewsInTime <=> D + G + Budget + StopTime + Sec - 1 <= TTL
  BY DEF RenewsInTime
<1> HIDE DEF D, G
<1>4. /\ Excess \in Nat
      /\ ClaimDelay + G + Budget + StopTime + Sec - 1 <= TTL + Excess
      /\ AttemptTimeout + G + Budget + StopTime + Sec - 1 <= TTL + Excess
      /\ RenewsInTime => Excess = 0
  BY <1>1, <1>2, <1>3
<1> QED
  BY <1>1, <1>4 DEF G

\* What is left to do in each phase ends before the lease does, or at the latest
\* Excess after it.
InTime ==
  /\ phase # "stopped" => now <= until
  /\ phase = "sleep" => until + Budget + StopTime <= expires + Excess
  /\ phase = "call" => /\ until <= now + AttemptTimeout
                       /\ until + RestOf(tries) + StopTime <= expires + Excess
  /\ answer = "granted" => until + TTL <= expires + AttemptTimeout + Sec - 1
  /\ phase = "backoff" => until + RestOf(tries) + StopTime <= expires + Excess + Backoff
  /\ phase = "stopping" => until <= expires + Excess

\* A lease starts in time.
LEMMA InTimeInit == Init => InTime
<1> SUFFICES ASSUME Init PROVE InTime
  OBVIOUS
<1>1. PICK g \in 0..Sec - 1, s \in 0..Sec + ClaimDelay :
        /\ now \in g..g + ClaimDelay
        /\ expires = Stamp(g) + TTL
        /\ deadline = LocalDeadline(expires - Stamp(s))
        /\ phase = IF now >= deadline THEN "stopping" ELSE "sleep"
        /\ until = IF now >= deadline THEN now + StopTime ELSE NextWake(deadline)
        /\ tries = 0 /\ answer = "none" /\ renewed = FALSE
  BY DEF Init
<1>2. TypeOK
  BY TypeInit
<1>3. g \in Nat /\ s \in Nat /\ now <= Sec - 1 + ClaimDelay /\ expires >= TTL
  BY <1>1, <1>2, StampBounds DEF TypeOK
<1>4. CASE phase = "stopping"
  <2>1. until = now + StopTime
    BY <1>1, <1>4
  <2> QED
    BY <1>1, <1>2, <1>3, <1>4, <2>1, RestBounds, ExcessBounds DEF InTime, TypeOK
<1>5. CASE phase = "sleep"
  <2>1. until = NextWake(deadline) /\ now < deadline
    BY <1>1, <1>2, <1>5 DEF TypeOK
  <2>2. now <= until /\ until <= now + Greater(Sec, Interval)
    BY <1>2, <2>1, ExcessBounds DEF NextWake, Lesser, TypeOK
  <2> QED
    BY <1>1, <1>2, <1>3, <1>5, <2>2, RestBounds, ExcessBounds DEF InTime, TypeOK
<1> QED
  BY <1>1, <1>4, <1>5

\* Every step leaves enough of the lease for what comes after it.
LEMMA InTimeStep ==
  ASSUME TypeOK, TypeOK', InTime, [Next]_vars
  PROVE  InTime'
<1> USE RestBounds, ExcessBounds
<1>1. CASE UNCHANGED vars
  BY <1>1 DEF InTime, vars
<1>2. CASE Tick
  BY <1>2 DEF InTime, Tick, TypeOK
<1>3. CASE Wake
  BY <1>3 DEF InTime, Wake, StartTry, TypeOK
<1>4. CASE Retry
  BY <1>4 DEF InTime, Retry, StartTry, TypeOK
<1>5. CASE Renewed
  BY <1>5, StampBounds DEF InTime, Renewed, TypeOK
<1>6. CASE Refused
  BY <1>6 DEF InTime, Refused
<1>7. CASE Granted
  BY <1>7 DEF InTime, Granted, LoopHead, LocalDeadline, NextWake, Lesser, TypeOK
<1>8. CASE Rejected
  BY <1>8 DEF InTime, Rejected, Lose, TypeOK
<1>9. CASE TryFails
  <2>1. tries \in 1..Attempts /\ RestOf(tries) \in Nat
    BY <1>9 DEF TypeOK, TryFails
  <2>2. CASE Lose
    BY <1>9, <2>1, <2>2 DEF InTime, TryFails, Lose, TypeOK
  <2>3. CASE ~Lose
    <3>1. /\ phase' = "backoff" /\ until' = now + Backoff /\ answer' = "none"
          /\ UNCHANGED <<now, expires, tries>>
      BY <1>9, <2>3 DEF TryFails
    <3>2. now <= until /\ until + RestOf(tries) + StopTime <= expires + Excess
      BY <1>9 DEF InTime, TryFails
    <3>3. until' + RestOf(tries) + StopTime <= expires + Excess + Backoff
      BY <2>1, <3>1, <3>2 DEF TypeOK
    <3> QED
      BY <3>1, <3>3 DEF InTime, TypeOK
  <2> QED
    BY <2>2, <2>3
<1>10. CASE ProviderKilled \/ ProviderReturns
  BY <1>10 DEF InTime, ProviderKilled, ProviderReturns, TypeOK
<1> QED
  BY <1>1, <1>2, <1>3, <1>4, <1>5, <1>6, <1>7, <1>8, <1>9, <1>10 DEF Next

\* Whatever the lease and the client's timing are, the provider outlives its lease
\* by no more than Excess: the renewal supervisor stops it then (_renewal_-
\* supervisor, _request_with_retry).  For the defaults of the HTTP client Excess
\* is 0; with the CLI client, whose calls may take 30 s, it is 44.5 s.
THEOREM OverrunBounded ==
  Spec => [](phase # "stopped" => now <= expires + Excess)
<1>1. Init => InTime
  BY InTimeInit
<1>2. TypeOK /\ TypeOK' /\ InTime /\ [Next]_vars => InTime'
  BY InTimeStep
<1>3. TypeOK /\ InTime => (phase # "stopped" => now <= expires + Excess)
  BY RestBounds, ExcessBounds DEF TypeOK, InTime
<1> QED
  BY <1>1, <1>2, <1>3, TypeCorrect, PTL DEF Spec

\* If one interval, one failing renewal and the end of the provider fit into
\* the lease (RenewsInTime), the provider never outlives its lease.
THEOREM ProviderInsideLease ==
  ASSUME RenewsInTime
  PROVE  Spec => []ProviderHoldsLease
<1>1. TypeOK /\ (phase # "stopped" => now <= expires + Excess) => ProviderHoldsLease
  BY ExcessBounds DEF TypeOK, ProviderHoldsLease
<1> QED
  BY <1>1, OverrunBounded, TypeCorrect, PTL

-----------------------------------------------------------------------------
\* The local deadline stands for an expiry that Coordinate has given out.
DeadlineInv ==
  /\ phase = "call" => until <= now + AttemptTimeout
  /\ phase # "stopped" => now <= until
  /\ answer = "granted" => until + TTL <= expires + AttemptTimeout + Sec - 1
  /\ renewed => deadline <= now + TTL - Margin /\ deadline <= expires

\* No step moves the local deadline past the expiry.
LEMMA DeadlineStep ==
  ASSUME MarginCoversAnswer, TypeOK, TypeOK', DeadlineInv, [Next]_vars
  PROVE  DeadlineInv'
<1>1. CASE UNCHANGED vars
  BY <1>1 DEF DeadlineInv, vars
<1>2. CASE Tick
  BY <1>2 DEF DeadlineInv, Tick, TypeOK
<1>3. CASE Wake \/ Retry
  <2>1. /\ now' = now /\ until' = now + AttemptTimeout /\ answer' = "none"
        /\ UNCHANGED <<expires, deadline, renewed>>
    BY <1>3 DEF Wake, Retry, StartTry
  <2> QED
    BY <2>1 DEF DeadlineInv, TypeOK
<1>4. CASE Renewed
  BY <1>4, StampBounds DEF DeadlineInv, Renewed, TypeOK, MarginCoversAnswer
<1>5. CASE Refused
  BY <1>5 DEF DeadlineInv, Refused
<1>6. CASE Granted
  BY <1>6 DEF DeadlineInv, Granted, LoopHead, LocalDeadline, NextWake, Lesser, Greater,
              TypeOK, MarginCoversAnswer
<1>7. CASE Rejected \/ TryFails
  <2>1. /\ phase' # "call" /\ now' = now /\ answer' = "none"
        /\ until' = now + StopTime \/ until' = now + Backoff
        /\ UNCHANGED <<expires, deadline, renewed>>
    BY <1>7 DEF Rejected, TryFails, Lose
  <2> QED
    BY <2>1 DEF DeadlineInv, TypeOK
<1>8. CASE ProviderKilled \/ ProviderReturns
  BY <1>8 DEF DeadlineInv, ProviderKilled, ProviderReturns, TypeOK
<1> QED
  BY <1>1, <1>2, <1>3, <1>4, <1>5, <1>6, <1>7, <1>8 DEF Next

\* With a margin that covers an answer under way and the rounding, the local
\* deadline is never later than the expiry at Coordinate.
THEOREM DeadlineInsideLease ==
  ASSUME MarginCoversAnswer
  PROVE  Spec => []DeadlineWithinLease
<1>1. Init => DeadlineInv
  BY TypeInit DEF Init, DeadlineInv, NextWake, Lesser, Greater, TypeOK
<1>2. TypeOK /\ TypeOK' /\ DeadlineInv /\ [Next]_vars => DeadlineInv'
  BY DeadlineStep
<1>3. DeadlineInv => DeadlineWithinLease
  BY DEF DeadlineInv, DeadlineWithinLease
<1> QED
  BY <1>1, <1>2, <1>3, TypeCorrect, PTL DEF Spec
=============================================================================
