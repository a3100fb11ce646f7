--------------------------- MODULE VaultClientProofs ---------------------------
(***************************************************************************)
(* The breaker's state and its count agree for any number of calls, any    *)
(* threshold, reset time and backoff, and in both copies of the client;    *)
(* and no attempt and no wait exceeds the limits that the code sets them.  *)
(***************************************************************************)
EXTENDS VaultClient, FiniteSetTheorems, WellFoundedInduction, TLAPS

\* Agreement needs the count to be a number, at most the threshold.
BreakerInv ==
    /\ failures \in 0..Threshold
    /\ state \in {"closed", "open", "half-open"}
    /\ CountMatchesState

\* A failure that reaches the threshold opens the breaker, a lesser one leaves
\* it as it is.
LEMMA FailureKeepsBreaker == BreakerInv /\ failure => BreakerInv'
BY ClientAssumption DEF failure, BreakerInv, CountMatchesState

\* A success closes the breaker and forgets the failures.
LEMMA SuccessKeepsBreaker == BreakerInv /\ success => BreakerInv'
BY ClientAssumption DEF success, BreakerInv, CountMatchesState

\* canCall() moves only between the two states that count as not closed.
LEMMA AskingKeepsBreaker ==
    BreakerInv /\ state' = canCallState /\ UNCHANGED failures => BreakerInv'
BY DEF canCallState, BreakerInv, CountMatchesState

\* Every step of every call, the clock and Vault keep the agreement.
LEMMA BreakerStep == BreakerInv /\ [Next]_vars => BreakerInv'
<1>. SUFFICES ASSUME BreakerInv, [Next]_vars PROVE BreakerInv'
  OBVIOUS
<1>1. ASSUME NEW c \in Call, CallStep(c) PROVE BreakerInv'
  <2>1. CASE \E a \in 0..Retries : Send(c, a)
    BY <2>1, AskingKeepsBreaker DEF Send
  <2>2. CASE (\E a \in 0..Retries : Refuse(c, a)) \/ Fail(c)
    BY <2>2, FailureKeepsBreaker DEF Refuse, Fail
  <2>3. CASE Succeed(c)
    BY <2>3, SuccessKeepsBreaker DEF Succeed
  <2>4. CASE Reject(c)
    BY <2>4 DEF Reject, breakerVars, BreakerInv, CountMatchesState
  <2>. QED BY <1>1, <2>1, <2>2, <2>3, <2>4 DEF CallStep
<1>2. CASE OutageBegins \/ OutageEnds \/ Tick \/ UNCHANGED vars
  BY <1>2 DEF OutageBegins, OutageEnds, Tick, vars, breakerVars, BreakerInv, CountMatchesState
<1>. QED BY <1>1, <1>2 DEF Next

\* State and count of the breaker never contradict each other.
THEOREM StateAgreesWithCount == Spec => []CountMatchesState
<1>1. Init => BreakerInv
  BY ClientAssumption DEF Init, BreakerInv, CountMatchesState
<1>2. BreakerInv => CountMatchesState
  BY DEF BreakerInv
<1>. QED BY <1>1, <1>2, BreakerStep, PTL DEF Spec

-----------------------------------------------------------------------------
(* Limits.                                                                 *)

\* A finite set of numbers has a greatest one: where the least set of numbers not
\* below some element begins.
LEMMA GreatestExists ==
    ASSUME NEW S \in SUBSET Nat, IsFiniteSet(S), S # {}
    PROVE  \E n \in S : \A m \in S : m <= n
<1>. DEFINE from(n) == {m \in S : n <= m}
            B == {from(n) : n \in S}
<1>1. \A n \in S : from(n) \in FiniteSubsetsOf(S)
  BY FS_Subset DEF FiniteSubsetsOf
<1>2. B # {} /\ B \subseteq FiniteSubsetsOf(S)
  BY <1>1
<1>3. IsWellFoundedOn(StrictSubsetOrdering(S), FiniteSubsetsOf(S))
  BY FS_StrictSubsetOrderingWellFounded
<1>4. PICK U \in B : \A V \in B : <<V, U>> \notin StrictSubsetOrdering(S)
  <2>. HIDE DEF B
  <2>. QED BY <1>2, <1>3, WFMin
<1>5. PICK n \in S : U = from(n)
  BY <1>4
<1>6. ASSUME NEW m \in S, n < m PROVE FALSE
  <2>1. n \in Nat /\ m \in Nat /\ \A x \in S : x \in Nat
    OBVIOUS
  <2>. HIDE DEF B
  <2>4. from(m) \subseteq from(n)
    <3>. SUFFICES ASSUME NEW x \in S, m <= x PROVE n <= x
      OBVIOUS
    <3>. QED BY <1>6, <2>1
  <2>5. n \notin from(m) /\ n \in from(n)
    BY <1>6, <2>1
  <2>2. <<from(m), from(n)>> \in StrictSubsetOrdering(S)
    BY <2>4, <2>5 DEF StrictSubsetOrdering
  <2>3. from(m) \in B
    BY DEF B
  <2>. QED BY <1>4, <1>5, <2>2, <2>3
<1>. QED BY <1>6

\* No pause, timeout or backoff is longer than MaxWait.
LEMMA WaitBounds ==
    /\ MaxWait \in Nat
    /\ \A d \in Pauses \union {Timeout} : d \in 0..MaxWait
    /\ MaxBackoff + 1 \in 0..MaxWait
<1>. DEFINE waits == Pauses \union {MaxBackoff + 1, Timeout}
<1>1. waits \in SUBSET Nat /\ waits # {}
  BY ClientAssumption
<1>2. IsFiniteSet(waits)
  <2>1. IsFiniteSet(Pauses \union {MaxBackoff + 1})
    BY FS_AddElement, ClientAssumption
  <2>2. waits = (Pauses \union {MaxBackoff + 1}) \union {Timeout}
    OBVIOUS
  <2>. QED BY <2>1, <2>2, FS_AddElement
<1>3. \E n \in waits : \A m \in waits : m <= n
  <2>. HIDE DEF waits
  <2>. QED BY <1>1, <1>2, GreatestExists
<1>4. MaxWait = CHOOSE n \in waits : \A m \in waits : m <= n
  BY DEF MaxWait
<1>5. MaxWait \in waits /\ \A m \in waits : m <= MaxWait
  <2>. HIDE DEF waits
  <2>. QED BY <1>3, <1>4
<1>6. \A m \in waits : m \in 0..MaxWait
  BY <1>1, <1>5
<1>. QED BY <1>1, <1>5, <1>6

\* Two to the power of a number is one: so many subsets has a set of that many.
LEMMA PowerNat == ASSUME NEW a \in Nat PROVE 2^a \in Nat
<1>1. IsFiniteSet(1..a) /\ Cardinality(1..a) = a
  BY FS_Interval
<1>2. IsFiniteSet(SUBSET (1..a)) /\ Cardinality(SUBSET (1..a)) = 2^Cardinality(1..a)
  BY <1>1, FS_SUBSET
<1>. QED BY <1>1, <1>2, FS_CardinalityType

\* A backoff is at most the greatest delay and its jitter.
LEMMA BackoffBounds == ASSUME NEW a \in 0..Retries PROVE backoff(a) \subseteq 0..MaxWait
<1>1. a \in Nat
  BY ClientAssumption
<1>2. 2^a \in Nat
  BY <1>1, PowerNat
<1>3. MaxBackoff + 1 \in 0..MaxWait /\ MaxWait \in Nat /\ MaxBackoff \in Nat
  BY WaitBounds, ClientAssumption
<1>. DEFINE delay == IF 2^a < MaxBackoff THEN 2^a ELSE MaxBackoff
<1>4. delay \in 0..MaxBackoff
  BY <1>2, <1>3
<1>5. backoff(a) = {delay, delay + 1}
  BY DEF backoff
<1>. QED
  <2>. HIDE DEF delay
  <2>. QED BY <1>3, <1>4, <1>5

CallType ==
    /\ pc \in [Call -> {"idle", "sending", "sleeping"}]
    /\ attempt \in [Call -> 0..Retries]
    /\ wait \in [Call -> 0..MaxWait]

\* The next attempt, if there is one left, is within the limit.
LEMMA RetryType ==
    ASSUME CallType, NEW c \in Call, NEW a \in 0..Retries, retryOrThrow(c, a)
    PROVE  CallType'
<1>1. 0 \in 0..Retries
  BY ClientAssumption
<1>2. CASE \E d \in backoff(a) : wait' = [wait EXCEPT ![c] = d]
  BY <1>1, <1>2, BackoffBounds DEF CallType, retryOrThrow
<1>3. CASE \E d \in Pauses : wait' = [wait EXCEPT ![c] = d]
  BY <1>1, <1>3, WaitBounds DEF CallType, retryOrThrow
<1>. QED BY <1>2, <1>3 DEF retryOrThrow

\* A call that is over starts again with attempt 0.
LEMMA LeaveType ==
    ASSUME CallType, NEW c \in Call, leave(c)
    PROVE  CallType'
<1>1. 0 \in 0..Retries
  BY ClientAssumption
<1>. QED BY <1>1, WaitBounds DEF CallType, leave

\* The breaker's clock is cut where it makes no difference.
LEMMA FailureType ==
    ASSUME elapsed \in 0..(ResetAfter + 1), failure
    PROVE  elapsed' \in 0..(ResetAfter + 1)
BY ClientAssumption DEF failure

Limits == CallType /\ elapsed \in 0..(ResetAfter + 1) /\ outage \in BOOLEAN

\* Every step keeps calls and clock within their limits.
LEMMA LimitStep ==
    ASSUME Limits, [Next]_vars
    PROVE  Limits'
<1>. USE DEF Limits
<1>1. ASSUME NEW c \in Call, NEW a \in 0..Retries, Send(c, a)
      PROVE  CallType' /\ UNCHANGED <<elapsed, outage>>
  BY <1>1, WaitBounds DEF Send, CallType
<1>2. ASSUME NEW c \in Call, NEW a \in 0..Retries, Refuse(c, a)
      PROVE  CallType' /\ elapsed' \in 0..(ResetAfter + 1) /\ UNCHANGED outage
  BY <1>2, RetryType, FailureType DEF Refuse
<1>3. ASSUME NEW c \in Call, Fail(c)
      PROVE  CallType' /\ elapsed' \in 0..(ResetAfter + 1) /\ UNCHANGED outage
  <2>1. attempt[c] \in 0..Retries
    BY DEF CallType
  <2>. QED BY <1>3, <2>1, RetryType, FailureType DEF Fail
<1>4. ASSUME NEW c \in Call, Succeed(c) \/ Reject(c)
      PROVE  CallType' /\ UNCHANGED <<elapsed, outage>>
  BY <1>4, LeaveType DEF Succeed, Reject, success, breakerVars
<1>5. CASE OutageBegins \/ OutageEnds \/ UNCHANGED vars
  BY <1>5 DEF OutageBegins, OutageEnds, vars, breakerVars, callVars, CallType
<1>6. CASE Tick
  <2>1. \A c \in Call : wait[c] - 1 \in 0..MaxWait
    BY <1>6, WaitBounds DEF Tick, CallType
  <2>2. elapsed' \in 0..(ResetAfter + 1)
    BY <1>6, ClientAssumption DEF Tick
  <2>. QED BY <1>6, <2>1, <2>2 DEF Tick, CallType
<1>. QED BY <1>1, <1>2, <1>3, <1>4, <1>5, <1>6 DEF Next, CallStep

\* No call makes more than VAULT_RETRY_LIMIT repetitions, and none waits longer
\* than the longest of its pause, its timeout and the greatest backoff.
THEOREM TypeCorrect == Spec => []TypeOK
<1>1. Init => BreakerInv
  BY ClientAssumption DEF Init, BreakerInv, CountMatchesState
<1>2. Init => Limits
  <2>1. 0 \in 0..Retries /\ 0 \in 0..MaxWait /\ 0 \in 0..(ResetAfter + 1)
    BY ClientAssumption, WaitBounds
  <2>. QED BY <2>1 DEF Init, Limits, CallType
<1>3. Limits /\ [Next]_vars => Limits'
  BY LimitStep
<1>4. BreakerInv /\ Limits => TypeOK
  BY DEF BreakerInv, Limits, CallType, TypeOK
<1>. QED BY <1>1, <1>2, <1>3, <1>4, BreakerStep, PTL DEF Spec
=============================================================================
