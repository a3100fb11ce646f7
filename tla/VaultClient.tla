----------------------------- MODULE VaultClient -----------------------------
(***************************************************************************)
(* VaultClient.request() of services/shared and the circuit breaker it     *)
(* shares among all calls of the process: every attempt asks canCall(),    *)
(* an attempt that fails or is refused counts as a failure of the breaker, *)
(* and is repeated after a backoff, VAULT_RETRY_LIMIT times.               *)
(*                                                                         *)
(* src/vault holds the same client once more; its breaker differs in       *)
(* comparing the elapsed time with >= instead of > (ResetWhenEqual).       *)
(*                                                                         *)
(* An activation of request() is a Call slot.  A slot that is idle starts  *)
(* its next call after a pause taken from Pauses: the retry timer of the   *)
(* connection managers, a health poll, a handler.                          *)
(***************************************************************************)
EXTENDS Integers, FiniteSets

CONSTANTS
    Call,           \* activations of request()
    Retries,        \* VAULT_RETRY_LIMIT
    Threshold,      \* failures that open the breaker
    ResetAfter,     \* time after which an open breaker lets a call pass
    ResetWhenEqual, \* whether exactly that time is enough
    MaxBackoff,     \* VAULT_RETRY_MAX_DELAY_MS, in units of the base delay
    Timeout,        \* VAULT_TIMEOUT_MS
    Pauses          \* times between two calls of a slot

ASSUME ClientAssumption ==
    /\ Retries \in Nat /\ Threshold \in Nat \ {0}
    /\ ResetAfter \in Nat \ {0} /\ ResetWhenEqual \in BOOLEAN
    /\ MaxBackoff \in Nat \ {0} /\ Timeout \in Nat \ {0}
    /\ Pauses \subseteq Nat /\ Pauses # {} /\ IsFiniteSet(Pauses)

VARIABLES
    state,      \* of the breaker
    failures,   \* counted up to Threshold: beyond, the code only compares
    elapsed,    \* Date.now() - openedAt, up to the first value that resets
    pc,         \* pc[c]: "idle", "sending" or "sleeping"
    attempt,    \* attempt[c]: the loop variable
    wait,       \* wait[c]: what is left of the pause, timeout or backoff
    outage      \* Vault is unreachable or answers 429 or 5xx

breakerVars == <<state, failures, elapsed>>
callVars    == <<pc, attempt, wait>>
vars        == <<breakerVars, callVars, outage>>

MaxWait ==
    LET waits == Pauses \union {MaxBackoff + 1, Timeout}
    IN  CHOOSE n \in waits : \A m \in waits : m <= n

TypeOK ==
    /\ state \in {"closed", "open", "half-open"}
    /\ failures \in 0..Threshold
    /\ elapsed \in 0..(ResetAfter + 1)
    /\ pc \in [Call -> {"idle", "sending", "sleeping"}]
    /\ attempt \in [Call -> 0..Retries]
    /\ wait \in [Call -> 0..MaxWait]
    /\ outage \in BOOLEAN

Init ==
    /\ state = "closed" /\ failures = 0 /\ elapsed = 0
    /\ pc = [c \in Call |-> "idle"]
    /\ attempt = [c \in Call |-> 0]
    /\ wait = [c \in Call |-> 0]
    /\ outage = FALSE

-----------------------------------------------------------------------------
(* The circuit breaker.                                                    *)

ResetDue == elapsed > ResetAfter \/ (ResetWhenEqual /\ elapsed = ResetAfter)

\* A slip: the breaker never tries again.
neverReset == state

\* The state that canCall() leaves behind and judges by.
canCallState == IF state = "open" /\ ResetDue THEN "half-open" ELSE state

\* A slip: closed, but not forgiven.
closeOnly ==
    /\ state' = "closed"
    /\ UNCHANGED <<failures, elapsed>>

success ==
    /\ state' = "closed"
    /\ failures' = 0
    /\ UNCHANGED elapsed

failure ==
    /\ failures' = IF failures < Threshold THEN failures + 1 ELSE failures
    /\ IF failures + 1 >= Threshold
       THEN state' = "open" /\ elapsed' = 0
       ELSE UNCHANGED <<state, elapsed>>

-----------------------------------------------------------------------------
(* request()                                                               *)

\* A slip: the backoff grows without limit.
growingBackoff(a) == {2^a, 2^a + 1}

\* backoff(attempt): min(base * 2^attempt, max) and a jitter below base.
backoff(a) ==
    LET delay == IF 2^a < MaxBackoff THEN 2^a ELSE MaxBackoff
    IN  {delay, delay + 1}

\* A slip: the last attempt is repeated for ever.
endlessLoop(c, a) ==
    /\ pc' = [pc EXCEPT ![c] = "sleeping"]
    /\ attempt' = [attempt EXCEPT ![c] = IF a < Retries THEN a ELSE a - 1]
    /\ \E d \in backoff(a) : wait' = [wait EXCEPT ![c] = d]

\* Another attempt later, or the error reaches the caller.
retryOrThrow(c, a) ==
    \/ /\ a < Retries
       /\ pc' = [pc EXCEPT ![c] = "sleeping"]
       /\ attempt' = [attempt EXCEPT ![c] = a]
       /\ \E d \in backoff(a) : wait' = [wait EXCEPT ![c] = d]
    \/ /\ a = Retries
       /\ pc' = [pc EXCEPT ![c] = "idle"]
       /\ attempt' = [attempt EXCEPT ![c] = 0]
       /\ \E d \in Pauses : wait' = [wait EXCEPT ![c] = d]

\* The call is over: it returns, or throws an error that is not retried.
leave(c) ==
    /\ pc' = [pc EXCEPT ![c] = "idle"]
    /\ attempt' = [attempt EXCEPT ![c] = 0]
    /\ \E d \in Pauses : wait' = [wait EXCEPT ![c] = d]

\* Attempt a begins when its pause or backoff is over.
Due(c, a) ==
    /\ wait[c] = 0
    /\ \/ pc[c] = "idle" /\ a = 0
       \/ pc[c] = "sleeping" /\ a = attempt[c] + 1

Send(c, a) ==
    /\ Due(c, a)
    /\ canCallState # "open"
    /\ state' = canCallState
    /\ pc' = [pc EXCEPT ![c] = "sending"]
    /\ attempt' = [attempt EXCEPT ![c] = a]
    /\ wait' = [wait EXCEPT ![c] = Timeout]
    /\ UNCHANGED <<failures, elapsed, outage>>

\* The error that canCall() causes is thrown inside the try: it counts.
Refuse(c, a) ==
    /\ Due(c, a)
    /\ canCallState = "open"
    /\ failure
    /\ retryOrThrow(c, a)
    /\ UNCHANGED outage

Succeed(c) ==
    /\ pc[c] = "sending" /\ ~outage
    /\ success
    /\ leave(c)
    /\ UNCHANGED outage

\* 4xx other than 429: neither a success nor a failure of the breaker.
Reject(c) ==
    /\ pc[c] = "sending" /\ ~outage
    /\ leave(c)
    /\ UNCHANGED <<breakerVars, outage>>

\* 429, 5xx, no connection, or the timeout.
Fail(c) ==
    /\ pc[c] = "sending" /\ outage
    /\ failure
    /\ retryOrThrow(c, attempt[c])
    /\ UNCHANGED outage

-----------------------------------------------------------------------------
OutageBegins == ~outage /\ outage' = TRUE /\ UNCHANGED <<breakerVars, callVars>>
OutageEnds   == outage /\ outage' = FALSE /\ UNCHANGED <<breakerVars, callVars>>

\* Time passes unless an attempt or a timeout is due.
Tick ==
    /\ \A c \in Call : wait[c] > 0
    /\ wait' = [c \in Call |-> wait[c] - 1]
    /\ elapsed' = IF elapsed <= ResetAfter THEN elapsed + 1 ELSE elapsed
    /\ UNCHANGED <<state, failures, pc, attempt, outage>>

CallStep(c) ==
    \/ \E a \in 0..Retries : Send(c, a) \/ Refuse(c, a)
    \/ Succeed(c) \/ Reject(c) \/ Fail(c)

Next ==
    \/ \E c \in Call : CallStep(c)
    \/ OutageBegins \/ OutageEnds
    \/ Tick

\* The callers keep calling, calls are answered or time out, time passes.
Fairness == WF_vars(Tick) /\ \A c \in Call : WF_vars(CallStep(c))

Spec == Init /\ [][Next]_vars /\ Fairness

-----------------------------------------------------------------------------
\* The state and the count never contradict each other, whichever calls end in
\* whichever order: a breaker that is open or half-open has its failures still
\* counted (so one failed probe opens it again), a closed one is below the
\* threshold (so it takes a failure, never a success or a 4xx, to open it).
CountMatchesState == state = "closed" <=> failures < Threshold

\* Every call ends, in an outage too: neither a refusal nor a backoff keeps a
\* connection manager waiting for ever.
CallsEnd == \A c \in Call : []<>(pc[c] = "idle")

CalmInTheEnd == <>[]~outage

\* If Vault is reachable for good and the callers leave an open breaker alone
\* for longer than its reset time again and again, it opens no more.
RecoversAfterQuiet ==
    CalmInTheEnd /\ []<>(state # "open" \/ ResetDue) => <>[](state # "open")

\* .env.example:28, VAULT_CIRCUIT_RESET_AFTER_MS=10000: that long after it has
\* opened the breaker lets a call pass; so it does not stay open for ever when
\* Vault is reachable for good, however often it is asked.
RecoversInTime == CalmInTheEnd => []<>(state # "open")
=============================================================================
