---------------------------- MODULE PoolLifecycle ----------------------------
(***************************************************************************)
(* What the connection managers promise about their pools, without timers, *)
(* handlers, failures and Vault: there is at most one pool in force and at *)
(* most one candidate; a candidate is promoted or lost; the pool that one  *)
(* replaces is drained, then closed, then its lease is revoked; shutdown   *)
(* closes the pool in force; an exit takes everything with it.  A pool is  *)
(* lost when it was a candidate or when its close fails: it stays open and *)
(* nobody closes it.  No pool in force is ever lost.                       *)
(***************************************************************************)
CONSTANTS Lease, None

VARIABLES
    current,    \* lease of the pool in force, or None
    pool        \* pool[l]: how far the pool opened with l has come

Init ==
    /\ current = None
    /\ pool = [l \in Lease |-> "none"]

Candidate(l) == pool[l] = "open" /\ l # current

Open(l) ==
    /\ \A m \in Lease : ~Candidate(m)
    /\ pool[l] = "none"
    /\ pool' = [pool EXCEPT ![l] = "open"]
    /\ UNCHANGED current

\* The candidate is given up, but not closed.
Discard(l) ==
    /\ Candidate(l)
    /\ pool' = [pool EXCEPT ![l] = "lost"]
    /\ UNCHANGED current

Promote(l) ==
    /\ Candidate(l)
    /\ current' = l
    /\ pool' = [m \in Lease |-> IF m = current THEN "draining" ELSE pool[m]]

\* One stage on; a close or a revoke that fails is not repeated.
Advance(l) ==
    /\ \/ pool[l] = "draining" /\ pool' = [pool EXCEPT ![l] = "closing"]
       \/ pool[l] = "closing" /\ pool' = [pool EXCEPT ![l] = "revoking"]
       \/ pool[l] = "closing" /\ pool' = [pool EXCEPT ![l] = "lost"]
       \/ pool[l] = "revoking" /\ pool' = [pool EXCEPT ![l] = "none"]
    /\ UNCHANGED current

\* The name of a lost pool is used for a new lease.
Reuse(l) ==
    /\ pool[l] = "lost"
    /\ pool' = [pool EXCEPT ![l] = "none"]
    /\ UNCHANGED current

Shutdown ==
    /\ current # None
    /\ pool' = [pool EXCEPT ![current] = "closing"]
    /\ current' = None

Exit ==
    /\ pool' = [l \in Lease |-> "none"]
    /\ current' = None

Next ==
    \/ \E l \in Lease : Open(l) \/ Discard(l) \/ Promote(l) \/ Advance(l) \/ Reuse(l)
    \/ Shutdown \/ Exit

Spec == Init /\ [][Next]_<<current, pool>>
=============================================================================
