----------------------------- MODULE VaultLeases -----------------------------
(***************************************************************************)
(* HashiCorp Vault's database secrets engine, as far as the connection     *)
(* managers use it: read database/creds/<role> issues a lease, sys/leases/ *)
(* renew extends a live lease, sys/leases/revoke ends it, and a lease that *)
(* is not renewed ends by itself (the generated database role is dropped). *)
(* Vault is not part of the repository: these operators are modelled from  *)
(* the requests of services/shared/vault-client.ts and the TTLs that       *)
(* scripts/init-vault.sh configures.                                       *)
(*                                                                         *)
(* Time is counted down: ttl[l] is what is left of lease l, 0 when it is   *)
(* dead.  Lease identities are a finite set of slots, reused once dead and *)
(* forgotten by the client (see Free in the managers).                     *)
(***************************************************************************)
EXTENDS Integers

CONSTANTS
    Lease,       \* slots for lease ids
    DefaultTtl   \* lease_duration of a new lease (default_ttl of the role)

ASSUME VaultAssumption == DefaultTtl \in Nat \ {0}

VARIABLE ttl     \* ttl[l]: time left of lease l at Vault

Live(l) == ttl[l] > 0

LeaseTypeOK == ttl \in [Lease -> 0..DefaultTtl]

NoLeases == ttl = [l \in Lease |-> 0]

issueLease(l) == ttl' = [ttl EXCEPT ![l] = DefaultTtl]

\* A renewal never shortens a lease, and max_ttl may keep it from adding much.
extendLease(l, d) ==
    /\ Live(l)
    /\ d \in ttl[l]..DefaultTtl
    /\ ttl' = [ttl EXCEPT ![l] = d]

endLease(l) == ttl' = [ttl EXCEPT ![l] = 0]

\* One unit of time less, never below zero.
CountDown(n) == IF n > 0 THEN n - 1 ELSE n

elapseLeases == ttl' = [l \in Lease |-> CountDown(ttl[l])]
=============================================================================
