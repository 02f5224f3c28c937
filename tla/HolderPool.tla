----------------------------- MODULE HolderPool -----------------------------
(***************************************************************************)
(* What a vault promises its holders, whichever way it shares the money    *)
(* out: the pool only ever gains, every payment comes out of what was put  *)
(* in, reaches the payee in full, and is never taken back.                 *)
(***************************************************************************)
EXTENDS Integers, Functions

CONSTANTS Payees

VARIABLES funded,       \* ever added to the pool
          spent,        \* ever paid out of it
          received      \* ever received by each payee

pool == <<funded, spent, received>>

PoolInit ==
    /\ funded = 0
    /\ spent = 0
    /\ received = [p \in Payees |-> 0]

Fund ==
    /\ funded' \in Nat
    /\ funded' > funded
    /\ UNCHANGED <<spent, received>>

PayOne(p) ==
    /\ spent' \in Nat
    /\ spent < spent' /\ spent' <= funded
    /\ received' = [received EXCEPT ![p] = @ + (spent' - spent)]
    /\ UNCHANGED funded

Total(amounts) == FoldFunction(LAMBDA x, y : x + y, 0, amounts)

PayMany ==
    /\ spent' \in Nat
    /\ spent < spent' /\ spent' <= funded
    /\ \A p \in Payees : received'[p] >= received[p]
    /\ Total(received') - Total(received) = spent' - spent
    /\ UNCHANGED funded

PoolNext == Fund \/ (\E p \in Payees : PayOne(p)) \/ PayMany

PoolSpec == PoolInit /\ [][PoolNext]_pool
=============================================================================
