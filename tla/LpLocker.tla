------------------------------ MODULE LpLocker ------------------------------
(***************************************************************************)
(* A lock of the lp_locker program on an XDEX pool: its NFT's holder may   *)
(* take the fees the locked liquidity earns (collect_fees) and, once a     *)
(* timed lock has ended, all of it (unlock).  Others trade, add and remove *)
(* liquidity at any time; other locks of the pool are among them, since    *)
(* all they do to it is to remove liquidity.  Liquidity is measured in     *)
(* sqrt(k), the root of the product of the pool's reserves, in whole       *)
(* units.  Who signs, and what the NFT's mint must be, is left out.        *)
(***************************************************************************)
EXTENDS Integers

CONSTANTS
  Reserves0, Supply0,\* the pool as it starts: its reserves, on sides 1 and 2, and its LP
  ToLock,            \* LP that may be locked
  Ends,              \* when a timed lock may end
  SwapIn,            \* what a swap may bring in
  LpMoved,           \* LP that others may add, remove, or give to the lock
  TRADE_FEE,         \* one in so many units swapped stays in the pool ...
  PROTOCOL_FEE,      \* ... of which one in so many is the protocol's
  LpMaxTime, MaxPoolOps  \* bounds: the clock, and what others do to the pool

Sides == {1, 2}
Forever == LpMaxTime + 1   \* no schedule: the lock never ends

ASSUME LockerAssumption ==
  /\ Reserves0 \in [Sides -> Nat \ {0}] /\ Supply0 \in Nat \ {0}
  /\ ToLock \cup SwapIn \cup LpMoved \subseteq Nat \ {0} /\ Ends \subseteq Nat
  /\ TRADE_FEE \in Nat \ {0} /\ PROTOCOL_FEE \in Nat \ {0}
  /\ LpMaxTime \in Nat /\ MaxPoolOps \in Nat

VARIABLES
  pool_tokens,       \* the pool's two token accounts
  protocol_fees,     \* what of them is the protocol's
  lp_supply, paused, \* PoolState: LP there is; whether withdrawals are paused
  lp_outside,        \* LP that is not in the lock's vault
  vault,             \* LP that is
  lock,              \* the Lock and LockSchedule accounts
  lpNow,             \* the clock
  poolOps            \* bound: what others have done to the pool

poolVars == <<pool_tokens, protocol_fees, lp_supply, paused, poolOps>>
lockVars == <<lp_outside, vault, lock>>
lockerVars == <<poolVars, lockVars, lpNow>>

NoLock == [stage |-> "none", locked_lp |-> 0, principal |-> 0, fee_lp_collected |-> 0, unlock_at |-> 0]

MulDivFloor(a, b, c) == (a * b) \div c
MulDivCeil(a, b, c) == (a * b + c - 1) \div c

(* What isqrt returns, and the steps it takes down to it, from a power of  *)
(* two that is not below it.                                               *)
Isqrt(n) == CHOOSE r \in 0..n : r * r <= n /\ n < (r + 1) * (r + 1)
PowersOfTwo(n) ==
  LET power[k \in 0..n] == IF k = 0 THEN 1 ELSE 2 * power[k - 1]
  IN  power
Bits(n) == CHOOSE b \in 1..n : PowersOfTwo(n)[b - 1] <= n /\ n < PowersOfTwo(n)[b]
NewtonDown(n, top) ==
  LET down[x \in 1..top] == LET y == (x + n \div x) \div 2 IN IF y >= x THEN x ELSE down[y]
  IN  down
NewtonSqrt(n) ==
  LET start == PowersOfTwo(n)[(Bits(n) + 1) \div 2]
  IN  IF n < 2 THEN n ELSE NewtonDown(n, start)[start]

(* PoolView::liquidity: sqrt(k) of the reserves, from which the protocol's *)
(* fees are taken.  Mutation: they are not.                                *)
MutPoolReserve(side) == pool_tokens[side]
PoolReserve(side) == pool_tokens[side] - protocol_fees[side]
SqrtK == Isqrt(PoolReserve(1) * PoolReserve(2))

(* What so much LP is worth in sqrt(k); and fee_lp: the LP that is worth   *)
(* what there is over the principal.  Mutation: rounded up.                *)
Worth(lp, sqrt_k, supply) == MulDivFloor(lp, sqrt_k, supply)
MutFeeLp(lp, principal) ==
  LET value == Worth(lp, SqrtK, lp_supply)
  IN  IF value <= principal THEN 0 ELSE MulDivCeil(value - principal, lp_supply, SqrtK)
FeeLp(lp, principal) ==
  LET value == Worth(lp, SqrtK, lp_supply)
  IN  IF value <= principal THEN 0 ELSE MulDivFloor(value - principal, lp_supply, SqrtK)

(* XDEX's withdraw: a share of both reserves, rounded down.                *)
AfterWithdraw(lp) == [s \in Sides |-> PoolReserve(s) - MulDivFloor(lp, PoolReserve(s), lp_supply)]
Withdraw(lp) ==
  /\ pool_tokens' = [s \in Sides |-> protocol_fees[s] + AfterWithdraw(lp)[s]]
  /\ lp_supply' = lp_supply - lp
-----------------------------------------------------------------------------
LockerInit ==
  /\ pool_tokens = Reserves0 /\ protocol_fees = [s \in Sides |-> 0]
  /\ lp_supply = Supply0 /\ paused = FALSE
  /\ lp_outside = Supply0 /\ vault = 0 /\ lock = NoLock
  /\ lpNow = 0 /\ poolOps = 0

(* lock and lock_timed: the principal is rounded up, and so never zero.    *)
LockLp(amount, end) ==
  /\ lock.stage = "none" /\ amount <= lp_outside
  /\ end > lpNow
  /\ lock' = [stage |-> "locked", locked_lp |-> amount, principal |-> MulDivCeil(amount, SqrtK, lp_supply),
              fee_lp_collected |-> 0, unlock_at |-> end]
  /\ vault' = amount /\ lp_outside' = lp_outside - amount
  /\ UNCHANGED <<poolVars, lpNow>>

(* collect_fees; before the end, what it reads again: what the LP that is  *)
(* left is worth in the pool that is left.                                 *)
Fees == FeeLp(vault, lock.principal)
WorthAfter(fee) ==
  Worth(vault - fee, Isqrt(AfterWithdraw(fee)[1] * AfterWithdraw(fee)[2]), lp_supply - fee)
CollectFees ==
  /\ lock.stage = "locked" /\ ~paused
  /\ Fees > 0
  /\ Withdraw(Fees)
  /\ WorthAfter(Fees) >= lock.principal
  /\ vault' = vault - Fees
  /\ lock' = [lock EXCEPT !.fee_lp_collected = @ + Fees]
  /\ UNCHANGED <<protocol_fees, paused, poolOps, lp_outside, lpNow>>

(* unlock: everything, and the accounts are closed.  The NFT's mint can    *)
(* make no second lock.                                                    *)
Unlock ==
  /\ lock.stage = "locked" /\ lock.unlock_at # Forever
  /\ lpNow >= lock.unlock_at
  /\ lock' = [NoLock EXCEPT !.stage = "closed"]
  /\ vault' = 0 /\ lp_outside' = lp_outside + vault
  /\ UNCHANGED <<poolVars, lpNow>>
-----------------------------------------------------------------------------
(* Others: a swap (cpmmOut), liquidity added (depositAmounts) and removed, *)
(* the protocol's fees collected, withdrawals paused, LP given to the lock.*)
PoolOp == poolOps < MaxPoolOps /\ poolOps' = poolOps + 1

Swap(from, amount) ==
  LET to == 3 - from
      fee == MulDivCeil(amount, 1, TRADE_FEE)
      net == amount - fee
      out == MulDivFloor(net, PoolReserve(to), PoolReserve(from) + net)
  IN  /\ PoolOp
      /\ pool_tokens' = [pool_tokens EXCEPT ![from] = @ + amount, ![to] = @ - out]
      /\ protocol_fees' = [protocol_fees EXCEPT ![from] = @ + fee \div PROTOCOL_FEE]
      /\ UNCHANGED <<lp_supply, paused, lockVars, lpNow>>

Deposit(lp) ==
  /\ PoolOp
  /\ pool_tokens' = [s \in Sides |-> pool_tokens[s] + MulDivCeil(lp, PoolReserve(s), lp_supply)]
  /\ lp_supply' = lp_supply + lp /\ lp_outside' = lp_outside + lp
  /\ UNCHANGED <<protocol_fees, paused, vault, lock, lpNow>>

OthersWithdraw(lp) ==
  /\ PoolOp /\ ~paused
  /\ lp <= lp_outside /\ lp < lp_supply
  /\ Withdraw(lp)
  /\ lp_outside' = lp_outside - lp
  /\ UNCHANGED <<protocol_fees, paused, vault, lock, lpNow>>

CollectProtocolFees ==
  /\ PoolOp /\ \E s \in Sides : protocol_fees[s] > 0
  /\ pool_tokens' = [s \in Sides |-> pool_tokens[s] - protocol_fees[s]]
  /\ protocol_fees' = [s \in Sides |-> 0]
  /\ UNCHANGED <<lp_supply, paused, lockVars, lpNow>>

PauseOrResume ==
  /\ PoolOp /\ paused' = ~paused
  /\ UNCHANGED <<pool_tokens, protocol_fees, lp_supply, lockVars, lpNow>>

GiveLp(lp) ==
  /\ PoolOp /\ lock.stage = "locked" /\ lp <= lp_outside
  /\ vault' = vault + lp /\ lp_outside' = lp_outside - lp
  /\ UNCHANGED <<pool_tokens, protocol_fees, lp_supply, paused, lock, lpNow>>

LpTick == lpNow < LpMaxTime /\ lpNow' = lpNow + 1 /\ UNCHANGED <<poolVars, lockVars>>

LockerNext ==
  \/ \E amount \in ToLock, end \in Ends \cup {Forever} : LockLp(amount, end)
  \/ CollectFees
  \/ Unlock
  \/ \E from \in Sides, amount \in SwapIn : Swap(from, amount)
  \/ \E lp \in LpMoved : Deposit(lp) \/ OthersWithdraw(lp) \/ GiveLp(lp)
  \/ CollectProtocolFees
  \/ PauseOrResume
  \/ LpTick

LockerSpec == LockerInit /\ [][LockerNext]_lockerVars
-----------------------------------------------------------------------------
LockerTypeOK ==
  /\ pool_tokens \in [Sides -> Nat] /\ protocol_fees \in [Sides -> Nat] /\ paused \in BOOLEAN
  /\ lp_supply \in Nat /\ lp_outside \in Nat /\ vault \in Nat /\ lpNow \in Nat /\ poolOps \in Nat
  /\ lock \in [stage : {"none", "locked", "closed"}, locked_lp : Nat, principal : Nat,
               fee_lp_collected : Nat, unlock_at : Nat]

(* Whatever others do to the pool, in whatever order and however the       *)
(* roundings add up, what the lock holds stays worth its principal, but    *)
(* for the two units that rounding sqrt(k) down and the principal up take. *)
PrincipalCovered ==
  lock.stage = "locked" => Worth(vault, SqrtK, lp_supply) >= lock.principal - 2

(* The last check of collect_fees (PrincipalViolated) refuses no           *)
(* collection of fees there are.                                           *)
FeesNeverRefused ==
  lock.stage = "locked" /\ Fees > 0 => WorthAfter(Fees) >= lock.principal

(* The principal stays in the lock, and what grows over it is the holder's.*)
LockKeepsPrincipal == PrincipalCovered /\ FeesNeverRefused
=============================================================================
