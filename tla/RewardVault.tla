----------------------------- MODULE RewardVault -----------------------------
(***************************************************************************)
(* A creator's reward vault in the lp_locker program: anyone deposits      *)
(* reward tokens, which vest in buckets of VEST_BUCKET seconds kept in     *)
(* TRANCHES slots, and the holder of the lock's NFT claims what vested.    *)
(* Tokens sent to the vault's account by a plain transfer are in nobody's  *)
(* books and are left out.                                                 *)
(***************************************************************************)
EXTENDS Integers, FiniteSetsExt

CONSTANTS
    TRANCHES, VEST_SECONDS, VEST_BUCKET,
    Amounts,            \* what a deposit may bring
    MaxTime,            \* bound on the clock
    MaxAtOnce           \* bound on what is deposited at one time

Slots == 1..TRANCHES

(* 10 slots, 7 days, 1 day (30 and 10 seconds on the test network).        *)
ASSUME VestingAssumption ==
    /\ TRANCHES \in Nat \ {0} /\ VEST_BUCKET \in Nat \ {0} /\ VEST_SECONDS \in Nat
    /\ VEST_SECONDS <= (TRANCHES - 1) * VEST_BUCKET
    /\ Amounts \subseteq Nat
    /\ MaxTime \in Nat /\ MaxAtOnce \in Nat

VARIABLES
    claimable, total_deposited, total_claimed,
    tranches,           \* what vests, and when
    held,               \* the vault's token account
    now,
    deposits            \* history: what was deposited at every time

totals == <<total_deposited, total_claimed>>
vaultVars == <<claimable, totals, tranches, held, now, deposits>>

NoTranche == [amount |-> 0, unlock_at |-> 0]
Ripe(t) == t.amount > 0 /\ t.unlock_at <= now

(* bucket_unlock.  Mutations: no buckets; the bucket's start.              *)
MutUnlockExact(time) == time + VEST_SECONDS
MutUnlockStart(time) == (time \div VEST_BUCKET) * VEST_BUCKET + VEST_SECONDS
BucketUnlock(time) == (time \div VEST_BUCKET + 1) * VEST_BUCKET + VEST_SECONDS

(* release: what it moves and what it leaves.                              *)
Released == MapThenSumSet(LAMBDA s : tranches[s].amount, {s \in Slots : Ripe(tranches[s])})
AfterRelease == [s \in Slots |-> IF Ripe(tranches[s]) THEN NoTranche ELSE tranches[s]]

(* add: the slots with this unlock time, else the free ones, of which it   *)
(* takes the first.                                                        *)
Candidates(unlock_at) ==
    LET same == {s \in Slots : AfterRelease[s].amount > 0 /\ AfterRelease[s].unlock_at = unlock_at}
        free == {s \in Slots : AfterRelease[s].amount = 0}
    IN  IF same # {} THEN same ELSE free
FirstOf(slots) == {s \in slots : \A other \in slots : s <= other}

VaultInit ==
    /\ claimable = 0
    /\ total_deposited = 0
    /\ total_claimed = 0
    /\ tranches = [s \in Slots |-> NoTranche]
    /\ held = 0
    /\ now = 0
    /\ deposits = [t \in 0..MaxTime |-> 0]

DepositReward(amount) ==
    /\ amount > 0
    /\ deposits[now] + amount <= MaxAtOnce
    /\ \E slot \in FirstOf(Candidates(BucketUnlock(now))) :
          tranches' = [AfterRelease EXCEPT ![slot] = [amount |-> @.amount + amount,
                                                      unlock_at |-> BucketUnlock(now)]]
    /\ held' = held + amount
    /\ claimable' = claimable + Released
    /\ total_deposited' = total_deposited + amount
    /\ deposits' = [deposits EXCEPT ![now] = @ + amount]
    /\ UNCHANGED <<total_claimed, now>>

ClaimReward ==
    LET amount == claimable + Released
    IN  /\ amount > 0
        /\ held' = held - amount
        /\ claimable' = 0
        /\ tranches' = AfterRelease
        /\ total_claimed' = total_claimed + amount
        /\ UNCHANGED <<total_deposited, now, deposits>>

VaultTick ==
    /\ now < MaxTime
    /\ now' = now + 1
    /\ UNCHANGED <<claimable, totals, tranches, held, deposits>>

VaultNext == (\E amount \in Amounts : DepositReward(amount)) \/ ClaimReward \/ VaultTick

VaultSpec == VaultInit /\ [][VaultNext]_vaultVars
-----------------------------------------------------------------------------
VaultTypeOK ==
    /\ claimable \in Nat /\ total_deposited \in Nat /\ total_claimed \in Nat /\ held \in Nat
    /\ tranches \in [Slots -> [amount : Nat, unlock_at : Nat]]
    /\ now \in 0..MaxTime
    /\ deposits \in [0..MaxTime -> Nat]

DepositedBy(time) == MapThenSumSet(LAMBDA t : deposits[t], {t \in 0..MaxTime : t <= time})

(* deposit_reward, claim_reward: the vault holds what is claimable and     *)
(* what vests, which is what was deposited and not yet claimed.            *)
VaultBalance ==
    /\ held = claimable + MapThenSumSet(LAMBDA s : tranches[s].amount, Slots)
    /\ held = total_deposited - total_claimed

(* add: whenever somebody deposits, and whatever was claimed before, a     *)
(* slot is found: VestingFull is never returned.                           *)
NeverFull == Candidates(BucketUnlock(now)) # {}

(* bucket_unlock, release: nothing is claimed within VEST_SECONDS of its   *)
(* deposit.                                                                *)
NothingEarly == total_claimed + claimable + Released <= DepositedBy(now - VEST_SECONDS)

(* bucket_unlock, release, add: a deposit is claimable a bucket after its  *)
(* VEST_SECONDS at the latest, whatever was deposited since.               *)
NothingWithheld ==
    total_claimed + claimable + Released >= DepositedBy(now - VEST_SECONDS - VEST_BUCKET)

(* The two together: a deposit vests when it should, whatever was deposited *)
(* and claimed around it.                                                  *)
VestsOnTime == NothingEarly /\ NothingWithheld
=============================================================================
