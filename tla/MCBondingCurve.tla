--------------------------- MODULE MCBondingCurve ---------------------------
(***************************************************************************)
(* Small instances of a curve and of the lock a pool's LP goes to.  The    *)
(* curve: a supply of 25 of which 20 are sold, from virtual reserves of 2  *)
(* XNT and 25 tokens to a pool of 8 XNT.  The lock: 7 or 17 of a pool's 23 *)
(* LP.  They share nothing but that the curve's lock is made for ever, so  *)
(* each behaviour has one of them at work; the curve is fair to its ways   *)
(* out.                                                                    *)
(***************************************************************************)
EXTENDS BondingCurve, LpLocker

CONSTANTS alice, bob, carol

MCThree == {alice, bob, carol}
MCReserves0 == [s \in Sides |-> IF s = 1 THEN 20 ELSE 30]

(* isqrt (lp_locker, locker.ts) ends at the root, rounded down.            *)
ASSUME IsqrtExact == \A n \in 0..2000 : NewtonSqrt(n) = Isqrt(n)

VARIABLE program   \* the one at work

partsVars == <<vars, lockerVars, program>>

LockerOver ==
    /\ pool_tokens = MCReserves0 /\ protocol_fees = [s \in Sides |-> 0]
    /\ lp_supply = Supply0 /\ paused = FALSE
    /\ lp_outside = Supply0 /\ vault = 0 /\ lock = NoLock
    /\ lpNow = LpMaxTime /\ poolOps = MaxPoolOps

PartsInit ==
    \/ program = "curve" /\ Init /\ LockerOver
    \/ program = "locker" /\ Init /\ LockerInit

PartsNext ==
    \/ program = "curve" /\ Next /\ UNCHANGED <<lockerVars, program>>
    \/ program = "locker" /\ LockerNext /\ UNCHANGED <<vars, program>>

PartsSpec == PartsInit /\ [][PartsNext]_partsVars /\ (program = "curve" => CurveFair)
=============================================================================
