----------------------------- MODULE ClaimRoots -----------------------------
(***************************************************************************)
(* The distributor's side of holder passes (src/src/claims.ts): what was   *)
(* allocated to passes is folded into every pass's cumulative total and    *)
(* published as one root, which also funds lp_locker's holder pool.  The   *)
(* root is journaled before it is sent; a later cycle settles it, or drops *)
(* it and builds the next one.  The node asked may lag at every read.      *)
(*                                                                         *)
(* A Merkle root is the totals it commits to; a root is named by its       *)
(* transaction.  One process runs cycles (DistributorLock).                *)
(***************************************************************************)
EXTENDS Landing, FiniteSets, FiniteSetsExt, Folds, Functions

CONSTANTS Passes, MaxAccrued   \* bound: the most that is ever allocated to a pass

ASSUME ClaimsAssumption == MaxAccrued \in Nat /\ IsFiniteSet(Passes) /\ IsFiniteSet(Sends)

VARIABLES
  owed,        \* allocated to each pass and not yet under a settled root
  cumulative,  \* each pass's total under the last settled root
  epoch,       \* that root's
  pendingRoot, \* the journaled root: at most one
  roots,       \* what each signed root says
  claimed,     \* what each pass has drawn from the pool on chain
  cycleAt,     \* where the cycle is
  accrued      \* history: all that was ever allocated to each pass

claimsVars == <<owed, cumulative, epoch, pendingRoot, roots, claimed, cycleAt, accrued>>

Nothing == [p \in Passes |-> 0]
NoRoot == [epoch |-> 0, totals |-> Nothing]
TotalOf(totals) == SumFunctionOnSet(totals, Passes)

ClaimsInit ==
  /\ owed = Nothing
  /\ cumulative = Nothing
  /\ epoch = 0
  /\ pendingRoot = {}
  /\ roots = [s \in Sends |-> NoRoot]
  /\ claimed = Nothing
  /\ cycleAt = "idle"
  /\ accrued = Nothing

(* The pool as a node at slot view shows it: the newest root that landed    *)
PoolAt(view) ==
  LET landed == {s \in Sends : outcome[s] = "ok" /\ at[s] <= view}
  IN IF landed = {} THEN NoRoot
     ELSE roots[CHOOSE s \in landed : \A t \in landed : roots[t].epoch <= roots[s].epoch]

ClaimPool == PoolAt(height)

(***************************************************************************)
(* lp_locker                                                               *)
(***************************************************************************)

(* set_root: a newer epoch, and a total that does not fall *)
RootAccepted(s) == roots[s].epoch > ClaimPool.epoch /\ TotalOf(roots[s].totals) >= TotalOf(ClaimPool.totals)

(* Roots land as transactions do; one at most succeeds in a block here      *)
ClaimsChain ==
  /\ Block
  /\ LET landing == {s \in Sends : outcome'[s] = "ok" /\ outcome[s] = "none"}
     IN Cardinality(landing) <= 1 /\ \A s \in landing : RootAccepted(s)
  /\ UNCHANGED claimsVars

(* claim_pass: up to the pass's total under the current root *)
ClaimPass(p) ==
  /\ claimed[p] < ClaimPool.totals[p]
  /\ claimed' = [claimed EXCEPT ![p] = ClaimPool.totals[p]]
  /\ UNCHANGED <<landingVars, owed, cumulative, epoch, pendingRoot, roots, cycleAt, accrued>>

(***************************************************************************)
(* The cycle                                                               *)
(***************************************************************************)

At(from, to) == cycleAt = from /\ cycleAt' = to
OnlyCycle == UNCHANGED <<landingVars, owed, cumulative, epoch, pendingRoot, roots, claimed, accrued>>

BeginCycle ==
  /\ At("idle", IF pendingRoot = {} THEN "allocating" ELSE "reconciling")
  /\ OnlyCycle

(* Mutation: Its totals are not taken over: they are added to what is owed  *)
(* no more, and stay where they were.                                      *)
MutSettleRoot(s) ==
  /\ epoch' = roots[s].epoch
  /\ cumulative' = cumulative
  /\ owed' = [p \in Passes |-> owed[p] - (roots[s].totals[p] - cumulative[p])]
  /\ pendingRoot' = {}
  /\ UNCHANGED <<landingVars, roots, claimed, accrued>>

(* Its totals become the state's, and what it paid is no longer owed *)
SettleRoot(s) ==
  /\ cumulative' = roots[s].totals
  /\ epoch' = roots[s].epoch
  /\ owed' = [p \in Passes |-> owed[p] - (roots[s].totals[p] - cumulative[p])]
  /\ pendingRoot' = {}
  /\ UNCHANGED <<landingVars, roots, claimed, accrued>>

(* Given up: what it would have paid is still owed *)
DropRoot ==
  /\ pendingRoot' = {}
  /\ UNCHANGED <<landingVars, owed, cumulative, epoch, roots, claimed, accrued>>

(* reconcileRoot reads the pool, *)
ReadPool ==
  /\ \E s \in pendingRoot, view \in 0..height :
       IF PoolAt(view).epoch >= roots[s].epoch /\ PoolAt(view).totals = roots[s].totals
       THEN At("reconciling", "allocating") /\ SettleRoot(s)
       ELSE At("reconciling", "asking") /\ OnlyCycle

(* then asks what became of the transaction                                 *)
AskOutcome ==
  \E s \in pendingRoot :
    \/ "confirmed" \in Outcomes(s) /\ At("asking", "allocating") /\ SettleRoot(s)
    \/ Outcomes(s) \cap {"failed", "expired"} # {} /\ At("asking", "allocating") /\ DropRoot
    \/ At("asking", "idle") /\ OnlyCycle

(* allocateNew credits passes *)
AllocateToPasses ==
  /\ At("allocating", "publishing")
  /\ \E add \in [Passes -> {0, 1}] :
       /\ \A p \in Passes : accrued[p] + add[p] <= MaxAccrued
       /\ owed' = [p \in Passes |-> owed[p] + add[p]]
       /\ accrued' = [p \in Passes |-> accrued[p] + add[p]]
  /\ UNCHANGED <<landingVars, cumulative, epoch, pendingRoot, roots, claimed>>

NextRoot(pool) ==
  [epoch |-> (IF pool.epoch > epoch THEN pool.epoch ELSE epoch) + 1,
   totals |-> [p \in Passes |-> cumulative[p] + owed[p]]]

(* publishRoot signs and journals the next root; it throws when the pool is *)
(* funded for more than the state knows.                                   *)
PublishRoot ==
  /\ At("publishing", "sending")
  /\ owed # Nothing
  /\ \E s \in NextOf({unused \in Sends : ~IsSigned(unused)}), view \in 0..height :
       /\ TotalOf(PoolAt(view).totals) <= TotalOf(cumulative) + TotalOf(owed)
       /\ SignSend(s)
       /\ roots' = [roots EXCEPT ![s] = NextRoot(PoolAt(view))]
       /\ pendingRoot' = {s}
  /\ UNCHANGED <<owed, cumulative, epoch, claimed, accrued>>

SendRoot ==
  /\ At("sending", "waiting")
  /\ \E s \in pendingRoot : Broadcast(s)
  /\ UNCHANGED <<owed, cumulative, epoch, pendingRoot, roots, claimed, accrued>>

ConfirmRoot ==
  /\ At("waiting", "idle")
  /\ \E s \in pendingRoot : outcome[s] = "ok" /\ SettleRoot(s)

(* Not confirmed, for whatever reason: reconcile it at once *)
TireOfRoot == At("waiting", "reconciling") /\ OnlyCycle

(* A throw or a crash anywhere; everything kept is in the state file *)
EndCycle == cycleAt # "idle" /\ cycleAt' = "idle" /\ OnlyCycle

ClaimsNext ==
  \/ BeginCycle \/ ReadPool \/ AskOutcome \/ AllocateToPasses
  \/ PublishRoot \/ SendRoot \/ ConfirmRoot \/ TireOfRoot \/ EndCycle
  \/ \E p \in Passes : ClaimPass(p)
  \/ ClaimsChain

ClaimsSpec == LandingInit /\ ClaimsInit /\ [][ClaimsNext]_<<landingVars, claimsVars>>

(***************************************************************************)
(* Properties                                                              *)
(***************************************************************************)

(* Whatever a pass was allocated is either under the settled root or still  *)
(* owed; the chain is never behind the settled root, never ahead of what   *)
(* was allocated, and nobody draws more: roots that are dropped and land   *)
(* all the same neither lose rewards nor pay them twice.                   *)
ClaimsCovered ==
  \A p \in Passes :
    /\ cumulative[p] + owed[p] = accrued[p]
    /\ cumulative[p] <= ClaimPool.totals[p]
    /\ ClaimPool.totals[p] <= accrued[p]
    /\ claimed[p] <= ClaimPool.totals[p]

(* set_root, claim_pass: together with the cycle, whatever it drops and    *)
(* however late a root lands, lp_locker keeps the promise of HolderPool:   *)
(* what roots funded is never taken back, and each payment comes out of it *)
(* and reaches its pass in full.                                           *)
Promise == INSTANCE HolderPool WITH
             Payees <- Passes, funded <- TotalOf(ClaimPool.totals),
             spent <- TotalOf(claimed), received <- claimed
ClaimsKeepPromise == Promise!PoolSpec
=============================================================================
