-------------------------- MODULE MCPayoutJournal --------------------------
(***************************************************************************)
(* Small instances of what a distribution cycle journals: its payouts, for *)
(* three holders paid two to a batch, and its steps on collected tax; and  *)
(* of the vault the creator's rewards go to.  Each module leaves to the    *)
(* others what they have in detail, so a behaviour is of one of them.      *)
(***************************************************************************)
EXTENDS PayoutJournal, TaxCycle, RewardVault, TLC

CONSTANTS alice, bob, carol

MCHolders == {alice, bob, carol}

VARIABLE part   \* "payouts", "tax" or "vault"

cycleVars == <<vars, taxVars, vaultVars, part>>

InitOf(which) ==
  /\ Init /\ TaxInit /\ VaultInit
  /\ part \in which
  /\ part # "tax" => ~paired /\ ~otherReward

NextStep ==
  /\ \/ part = "payouts" /\ Next /\ UNCHANGED <<taxVars, vaultVars>>
     \/ part = "tax" /\ TaxNext /\ UNCHANGED <<vars, vaultVars>>
     \/ part = "vault" /\ VaultNext /\ UNCHANGED <<vars, taxVars>>
  /\ UNCHANGED part

CycleSpec == InitOf({"payouts", "tax", "vault"}) /\ [][NextStep]_cycleVars
PayoutsOnly == InitOf({"payouts"}) /\ [][NextStep]_cycleVars
TaxOnly == InitOf({"tax"}) /\ [][NextStep]_cycleVars

Symmetric == Permutations(MCHolders)
=============================================================================
