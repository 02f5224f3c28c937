---------------------------- MODULE MCVaultFlow ----------------------------
(***************************************************************************)
(* Small instances of three parts of a vault that share nothing but the    *)
(* holders' pool: rounds over a book of two passes, the tables that index  *)
(* a book of three, and the flow of tax into what the vault owes.  Each    *)
(* behaviour has one of them at work; the flow is fair to its crank.       *)
(***************************************************************************)
EXTENDS MCHolderPasses, TaxFlow

VARIABLE part   \* the one at work

partsVars == <<vars, flowVars, part>>

(* The instance for the tables: no round is ever closed.                   *)
Tables == INSTANCE HolderPasses WITH
    Wallets <- MCFourWallets, InitialTokens <- MCFourTokens, Reserves <- {},
    MAX_PASSES <- 3, MAX_PASS_TABLES <- 2, LUT_CAPACITY <- 9, INDEX_BATCH <- 2,
    MaxSlot <- 1, MaxFunded <- 0, MaxMoves <- 2

FlowOver ==
    /\ kind = "xnt" /\ withheld = 0 /\ bucket = Empty
    /\ auth_token = 0 /\ auth_xnt = 0 /\ auth_payout = 0
    /\ opened = FALSE /\ sold_slot = FALSE /\ swapped_slot = FALSE
    /\ crank = [at |-> "collect", wanted |-> 0]
    /\ taxed = MaxTax /\ gifts = [token |-> 0, xnt |-> 0, payout |-> 0] /\ fails = MaxFails

PartsInit ==
    \/ part = "rounds" /\ Init /\ FlowOver
    \/ part = "tables" /\ Tables!Init /\ FlowOver
    \/ part = "flow" /\ Init /\ FlowInit

PartsNext ==
    \/ part = "rounds" /\ Next /\ UNCHANGED <<flowVars, part>>
    \/ part = "tables" /\ Tables!Next /\ UNCHANGED <<flowVars, part>>
    \/ part = "flow" /\ FlowNext /\ UNCHANGED <<vars, part>>

PartsSpec == PartsInit /\ [][PartsNext]_partsVars /\ (part = "flow" => FlowFair)

(* No wallet holds two passes and the program's own checks never trip      *)
(* (close_round, pay_passes, register_pass, remove_pass), and what counts  *)
(* as indexed is in the tables (index_passes, remove_pass), of whichever   *)
(* book it is.                                                             *)
BookStaysSound ==
    /\ IF part = "tables" THEN Tables!BookSound ELSE BookSound
    /\ IndexedCovers
=============================================================================
