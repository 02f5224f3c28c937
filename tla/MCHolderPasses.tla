--------------------------- MODULE MCHolderPasses ---------------------------
(* Small instances of HolderPasses, with amounts a 5 % tax divides: three   *)
(* wallets for a book of two, and four for a book of three.  Carol holds    *)
(* enough to take anyone's place, dave enough to take alice's or bob's.     *)
EXTENDS HolderPasses, TLC

CONSTANTS alice, bob, carol, dave, caller, auth

MCWallets == {alice, bob, carol}
MCTokens == (alice :> 400) @@ (bob :> 400) @@ (carol :> 1200)
MCFourWallets == MCWallets \cup {dave}
MCFourTokens == MCTokens @@ (dave :> 800)
=============================================================================
