--------------------------- MODULE MCRewardLists ---------------------------
(* Small instance of RewardLists: two holders, one operator key besides    *)
(* the guardian's, and roots that disagree about who is owed what.         *)
EXTENDS RewardLists

CONSTANTS alice, bob, auth, operator, creator

MCWallets == {alice, bob}
MCKeys == {operator, creator}
MCRoots == { {}, {<<alice, 1>>},
             {<<alice, 1>>, <<bob, 1>>},
             {<<alice, 2>>, <<auth, 1>>},
             {<<alice, 1>>, <<alice, 3>>, <<bob, 2>>} }
=============================================================================
