--------------------------- MODULE MCQuorumLists ---------------------------
(* A small instance of QuorumLists: one co-signer, lists that name one of  *)
(* two holders, and a vault that has seen a proposal before, at four       *)
(* points such a vault gets to; one more proposal is made.                 *)
EXTENDS QuorumLists

CONSTANTS alice, bob, auth, operator, creator, the_site, cosigner1, backup

MCWallets == {alice, bob}
MCKeys == {operator, creator}
MCRoots == {{}}
MCCosigners == {cosigner1}
MCBalances == {[x \in MCWallets |-> IF x = w THEN 1 ELSE 0] : w \in MCWallets}

Proposals(first) == proposals = [i \in Indices |-> IF i = 1 THEN first ELSE NoProposal]
OfAlice == [epoch |-> 1, root |-> {<<alice, 2>>}, total |-> 2]
Filed(published) == [epoch |-> 1, root |-> OfAlice.root, total |-> 2, fallback |-> 0,
                     pinned |-> TRUE, published |-> published]

(* The first list was rejected and its proposal closed; or the site's own  *)
(* rejection was lost, and only the backup's counts.                       *)
Dropped ==
    /\ list = NoList /\ holders_paid = 0 /\ paid = [a \in Accounts |-> 0]
    /\ active = NoFile
    /\ \/ Proposals(Gone) /\ faults = 0 /\ now = MaxTime - 2
       \/ /\ Proposals([NoProposal EXCEPT !.status = "active", !.list = Filed(FALSE),
                                          !.approved = {Site}, !.rejected = {Backup}])
          /\ holders_funded = MaxFunded /\ faults = 1 /\ now = MaxTime - 1

(* The first list is live and paid, and none followed for a long time.     *)
Silent ==
    /\ list = OfAlice
    /\ holders_paid = 2 /\ paid = [a \in Accounts |-> IF a = alice THEN 2 ELSE 0]
    /\ active = Filed(TRUE)
    /\ Proposals(Gone) /\ faults = 0 /\ now = MaxTime - 1

Before ==
    /\ last_publish_at = 0 /\ posted_at = 0 /\ fallback_paid = 0 /\ fallback_then = 0
    /\ pending = NoPending /\ next = NoFile
    /\ holders_funded \in 2..MaxFunded
    /\ proposal = 0 /\ v = NoVault /\ records = [w \in Wallets |-> 0]
    /\ Dropped \/ Silent

(* The first list was live and paid, a fallback paid one unit more; the    *)
(* list that ended it is due and owes nobody anything, so the site has     *)
(* proposed the next one, of the unit that came in since.                  *)
OfBob == [epoch |-> 3, root |-> {<<alice, 2>>, <<bob, 1>>}, total |-> 3, fallback |-> 1,
          pinned |-> TRUE, published |-> FALSE]
Ended ==
    /\ last_publish_at = MaxTime - 3 /\ posted_at = MaxTime - 3 /\ now = MaxTime - 1
    /\ list = [epoch |-> 1, root |-> {<<alice, 1>>}, total |-> 1]
    /\ pending = [epoch |-> 2, root |-> {<<alice, 2>>}, total |-> 2, active_at |-> MaxTime - 2]
    /\ holders_paid = 2 /\ fallback_paid = 1 /\ fallback_then = 1
    /\ paid = [a \in Accounts |-> IF a = alice THEN 2 ELSE 0]
    /\ holders_funded = 3
    /\ active = [epoch |-> 2, root |-> {<<alice, 2>>}, total |-> 2, fallback |-> 1,
                 pinned |-> TRUE, published |-> TRUE]
    /\ next = OfBob /\ proposal = 1
    /\ v = [funded |-> 3, floor |-> 2, epoch |-> 3, prev |-> {<<alice, 2>>}, forced |-> FALSE]
    /\ records = [w \in Wallets |-> IF w = alice THEN 2 ELSE 0]
    /\ Proposals([NoProposal EXCEPT !.status = "active", !.list = OfBob, !.approved = {Site},
                                    !.prev = {<<alice, 2>>}, !.floor = 2])
    /\ faults = MaxFaults

MCInit ==
    /\ publisher = operator /\ cancels_in_row = 0
    /\ donated = 0 /\ live_posted_at = 0 /\ cancels = 0 /\ fault = FALSE
    /\ Before \/ Ended
    /\ lamports = [a \in Accounts |-> CASE a = Auth -> Rent + holders_funded - holders_paid
                                      []   a = alice -> paid[alice]
                                      []   OTHER -> 0]
    /\ step = "idle" /\ flying = {}
    /\ checked = [i \in Indices |-> 0] /\ overtaken = {}
    /\ cosigner = [c \in Cosigners |-> CosignerIdle]

MCSpec == MCInit /\ [][QuorumNext]_quorumAllVars /\ QuorumFair
=============================================================================
