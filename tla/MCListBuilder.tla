---------------------------- MODULE MCListBuilder ----------------------------
(* Small instances of ListBuilder: two holders, one of whom holds all at   *)
(* any moment; from the beginning, or from a fallback that a list          *)
(* which owes nobody anything is about to end.                             *)
EXTENDS ListBuilder

CONSTANTS alice, bob, auth, operator, creator

MCWallets == {alice, bob}
MCKeys == {operator, creator}
MCRoots == {{}}
MCBalances == {[w \in MCWallets |-> IF w = x THEN 1 ELSE 0] : x \in MCWallets}

Listed(epoch, amount) ==
    [epoch |-> epoch, root |-> IF amount = 0 THEN {} ELSE {<<alice, amount>>}, total |-> amount]
Filed(l, fallback) == [epoch |-> l.epoch, root |-> l.root, total |-> l.total,
                       fallback |-> fallback, pinned |-> TRUE, published |-> TRUE]

(* What the two beginnings share: alice was paid what she is named for, of *)
(* which `fallback` by a fallback, and no pass is under way.               *)
Quiet(live, paid_alice, fallback) ==
    /\ publisher = operator
    /\ list = live
    /\ live_posted_at = 0 /\ cancels_in_row = 0 /\ cancels = 0
    /\ holders_paid = paid_alice /\ fallback_paid = fallback
    /\ paid = [a \in Accounts |-> IF a = alice THEN paid_alice ELSE 0]
    /\ lamports = [a \in Accounts |-> CASE a = Auth -> Rent + holders_funded - paid_alice
                                      []   a = alice -> paid_alice
                                      []   OTHER -> 0]
    /\ donated = 0 /\ fault = FALSE
    /\ step = "idle" /\ v = NoVault /\ flying = {} /\ fallback_then = fallback
    /\ records = [w \in Wallets |-> 0]

(* A new vault, a little after it was made.                                *)
New ==
    /\ holders_funded = 0 /\ Quiet(NoList, 0, 0)
    /\ pending = NoPending
    /\ last_publish_at = 0 /\ posted_at = 0 /\ now = 4
    /\ active = NoFile /\ next = NoFile

(* The first list was live and paid, none followed, one unit more came in  *)
(* and was paid to alice by a fallback; the next list names her for both.  *)
Ending ==
    /\ holders_funded \in 2..MaxFunded /\ Quiet(Listed(1, 1), 2, 1)
    /\ pending = [epoch |-> 2, root |-> Listed(2, 2).root, total |-> 2,
                  active_at |-> 4 + LIST_DELAY_SECS]
    /\ last_publish_at = 4 /\ posted_at = 4 /\ now = 4 + LIST_DELAY_SECS
    /\ active = Filed(Listed(1, 1), 0) /\ next = Filed(Listed(2, 2), 1)

MCSpec == (New \/ Ending) /\ [][BuilderNext]_allVars
=============================================================================
