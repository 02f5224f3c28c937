------------------------------- MODULE TaxFlow -------------------------------
(***************************************************************************)
(* How a vault's tax becomes what it owes (tax_vault: collect, sell,       *)
(* add_liquidity, fund_creator, fund_holders), and the site's crank that   *)
(* moves it (vault-crank.ts), one step after the other, pass after pass,   *)
(* while anyone else sends the same instructions.                          *)
(*                                                                         *)
(* A vault pays its holders in XNT, in a payout token, or in a payout      *)
(* token that is also the creator's reward token ("shared": one token      *)
(* account holds both).  The pools are outside: a sale gets Price XNT for  *)
(* a token, a reward swap and a liquidity deposit one for one, up to the   *)
(* program's impact caps, which are constants.  Payments to holders are    *)
(* RewardLists and HolderPasses; here they only lower what is owed.  Rent  *)
(* a caller gets back in the same transaction is left out.                 *)
(***************************************************************************)
EXTENDS Integers

CONSTANTS
    Kinds,                          \* the vaults looked at
    PARTS,                          \* what a share is a number of parts of (BPS)
    tax_bps, burn_bps, lp_bps, CREATOR_BPS, CRANK_REWARD_BPS, CRANK_REWARD_CAP,
    SellCap, SwapCap,               \* the impact caps
    Price,
    MIN_SELL_XNT, MIN_SELL_CAP_DIVISOR, MIN_LP_XNT,
    MinHarvest,                     \* the crank's
    OpenRent,                       \* rent of the payout token account
    Withheld,                       \* what trades may withhold at once
    Asks,                           \* what others ask to sell
    Given,                          \* the accounts of auth's somebody sends to
    MaxTax, MaxGifts, MaxFails      \* bounds: tax, donated units, failed sends

ASSUME FlowAssumption ==
    /\ Kinds \subseteq {"xnt", "token", "shared"}
    /\ {PARTS, MIN_SELL_CAP_DIVISOR} \subseteq Nat \ {0}
    /\ {tax_bps, burn_bps, lp_bps, CREATOR_BPS, CRANK_REWARD_BPS, CRANK_REWARD_CAP, SellCap,
        SwapCap, Price, MIN_SELL_XNT, MIN_LP_XNT, MinHarvest, OpenRent, MaxTax, MaxGifts,
        MaxFails} \subseteq Nat
    /\ Withheld \subseteq Nat \ {0} /\ Asks \subseteq Nat \ {0}
    /\ Given \subseteq {"token", "xnt", "payout"}
    /\ tax_bps < PARTS /\ CRANK_REWARD_BPS <= PARTS
    /\ burn_bps + lp_bps + CREATOR_BPS <= PARTS

VARIABLES
    kind,
    withheld,                       \* tax waiting in token accounts and in the mint
    bucket,                         \* the vault's counters
    auth_token, auth_xnt, auth_payout,  \* what auth's accounts hold, rent not counted
    opened,                         \* is auth's payout token account there?
    sold_slot, swapped_slot,        \* last_sell_slot, last_reward_slot: this slot?
    crank,                          \* the step the crank is at, the sale it asked for
    taxed, gifts, fails             \* history: tax so far, donated units held, failed sends

vault == <<kind, withheld, bucket, auth_token, auth_xnt, auth_payout, opened>>
slots == <<sold_slot, swapped_slot>>
flowVars == <<vault, slots, crank, taxed, gifts, fails>>

Least(a, b) == IF a < b THEN a ELSE b
Ceil(a, b) == (a + b - 1) \div b
Empty == [lp_tokens |-> 0, sell_lp |-> 0, sell_creator |-> 0, sell_holders |-> 0,
          xnt_lp |-> 0, xnt_creator |-> 0, xnt_holders |-> 0, owed |-> 0]

ToSell(b) == b.sell_lp + b.sell_creator + b.sell_holders
Booked(b) == b.lp_tokens + ToSell(b)
Promised(b) == b.xnt_lp + b.xnt_creator + (IF kind = "xnt" THEN b.owed ELSE b.xnt_holders)

-----------------------------------------------------------------------------
(* Arithmetic of the program.                                              *)
Split(got) ==
    LET part(bps) == (got * bps) \div PARTS
        rest == got - part(burn_bps) - part(lp_bps) - part(CREATOR_BPS)
    IN  [burn |-> part(burn_bps), lp |-> part(lp_bps), creator |-> part(CREATOR_BPS), holders |-> rest]

(* From each bucket in proportion, the holders' rounded up; what their     *)
(* bucket does not hold comes from the others.                             *)
Take(amount, b) ==
    LET lp == (amount * b.sell_lp) \div ToSell(b)
        creator == (amount * b.sell_creator) \div ToSell(b)
        holders == Least(amount - lp - creator, b.sell_holders)
        excess == amount - lp - creator - holders
        more == Least(excess, b.sell_lp - lp)
    IN  [lp |-> lp + more, creator |-> creator + (excess - more), holders |-> holders]

Proceeds(out, amount, take) ==
    LET lp == (out * take.lp) \div amount
        creator == (out * take.creator) \div amount
        holders == out - lp - creator
    IN  [lp |-> lp, creator |-> creator, holders |-> holders,
         reward |-> Least((holders * CRANK_REWARD_BPS) \div PARTS, CRANK_REWARD_CAP)]

TaxOn(amount) == Ceil(amount * tax_bps, PARTS)
Quote(amount) == (amount - TaxOn(amount)) * Price
SaleOf(wanted, b) == Least(Least(wanted, ToSell(b)), SellCap)

(* Mutation: only a quarter of the cap is enough, all of little is not.    *)
MutMinSell(b) == SellCap \div MIN_SELL_CAP_DIVISOR
MinSell(b) == Least(SellCap \div MIN_SELL_CAP_DIVISOR, ToSell(b))

(* The largest deposit that fits, transfer tax included.                   *)
Deposits(b) ==
    {n \in 1..b.xnt_lp : n + TaxOn(n) <= b.lp_tokens}

-----------------------------------------------------------------------------
FlowInit ==
    /\ kind \in Kinds
    /\ withheld = 0
    /\ bucket = Empty
    /\ auth_token = 0 /\ auth_xnt = 0 /\ auth_payout = 0
    /\ opened = FALSE /\ sold_slot = FALSE /\ swapped_slot = FALSE
    /\ crank = [at |-> "collect", wanted |-> 0]
    /\ taxed = 0 /\ gifts = [token |-> 0, xnt |-> 0, payout |-> 0] /\ fails = 0

TaxedTrade(tax) ==
    /\ taxed + tax <= MaxTax
    /\ taxed' = taxed + tax
    /\ withheld' = withheld + tax
    /\ UNCHANGED <<kind, bucket, auth_token, auth_xnt, auth_payout, opened, slots,
                   crank, gifts, fails>>

(* collect.                                                                *)
Collect ==
    LET s == Split(withheld)
    IN  /\ withheld > 0
        /\ withheld' = 0
        /\ auth_token' = auth_token + withheld - s.burn
        /\ bucket' = [bucket EXCEPT !.lp_tokens = @ + s.lp \div 2,
                                    !.sell_lp = @ + (s.lp - s.lp \div 2),
                                    !.sell_creator = @ + s.creator, !.sell_holders = @ + s.holders]
        /\ UNCHANGED <<kind, auth_xnt, auth_payout, opened, slots>>

CanSell(wanted) ==
    LET amount == SaleOf(wanted, bucket)
    IN  amount > 0 /\ amount >= MinSell(bucket) /\ Quote(amount) >= MIN_SELL_XNT

(* sell.  A pool's transfer tax is withheld in its own account.            *)
SellTax(wanted) ==
    LET amount == SaleOf(wanted, bucket)
        take == Take(amount, bucket)
        p == Proceeds(Quote(amount), amount, take)
        holders == p.holders - p.reward
    IN  /\ ~sold_slot
        /\ CanSell(wanted)
        /\ auth_token' = auth_token - amount
        /\ withheld' = withheld + TaxOn(amount)
        /\ auth_xnt' = auth_xnt + Quote(amount) - p.reward
        /\ bucket' = [bucket EXCEPT !.sell_lp = @ - take.lp, !.sell_creator = @ - take.creator,
                                    !.sell_holders = @ - take.holders,
                                    !.xnt_lp = @ + p.lp, !.xnt_creator = @ + p.creator,
                                    !.owed = @ + (IF kind = "xnt" THEN holders ELSE 0),
                                    !.xnt_holders = @ + (IF kind = "xnt" THEN 0 ELSE holders)]
        /\ sold_slot' = TRUE
        /\ UNCHANGED <<kind, auth_payout, opened, swapped_slot>>

(* add_liquidity.                                                          *)
AddLiquidity ==
    /\ bucket.xnt_lp >= MIN_LP_XNT
    /\ \E n \in Deposits(bucket) :
        /\ \A m \in Deposits(bucket) : m <= n
        /\ auth_token' = auth_token - (n + TaxOn(n))
        /\ withheld' = withheld + TaxOn(n)
        /\ auth_xnt' = auth_xnt - n
        /\ bucket' = [bucket EXCEPT !.lp_tokens = @ - (n + TaxOn(n)), !.xnt_lp = @ - n]
    /\ UNCHANGED <<kind, auth_payout, opened, slots>>

(* fund_creator.  In a shared account the holders' tokens stay and all     *)
(* else in it goes; if this opens the account, its rent comes from the     *)
(* holders' XNT.  Mutation: from nobody's.                                 *)
MutRentFrom(opening, b) == b
RentFrom(opening, b) == [b EXCEPT !.xnt_holders = @ - (IF opening THEN OpenRent ELSE 0)]

CanFundCreator ==
    /\ bucket.xnt_creator > 0 /\ SwapCap > 0
    /\ kind = "shared" /\ ~opened => bucket.xnt_holders >= OpenRent

FundCreator ==
    LET xnt_in == Least(bucket.xnt_creator, SwapCap)
        opening == kind = "shared" /\ ~opened
    IN  /\ ~swapped_slot
        /\ CanFundCreator
        /\ auth_xnt' = auth_xnt - xnt_in - (IF opening THEN OpenRent ELSE 0)
        /\ bucket' = [RentFrom(opening, bucket) EXCEPT !.xnt_creator = @ - xnt_in]
        /\ auth_payout' = IF kind = "shared" THEN bucket.owed ELSE auth_payout
        /\ opened' = (opened \/ opening)
        /\ swapped_slot' = TRUE
        /\ gifts' = IF kind = "shared" THEN [gifts EXCEPT !.payout = 0] ELSE gifts
        /\ UNCHANGED <<kind, withheld, auth_token, sold_slot>>

Available == bucket.xnt_holders - (IF opened THEN 0 ELSE OpenRent)

(* fund_holders.                                                           *)
FundHolders ==
    LET xnt_in == Least(Available, SwapCap)
        rent == IF opened THEN 0 ELSE OpenRent
    IN  /\ kind # "xnt"
        /\ ~swapped_slot
        /\ xnt_in > 0
        /\ auth_xnt' = auth_xnt - xnt_in - rent
        /\ auth_payout' = auth_payout + xnt_in
        /\ bucket' = [bucket EXCEPT !.xnt_holders = @ - xnt_in - rent, !.owed = @ + xnt_in]
        /\ opened' = TRUE
        /\ swapped_slot' = TRUE
        /\ UNCHANGED <<kind, withheld, auth_token, sold_slot>>

(* Payments to holders (pay, pay_passes, ...); how much of what is owed at *)
(* a time matters to nothing here.                                         *)
Pay ==
    /\ bucket.owed > 0
    /\ bucket' = [bucket EXCEPT !.owed = 0]
    /\ auth_xnt' = IF kind = "xnt" THEN auth_xnt - bucket.owed ELSE auth_xnt
    /\ auth_payout' = IF kind = "xnt" THEN auth_payout ELSE auth_payout - bucket.owed
    /\ UNCHANGED <<kind, withheld, auth_token, opened, slots>>

(* Anyone may send tokens or XNT to auth's accounts.                       *)
Gift(what) ==
    /\ gifts.token + gifts.xnt + gifts.payout < MaxGifts
    /\ what = "payout" => opened
    /\ gifts' = [gifts EXCEPT ![what] = @ + 1]
    /\ auth_token' = auth_token + (IF what = "token" THEN 1 ELSE 0)
    /\ auth_xnt' = auth_xnt + (IF what = "xnt" THEN 1 ELSE 0)
    /\ auth_payout' = auth_payout + (IF what = "payout" THEN 1 ELSE 0)
    /\ UNCHANGED <<kind, withheld, bucket, opened, slots, crank, taxed, fails>>

NextSlot ==
    /\ sold_slot \/ swapped_slot
    /\ sold_slot' = FALSE /\ swapped_slot' = FALSE
    /\ UNCHANGED <<vault, crank, taxed, gifts, fails>>
-----------------------------------------------------------------------------
(* The crank.                                                              *)
Kept == UNCHANGED <<taxed, gifts>>
Goes(step) == crank' = [at |-> step, wanted |-> 0]
At(step) == crank.at = step /\ UNCHANGED fails
Idle == UNCHANGED <<vault, slots>> /\ Kept

CrankCollect ==
    /\ At("collect") /\ Goes("sell")
    /\ IF withheld * Price < MinHarvest \/ withheld = 0 THEN Idle ELSE Collect /\ Kept

(* It reads the vault and quotes a sale; sent, it may find other buckets.  *)
CrankSell ==
    /\ At("sell")
    /\ LET wanted == ToSell(bucket)
       IN  IF wanted = 0 \/ Quote(Least(wanted, SellCap)) < MIN_SELL_XNT
           THEN Goes("liquidity")
           ELSE crank' = [at |-> "selling", wanted |-> wanted]
    /\ Idle

(* It asks again while the slot's sale was made; another refusal ends the  *)
(* step.  All of a small bucket sold, it looks for more.                   *)
CrankSold ==
    /\ At("selling")
    /\ IF CanSell(crank.wanted)
       THEN Goes(IF crank.wanted <= SellCap THEN "sell" ELSE "liquidity") /\ SellTax(crank.wanted) /\ Kept
       ELSE Goes("liquidity") /\ Idle

CrankLiquidity ==
    /\ At("liquidity") /\ Goes("creator")
    /\ IF bucket.xnt_lp < MIN_LP_XNT \/ bucket.lp_tokens = 0 \/ Deposits(bucket) = {}
       THEN Idle ELSE AddLiquidity /\ Kept

(* Swaps go on until nothing is left or the program refuses one.           *)
CrankCreator ==
    /\ At("creator")
    /\ IF CanFundCreator THEN Goes("creator") /\ FundCreator /\ UNCHANGED taxed
       ELSE Goes("holders") /\ Idle

CrankHolders ==
    /\ At("holders")
    /\ IF kind # "xnt" /\ Least(Available, SwapCap) > 0
       THEN Goes("holders") /\ FundHolders /\ Kept
       ELSE Goes("collect") /\ Idle

Following ==
    CASE crank.at = "collect" -> "sell" [] crank.at \in {"sell", "selling"} -> "liquidity"
      [] crank.at = "liquidity" -> "creator" [] crank.at = "creator" -> "holders"
      [] OTHER -> "collect"

(* A read, a quote or a send fails, or a step made as many swaps as it may *)
(* in a pass: the pass goes on with the next.                              *)
StepFails ==
    /\ fails < MaxFails
    /\ fails' = fails + 1
    /\ Idle /\ Goes(Following)

CrankStep ==
    \/ CrankCollect \/ CrankSell \/ CrankSold \/ CrankLiquidity \/ CrankCreator \/ CrankHolders

Instruction ==
    \/ Collect \/ AddLiquidity \/ FundHolders
    \/ \E wanted \in Asks : SellTax(wanted)
    \/ Pay
Anyone == ((Instruction /\ Kept) \/ (FundCreator /\ UNCHANGED taxed)) /\ UNCHANGED <<crank, fails>>

FlowNext ==
    \/ CrankStep \/ StepFails \/ Anyone \/ NextSlot
    \/ \E tax \in Withheld : TaxedTrade(tax)
    \/ \E what \in Given : Gift(what)

(* The crank always has a next step, so that weak fairness of it says it   *)
(* takes one again and again (which TLC checks faster in this form).       *)
FlowFair == []<><<CrankStep>>_flowVars /\ WF_flowVars(NextSlot)
FlowSpec == FlowInit /\ [][FlowNext]_flowVars /\ FlowFair
-----------------------------------------------------------------------------
FlowTypeOK ==
    /\ kind \in {"xnt", "token", "shared"}
    /\ bucket \in [lp_tokens : Nat, sell_lp : Nat, sell_creator : Nat, sell_holders : Nat,
                   xnt_lp : Nat, xnt_creator : Nat, xnt_holders : Nat, owed : Nat]
    /\ {withheld, auth_token, auth_xnt, auth_payout, taxed, fails} \subseteq Nat
    /\ gifts \in [token : Nat, xnt : Nat, payout : Nat]
    /\ {opened, sold_slot, swapped_slot} \subseteq BOOLEAN
    /\ crank \in [at : {"collect", "sell", "selling", "liquidity", "creator", "holders"}, wanted : Nat]

(* check_tokens, check_solvent, check_payout_tokens: auth's accounts hold  *)
(* every token, lamport and payout token the counters promise, and nothing *)
(* more but gifts: through every rounding, clamp and rent, in any order of *)
(* instructions, none of them is lost or promised twice, and the checks    *)
(* that end each instruction never refuse one.                             *)
EveryUnitBooked ==
    /\ FlowTypeOK
    /\ auth_token = Booked(bucket) + gifts.token
    /\ auth_xnt = Promised(bucket) + gifts.xnt
    /\ kind # "xnt" => auth_payout = bucket.owed + gifts.payout

(* vault-crank.ts: once trading stops, the crank brings the vault to where *)
(* what is left is too little for the program or the crank's thresholds,   *)
(* whoever else sends instructions in between.                             *)
Dust ==
    /\ withheld = 0 \/ withheld * Price < MinHarvest
    /\ ToSell(bucket) = 0 \/ Quote(Least(ToSell(bucket), SellCap)) < MIN_SELL_XNT
    /\ bucket.xnt_lp < MIN_LP_XNT \/ Deposits(bucket) = {}
    /\ ~CanFundCreator
    /\ kind = "xnt" \/ Available <= 0
TaxMoves == <>[]Dust
=============================================================================
