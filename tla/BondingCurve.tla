----------------------------- MODULE BondingCurve -----------------------------
(***************************************************************************)
(* The bonding_curve program, one curve: trading on virtual reserves,      *)
(* graduation to an XDEX pool, delivery of the tokens, and the ways out    *)
(* when XDEX or lp_locker fail (refunds, burning the LP).  `auth` holds    *)
(* every lamport of the curve.  An instruction is one action; one that     *)
(* fails changes nothing.                                                  *)
(*                                                                         *)
(* Traders' slippage limits only refuse trades and are left out, and so is *)
(* the check of the transaction's other instructions (one_early_buy).      *)
(***************************************************************************)
EXTENDS Integers, FiniteSets, Functions

CONSTANTS
    Traders,            \* wallets, the creator's not among them
    Supply, Target, TaxBps,
    CURVE_BPS, FEE_BPS, SNIPE_MAX_BPS, EARLY_TOTAL_BPS,
    GRADUATION_DEPOSIT, GRADUATE_REWARD,
    AccountRent,        \* a token account's rent
    MinRent,            \* what an empty account must hold
    PoolCost, LockCost, \* XDEX's fee and the rents that graduating spends
    SNIPE_WINDOW_SECS, REFUND_AFTER_SECS, LOCK_AFTER_SECS,
    XntIn, TokensIn,    \* what trades may offer
    Donations,          \* what anyone may send to auth
    MaxTime, MaxDonated

CeilDiv(a, b) == (a + b - 1) \div b
Floored(a) == IF a > 0 THEN a ELSE 0

-----------------------------------------------------------------------------
(* math::setup.                                                            *)
CurveTokens == (Supply * CURVE_BPS) \div 10000
PoolGross == Supply - CurveTokens
PoolNet == PoolGross - CeilDiv(PoolGross * TaxBps, 10000)
A == (PoolNet * CurveTokens) \div (CurveTokens - PoolNet)
Y0 == A + CurveTokens
X0 == (Target * (A - PoolNet)) \div PoolNet
K0 == X0 * Y0

ASSUME CurveAssumption ==
    /\ IsFiniteSet(Traders)
    /\ {Supply, Target, TaxBps, CURVE_BPS, FEE_BPS} \subseteq Nat
    /\ {SNIPE_MAX_BPS, EARLY_TOTAL_BPS} \subseteq Nat
    /\ {GRADUATION_DEPOSIT, GRADUATE_REWARD, AccountRent, MinRent, PoolCost, LockCost} \subseteq Nat
    /\ {SNIPE_WINDOW_SECS, REFUND_AFTER_SECS, LOCK_AFTER_SECS, MaxTime, MaxDonated} \subseteq Nat
    /\ XntIn \subseteq Nat /\ TokensIn \subseteq Nat /\ Donations \subseteq Nat
    /\ 0 < FEE_BPS /\ FEE_BPS < 10000 /\ CURVE_BPS < 10000
    /\ PoolNet > 0 /\ CurveTokens > PoolNet /\ A > 0 /\ X0 > 0

VARIABLES
    status,
    virtual_xnt, virtual_tokens, tokens_sold, raised_xnt,
    positions,          \* open positions
    delivered,          \* Complete, PoolCreated: a time; Graduated: tokens
    position,           \* every wallet's position
    auth,               \* auth's lamports
    lp,                 \* where the pool's LP tokens are
    minted,             \* tokens minted, and whether more may be
    mintable,
    tokens,             \* tokens in every wallet
    now,
    upgraded,           \* the program as it is, or before it kept the times
    donated,
    completedAt, poolAt, \* history: when the curve completed, got its pool
    refunds             \* history: what every wallet was refunded, and for what

reserves == <<virtual_xnt, virtual_tokens, tokens_sold, raised_xnt>>
people == <<positions, position>>
coins == <<minted, mintable, tokens, lp>>
history == <<completedAt, poolAt, refunds>>
outside == <<now, upgraded, donated>>
vars == <<status, reserves, people, delivered, auth, coins, outside, history>>

None == [open |-> FALSE, balance |-> 0, deposit |-> 0]
SumOver(f) == FoldFunction(LAMBDA a, b : a + b, 0, f)
Balances == SumOver([w \in Traders |-> position[w].balance])
Deposits == SumOver([w \in Traders |-> position[w].deposit])

(* check_reserve.                                                          *)
Reserve(open) == open * AccountRent + MinRent
(* Curve::k0, from the curve's own counters.                               *)
k0 == (virtual_xnt - raised_xnt) * (virtual_tokens + tokens_sold)

-----------------------------------------------------------------------------
(* math::buy.  Mutation: the reserve left is rounded down.                 *)
MutBuyQuote(xnt_in) ==
    LET fee == CeilDiv(xnt_in * FEE_BPS, 10000)
        left == CurveTokens - tokens_sold
        out == Floored(virtual_tokens - k0 \div (virtual_xnt + xnt_in - fee))
        net == Floored(CeilDiv(k0, virtual_tokens - left) - virtual_xnt)
    IN  IF out < left
        THEN [net |-> xnt_in - fee, out |-> out, complete |-> FALSE]
        ELSE [net |-> net, out |-> left, complete |-> TRUE]

BuyQuote(xnt_in) ==
    LET fee == CeilDiv(xnt_in * FEE_BPS, 10000)
        left == CurveTokens - tokens_sold
        out == Floored(virtual_tokens - CeilDiv(k0, virtual_xnt + xnt_in - fee))
        net == Floored(CeilDiv(k0, virtual_tokens - left) - virtual_xnt)
    IN  IF out < left
        THEN [net |-> xnt_in - fee, out |-> out, complete |-> FALSE]
        ELSE [net |-> net, out |-> left, complete |-> TRUE]

BuySound(q) == (virtual_xnt + q.net) * (virtual_tokens - q.out) >= k0

(* math::sell.                                                             *)
SellQuote(tokens_in) ==
    LET x1 == CeilDiv(k0, virtual_tokens + tokens_in)
    IN  [gross |-> virtual_xnt - x1, x |-> x1]

SellSound(q, tokens_in) == q.x * (virtual_tokens + tokens_in) >= k0

EarlyLimits(held, out) ==
    /\ held + out <= (Supply * SNIPE_MAX_BPS) \div 10000
    /\ tokens_sold + out <= (Supply * EARLY_TOTAL_BPS) \div 10000

(* The program before it kept the times wrote 0.                           *)
Stamp == IF upgraded THEN now ELSE 0

Init ==
    /\ status = "Trading"
    /\ virtual_xnt = X0
    /\ virtual_tokens = Y0
    /\ tokens_sold = 0
    /\ raised_xnt = 0
    /\ positions = 0
    /\ delivered = 0
    /\ position = [w \in Traders |-> None]
    /\ auth = GRADUATION_DEPOSIT
    /\ lp = "none"
    /\ minted = 0
    /\ mintable = TRUE
    /\ tokens = [w \in Traders |-> 0]
    /\ now = 1
    /\ upgraded \in BOOLEAN
    /\ donated = 0
    /\ completedAt = 0
    /\ poolAt = 0
    /\ refunds = [w \in Traders |-> [tokens |-> 0, xnt |-> 0]]

Buy(w, xnt_in) ==
    LET q == BuyQuote(xnt_in)
        first == ~position[w].open
        deposit == IF first THEN AccountRent ELSE 0
    IN  /\ status = "Trading"
        /\ xnt_in > 0 /\ q.out > 0 /\ BuySound(q)
        /\ now < 1 + SNIPE_WINDOW_SECS => EarlyLimits(position[w].balance, q.out)
        /\ positions' = positions + (IF first THEN 1 ELSE 0)
        /\ position' = [position EXCEPT ![w] = [open |-> TRUE, balance |-> @.balance + q.out,
                                                deposit |-> @.deposit + deposit]]
        /\ auth' = auth + q.net + deposit
        /\ virtual_xnt' = virtual_xnt + q.net
        /\ virtual_tokens' = virtual_tokens - q.out
        /\ tokens_sold' = tokens_sold + q.out
        /\ raised_xnt' = raised_xnt + q.net
        /\ status' = IF q.complete THEN "Complete" ELSE "Trading"
        /\ delivered' = IF q.complete THEN Stamp ELSE delivered
        /\ completedAt' = IF q.complete THEN now ELSE completedAt
        /\ UNCHANGED <<coins, outside, poolAt, refunds>>

(* Mutation: the fee is paid on top of what the tokens bring.              *)
MutSell(w, tokens_in) ==
    LET q == SellQuote(tokens_in)
        fee == CeilDiv(q.gross * FEE_BPS, 10000)
    IN  /\ status = "Trading"
        /\ tokens_in > 0 /\ position[w].balance >= tokens_in
        /\ q.gross > 0 /\ SellSound(q, tokens_in)
        /\ q.gross <= raised_xnt /\ tokens_in <= tokens_sold
        /\ auth' = auth - q.gross - fee
        /\ virtual_xnt' = q.x
        /\ virtual_tokens' = virtual_tokens + tokens_in
        /\ tokens_sold' = tokens_sold - tokens_in
        /\ raised_xnt' = raised_xnt - q.gross
        /\ position' = [position EXCEPT ![w].balance = @ - tokens_in]
        /\ UNCHANGED <<status, positions, delivered, coins, outside, history>>

(* Mutation: the fee is counted as still raised.                           *)
MutSellFee(w, tokens_in) ==
    LET q == SellQuote(tokens_in)
        fee == CeilDiv(q.gross * FEE_BPS, 10000)
    IN  /\ status = "Trading"
        /\ tokens_in > 0 /\ position[w].balance >= tokens_in
        /\ q.gross > 0 /\ SellSound(q, tokens_in)
        /\ q.gross <= raised_xnt /\ tokens_in <= tokens_sold
        /\ auth' = auth - q.gross
        /\ virtual_xnt' = q.x
        /\ virtual_tokens' = virtual_tokens + tokens_in
        /\ tokens_sold' = tokens_sold - tokens_in
        /\ raised_xnt' = raised_xnt - (q.gross - fee)
        /\ position' = [position EXCEPT ![w].balance = @ - tokens_in]
        /\ UNCHANGED <<status, positions, delivered, coins, outside, history>>

(* The seller gets the gross less the fee, the fee receiver the fee.       *)
Sell(w, tokens_in) ==
    LET q == SellQuote(tokens_in)
    IN  /\ status = "Trading"
        /\ tokens_in > 0 /\ position[w].balance >= tokens_in
        /\ q.gross > 0 /\ SellSound(q, tokens_in)
        /\ q.gross <= raised_xnt /\ tokens_in <= tokens_sold
        /\ auth' = auth - q.gross
        /\ virtual_xnt' = q.x
        /\ virtual_tokens' = virtual_tokens + tokens_in
        /\ tokens_sold' = tokens_sold - tokens_in
        /\ raised_xnt' = raised_xnt - q.gross
        /\ position' = [position EXCEPT ![w].balance = @ - tokens_in]
        /\ UNCHANGED <<status, positions, delivered, coins, outside, history>>

-----------------------------------------------------------------------------
(* Graduation.  XDEX and lp_locker may fail: then the step does not happen. *)
GraduatePool ==
    /\ status = "Complete"
    /\ auth - Target - PoolCost >= Reserve(positions)
    /\ auth' = auth - Target - PoolCost
    /\ minted' = minted + PoolGross
    /\ lp' = "auth"
    /\ status' = "PoolCreated"
    /\ delivered' = Stamp
    /\ poolAt' = now
    /\ UNCHANGED <<reserves, people, mintable, tokens, outside, completedAt, refunds>>

(* Mutation: the pool's creation time left where deliveries are counted.   *)
MutGraduateLock ==
    /\ status = "PoolCreated"
    /\ lp = "auth"
    /\ auth - LockCost - GRADUATE_REWARD >= Reserve(positions)
    /\ auth' = auth - LockCost - GRADUATE_REWARD
    /\ lp' = "locked"
    /\ status' = "Graduated"
    /\ UNCHANGED <<reserves, people, delivered, minted, mintable, tokens, outside, history>>

GraduateLock ==
    /\ status = "PoolCreated"
    /\ lp = "auth"
    /\ auth - LockCost - GRADUATE_REWARD >= Reserve(positions)
    /\ auth' = auth - LockCost - GRADUATE_REWARD
    /\ lp' = "locked"
    /\ status' = "Graduated"
    /\ delivered' = 0
    /\ UNCHANGED <<reserves, people, minted, mintable, tokens, outside, history>>

StartBurnClock ==
    /\ upgraded
    /\ status = "PoolCreated"
    /\ delivered = 0
    /\ delivered' = now
    /\ UNCHANGED <<status, reserves, people, auth, coins, outside, history>>

(* check_burn_open.  Mutation: a pool without a time on record goes by the *)
(* curve's age.                                                            *)
MutBurnOpen == now >= (IF delivered > 0 THEN delivered ELSE 1) + LOCK_AFTER_SECS
BurnOpen == delivered > 0 /\ now >= delivered + LOCK_AFTER_SECS

GraduateBurn ==
    /\ upgraded
    /\ status = "PoolCreated"
    /\ BurnOpen
    /\ lp = "auth"
    /\ auth - GRADUATE_REWARD >= Reserve(positions)
    /\ auth' = auth - GRADUATE_REWARD
    /\ lp' = "burned"
    /\ status' = "Graduated"
    /\ delivered' = 0
    /\ UNCHANGED <<reserves, people, minted, mintable, tokens, outside, history>>

CloseCurve ==
    /\ upgraded
    /\ status = "Trading"
    /\ tokens_sold = 0
    /\ IF positions > 0
       THEN status' = "Refunding" /\ UNCHANGED auth
       ELSE status' = "Closed" /\ auth' = 0
    /\ UNCHANGED <<reserves, people, delivered, coins, outside, history>>

-----------------------------------------------------------------------------
(* deliver: cost is what the wallet's token account took of its deposit,   *)
(* nothing when it exists.                                                 *)
Deliver(w, cost) ==
    LET p == position[w]
        last == positions = 1
        rest == auth - cost - Floored(p.deposit - cost)
    IN  /\ status = "Graduated"
        /\ p.open
        /\ cost > 0 => p.balance > 0
        /\ rest >= 0
        /\ last => delivered + p.balance = CurveTokens
        /\ minted' = minted + p.balance
        /\ tokens' = [tokens EXCEPT ![w] = @ + p.balance]
        /\ position' = [position EXCEPT ![w] = None]
        /\ positions' = positions - 1
        /\ delivered' = delivered + p.balance
        /\ status' = IF last THEN "Finished" ELSE "Graduated"
        /\ mintable' = ~last
        /\ auth' = IF last THEN 0 ELSE rest
        /\ UNCHANGED <<reserves, lp, outside, history>>

CompletedAt == IF delivered > 0 THEN delivered ELSE 1

(* Mutation: what is left, over all that was sold.                         *)
MutRefundShare(balance) ==
    IF balance = tokens_sold THEN raised_xnt ELSE (raised_xnt * balance) \div CurveTokens

RefundShare(balance) ==
    IF balance = 0 \/ tokens_sold = 0 THEN 0
    ELSE IF balance = tokens_sold THEN raised_xnt
    ELSE (raised_xnt * balance) \div tokens_sold

(* Mutation: only for a curve that recorded when it filled.               *)
MutRefundStamped ==
    \/ status = "Complete" /\ delivered > 0 /\ now >= delivered + REFUND_AFTER_SECS
    \/ status = "Refunding"
RefundOpen ==
    \/ status = "Complete" /\ now >= CompletedAt + REFUND_AFTER_SECS
    \/ status = "Refunding"

Refund(w) ==
    LET p == position[w]
        share == RefundShare(p.balance)
        last == positions = 1
    IN  /\ upgraded
        /\ RefundOpen
        /\ p.open
        /\ share + p.deposit <= auth /\ share <= raised_xnt /\ p.balance <= tokens_sold
        /\ raised_xnt' = raised_xnt - share
        /\ tokens_sold' = tokens_sold - p.balance
        /\ positions' = positions - 1
        /\ position' = [position EXCEPT ![w] = None]
        /\ auth' = IF last THEN 0 ELSE auth - share - p.deposit
        /\ status' = IF last THEN "Closed" ELSE "Refunding"
        /\ refunds' = [refunds EXCEPT ![w] = [tokens |-> p.balance, xnt |-> share]]
        /\ UNCHANGED <<virtual_xnt, virtual_tokens, delivered, coins, outside, completedAt, poolAt>>

-----------------------------------------------------------------------------
(* The clock is bounded by MaxTime, and runs on while a wait is not over.  *)
Waiting ==
    \/ status = "Complete" /\ now < CompletedAt + REFUND_AFTER_SECS
    \/ status = "PoolCreated" /\ delivered > 0 /\ now < delivered + LOCK_AFTER_SECS

Tick ==
    /\ now < MaxTime \/ Waiting
    /\ now' = now + 1
    /\ UNCHANGED <<status, reserves, people, delivered, auth, coins, upgraded, donated, history>>

(* The program is upgraded to the one modelled here.                       *)
Upgrade ==
    /\ ~upgraded
    /\ upgraded' = TRUE
    /\ UNCHANGED <<status, reserves, people, delivered, auth, coins, now, donated, history>>

Donate(amount) ==
    /\ donated + amount <= MaxDonated
    /\ donated' = donated + amount
    /\ auth' = auth + amount
    /\ UNCHANGED <<status, reserves, people, delivered, coins, now, upgraded, history>>

Trade == \E w \in Traders :
    \/ \E n \in XntIn : Buy(w, n)
    \/ \E n \in TokensIn \cup {position[w].balance} : Sell(w, n)
Delivery(w) == \E cost \in {0, AccountRent} : Deliver(w, cost)
Gift == \E amount \in Donations : Donate(amount)

Next ==
    \/ Trade
    \/ GraduatePool \/ GraduateLock \/ StartBurnClock \/ GraduateBurn \/ CloseCurve
    \/ \E w \in Traders : Delivery(w) \/ Refund(w)
    \/ Tick \/ Upgrade \/ Gift

Spec == Init /\ [][Next]_vars

(* Anyone may send the ways out, and the site's crank does; neither XDEX   *)
(* nor lp_locker is relied on.                                             *)
CurveFair ==
    /\ WF_vars(Tick) /\ WF_vars(Upgrade) /\ WF_vars(StartBurnClock) /\ WF_vars(GraduateBurn)
    /\ \A w \in Traders : WF_vars(Delivery(w)) /\ WF_vars(Refund(w))
LiveSpec == Spec /\ CurveFair
-----------------------------------------------------------------------------
TypeOK ==
    /\ status \in {"Trading", "Complete", "PoolCreated", "Graduated", "Finished",
                   "Refunding", "Closed"}
    /\ {virtual_xnt, virtual_tokens, tokens_sold, raised_xnt} \subseteq Nat
    /\ positions \in 0..Cardinality(Traders) /\ delivered \in Nat
    /\ position \in [Traders -> [open : BOOLEAN, balance : Nat, deposit : Nat]]
    /\ auth \in Nat /\ minted \in Nat /\ mintable \in BOOLEAN
    /\ lp \in {"none", "auth", "locked", "burned"}
    /\ tokens \in [Traders -> Nat]
    /\ now \in Nat \ {0} /\ upgraded \in BOOLEAN /\ donated \in Nat
    /\ completedAt \in Nat /\ poolAt \in Nat
    /\ refunds \in [Traders -> [tokens : Nat, xnt : Nat]]

(* setup, buy, sell: the counters k0 is computed from never lose the       *)
(* curve's opening reserves, and trades never shrink their product.        *)
ReservesHold ==
    status \in {"Trading", "Complete"} =>
        /\ virtual_xnt - raised_xnt = X0
        /\ virtual_tokens + tokens_sold = Y0
        /\ tokens_sold <= CurveTokens
        /\ virtual_xnt * virtual_tokens >= K0

(* buy, sell: the program's own checks (the product, checked_sub of the    *)
(* XNT raised and the tokens sold) never refuse a trade: whoever holds     *)
(* tokens can sell them.                                                   *)
TradesNeverFault ==
    status = "Trading" =>
        /\ \A n \in XntIn : BuySound(BuyQuote(n))
        /\ \A w \in Traders : \A n \in 1..position[w].balance :
              /\ SellSound(SellQuote(n), n)
              /\ SellQuote(n).gross \in 0..raised_xnt /\ n <= tokens_sold

(* "Lamport accounting" at the head of the program: auth covers what was   *)
(* raised, every deposit and the graduation deposit until graduation, and  *)
(* every deposit afterwards.                                               *)
AuthCovers ==
    CASE status \in {"Trading", "Complete", "Refunding"} ->
            auth >= GRADUATION_DEPOSIT + raised_xnt + Deposits
      [] status \in {"PoolCreated", "Graduated"} -> auth >= Deposits + MinRent
      [] OTHER -> TRUE

(* deliver, refund: the positions hold what was sold and not delivered, so *)
(* the last delivery's own check never refuses it.                         *)
PositionsAddUp ==
    /\ positions = Cardinality({w \in Traders : position[w].open})
    /\ status \in {"Trading", "Complete", "PoolCreated", "Refunding"} => Balances = tokens_sold
    /\ status = "Graduated" => delivered + Balances = CurveTokens

(* deliver, refund, close_curve: a curve ends with every position and      *)
(* deposit settled, all of the supply minted and no more, or none of it.   *)
EndsClean ==
    /\ status \in {"Finished", "Closed"} => positions = 0 /\ Deposits = 0
    /\ status = "Finished" => minted = Supply /\ ~mintable /\ SumOver(tokens) = CurveTokens
    /\ status = "Closed" => minted = 0 /\ lp = "none"

(* All of it: auth can pay for whatever the positions may still ask, and    *)
(* they add up to the end.                                                 *)
PositionsSettle == AuthCovers /\ PositionsAddUp /\ EndsClean

(* refund_share: in whatever order positions are refunded, nobody gets     *)
(* less than its share of what was raised, and nothing is kept back.       *)
RefundsFair ==
    LET refunded == SumOver([w \in Traders |-> refunds[w].tokens])
        paid == SumOver([w \in Traders |-> refunds[w].xnt])
        sold == tokens_sold + refunded
    IN  /\ \A w \in Traders :
              refunds[w].xnt * sold > (raised_xnt + paid) * refunds[w].tokens - sold
              \/ refunds[w].tokens = 0
        /\ status = "Closed" => raised_xnt = 0 /\ tokens_sold = 0

(* check_burn_open: a pool's LP burns only after the pool, not the curve,  *)
(* waited LOCK_AFTER_SECS for its lock, whichever program made it.         *)
BurnWaits == [][lp' = "burned" /\ lp # "burned" => now >= poolAt + LOCK_AFTER_SECS]_vars

(* refund: a full curve that recorded when it filled is refunded only      *)
(* after REFUND_AFTER_SECS without a pool.                                 *)
RefundWaits ==
    [][status = "Complete" /\ status' \in {"Refunding", "Closed"} /\ delivered > 0
         => now >= completedAt + REFUND_AFTER_SECS]_vars

(* Neither way out of a graduation that stalls opens early.                 *)
WaitsOut == BurnWaits /\ RefundWaits

(* refund, graduate_burn, deliver: whatever XDEX and lp_locker do, every   *)
(* buyer of a curve that filled gets its tokens or its XNT.                *)
BuyersSettled == status = "Complete" ~> positions = 0
=============================================================================
