-------------------------- MODULE BondingCurveProofs --------------------------
(***************************************************************************)
(* BondingCurve for every supply, target, fee and wait: trades never       *)
(* shrink the curve's product, the program's own checks never refuse one,  *)
(* every position can be settled, refunds are fair in any order, and       *)
(* neither refunds nor the burn come early.                                *)
(***************************************************************************)
EXTENDS BondingCurve, FiniteSums, TLAPS

(* The part of TypeOK that does not rest on auth covering what it pays.    *)
TypeInv ==
    /\ status \in {"Trading", "Complete", "PoolCreated", "Graduated", "Finished",
                   "Refunding", "Closed"}
    /\ virtual_xnt \in Nat /\ virtual_tokens \in Nat /\ tokens_sold \in Nat /\ raised_xnt \in Nat
    /\ delivered \in Nat
    /\ position \in [Traders -> [open : BOOLEAN, balance : Nat, deposit : Nat]]
    /\ now \in Nat /\ completedAt \in Nat /\ poolAt \in Nat
    /\ upgraded \in BOOLEAN

(* What `delivered` stands for in the states that wait: nothing yet, the   *)
(* time the curve filled, a time since the pool was made.                  *)
ClocksAgree ==
    /\ status = "Complete" /\ delivered > 0 => delivered = completedAt
    /\ status = "PoolCreated" /\ delivered > 0 => delivered >= poolAt
    /\ poolAt <= now

(* The inductive invariant.                                                *)
IInv == TypeInv /\ ClocksAgree /\ ReservesHold

-----------------------------------------------------------------------------
(* Division rounds down.                                                   *)
LEMMA DivBounds ==
    ASSUME NEW a \in Int, NEW b \in Nat \ {0}
    PROVE  /\ a \div b \in Int
           /\ a >= 0 => a \div b >= 0
           /\ (a \div b) * b <= a
           /\ a < (a \div b + 1) * b
  OBVIOUS

(* ceil_div rounds up, and no further than it must.                        *)
LEMMA CeilDivBounds ==
    ASSUME NEW a \in Nat, NEW b \in Nat \ {0}
    PROVE  CeilDiv(a, b) \in Nat /\ a <= CeilDiv(a, b) * b
<1>1. a + b - 1 \in Nat
  OBVIOUS
<1>2. /\ (a + b - 1) \div b \in Nat
      /\ a + b - 1 < ((a + b - 1) \div b + 1) * b
  BY <1>1, DivBounds
<1>3. ((a + b - 1) \div b + 1) * b = ((a + b - 1) \div b) * b + b
  BY <1>2
<1> QED
  BY <1>2, <1>3 DEF CeilDiv

(* A share in ten thousandths is no more than the whole.                   *)
LEMMA FeeInBounds ==
    ASSUME NEW n \in Nat
    PROVE  CeilDiv(n * FEE_BPS, 10000) \in 0..n
<1> DEFINE a == n * FEE_BPS
<1>1. FEE_BPS \in Nat /\ FEE_BPS < 10000
  BY CurveAssumption
<1>2. a \in Nat /\ a <= n * 10000
  BY <1>1
<1>3. (a + 10000 - 1) \div 10000 <= n
  BY <1>2
<1>4. CeilDiv(a, 10000) \in Nat
  BY <1>2, CeilDivBounds
<1> QED
  BY <1>3, <1>4 DEF CeilDiv

(* setup's results are positive.                                           *)
LEMMA SetupTyped ==
    /\ CurveTokens \in Nat /\ A \in Nat \ {0} /\ X0 \in Nat \ {0} /\ Y0 \in Nat /\ K0 \in Nat
    /\ Y0 = A + CurveTokens /\ PoolNet \in Nat \ {0}
<1>1. CurveTokens \in Nat
  <2>1. Supply * CURVE_BPS \in Nat
    BY CurveAssumption
  <2> QED
    BY <2>1, DivBounds DEF CurveTokens
<1>2. PoolNet \in Nat \ {0}
  <2>1. PoolGross * TaxBps + 10000 - 1 \in Int
    BY <1>1, CurveAssumption DEF PoolGross
  <2>2. (PoolGross * TaxBps + 10000 - 1) \div 10000 \in Int
    BY <2>1, DivBounds
  <2> QED
    BY <1>1, <2>2, CurveAssumption DEF PoolNet, PoolGross, CeilDiv
<1>3. A \in Nat \ {0}
  <2>1. CurveTokens - PoolNet \in Nat \ {0} /\ PoolNet * CurveTokens \in Int
    BY <1>1, <1>2, CurveAssumption
  <2> QED
    BY <2>1, DivBounds, CurveAssumption DEF A
<1>4. X0 \in Nat \ {0}
  <2>1. Target * (A - PoolNet) \in Int
    BY <1>2, <1>3, CurveAssumption
  <2> QED
    BY <1>2, <2>1, DivBounds, CurveAssumption DEF X0
<1> QED
  BY <1>1, <1>2, <1>3, <1>4 DEF Y0, K0

-----------------------------------------------------------------------------
(* While the curve trades its counters give the opening product back.      *)
LEMMA CountersGiveK0 ==
    ASSUME IInv, status = "Trading"
    PROVE  k0 = K0 /\ k0 \in Nat /\ virtual_tokens = A + CurveTokens - tokens_sold
  BY SetupTyped DEF IInv, TypeInv, ReservesHold, k0, K0

(* buy: a quote is of naturals, takes no more than is left, and leaves a   *)
(* product no smaller: the program's own check never refuses it.           *)
LEMMA BuyQuoteSound ==
    ASSUME IInv, status = "Trading", NEW n \in Nat
    PROVE  /\ BuyQuote(n).net \in Nat
           /\ BuyQuote(n).out \in Nat /\ BuyQuote(n).out <= CurveTokens - tokens_sold
           /\ BuySound(BuyQuote(n))
<1> DEFINE fee == CeilDiv(n * FEE_BPS, 10000)
           left == CurveTokens - tokens_sold
           x == virtual_xnt + n - fee
           y1 == CeilDiv(k0, x)
           out == Floored(virtual_tokens - y1)
           endX == CeilDiv(k0, virtual_tokens - left)
           net == Floored(endX - virtual_xnt)
<1>1. /\ virtual_xnt \in Nat /\ virtual_tokens \in Nat /\ tokens_sold \in Nat /\ raised_xnt \in Nat
      /\ virtual_xnt - raised_xnt = X0 /\ tokens_sold <= CurveTokens
      /\ K0 <= virtual_xnt * virtual_tokens
  BY DEF IInv, TypeInv, ReservesHold
<1>2. fee \in 0..n
  BY FeeInBounds
<1>3. k0 = K0 /\ k0 \in Nat /\ virtual_tokens - left = A /\ A \in Nat \ {0} /\ left \in Nat
      /\ left <= virtual_tokens
  BY <1>1, CountersGiveK0, SetupTyped
<1>4. virtual_xnt > 0 /\ x \in Nat \ {0} /\ x >= virtual_xnt
  BY <1>1, <1>2, SetupTyped
<1>5. y1 \in Nat /\ k0 <= y1 * x
  BY <1>3, <1>4, CeilDivBounds
<1>6. endX \in Nat /\ k0 <= endX * A
  BY <1>3, CeilDivBounds
<1>7. out \in Nat /\ net \in Nat
  BY <1>1, <1>5, <1>6 DEF Floored
<1>8. CASE out < left
  <2>1. BuyQuote(n) = [net |-> n - fee, out |-> out, complete |-> FALSE]
    BY <1>8 DEF BuyQuote
  <2>2. n - fee \in Nat
    BY <1>2
  <2>3. k0 <= x * (virtual_tokens - out)
    <3>1. CASE y1 <= virtual_tokens
      BY <1>1, <1>4, <1>5, <3>1 DEF Floored
    <3>2. CASE y1 > virtual_tokens
      <4>1. out = 0
        BY <1>1, <1>5, <3>2 DEF Floored
      <4>2. virtual_xnt * virtual_tokens <= x * virtual_tokens
        BY <1>1, <1>4
      <4>3. x * (virtual_tokens - out) = x * virtual_tokens
        BY <1>1, <1>4, <4>1
      <4> QED
        BY <1>1, <1>3, <1>4, <4>2, <4>3
    <3> QED
      BY <1>1, <1>5, <3>1, <3>2
  <2>4. virtual_xnt + (n - fee) = x
    BY <1>1, <1>2
  <2> QED
    BY <1>7, <1>8, <2>1, <2>2, <2>3, <2>4, <1>3 DEF BuySound
<1>9. CASE ~(out < left)
  <2>1. BuyQuote(n) = [net |-> net, out |-> left, complete |-> TRUE]
    BY <1>9 DEF BuyQuote
  <2>2. endX <= virtual_xnt + net
    BY <1>1, <1>6 DEF Floored
  <2>3. endX * A <= (virtual_xnt + net) * A
    BY <1>1, <1>3, <1>6, <1>7, <2>2
  <2>4. k0 <= (virtual_xnt + net) * A
    <3>1. k0 \in Int /\ endX * A \in Int /\ (virtual_xnt + net) * A \in Int
      BY <1>1, <1>3, <1>6, <1>7
    <3> QED
      BY <1>6, <2>3, <3>1
  <2> QED
    BY <1>1, <1>3, <1>7, <2>1, <2>4 DEF BuySound
<1> QED
  BY <1>8, <1>9

(* sell: the XNT left is natural and the product no smaller.               *)
LEMMA SellQuoteSound ==
    ASSUME IInv, status = "Trading", NEW n \in Nat
    PROVE  /\ SellQuote(n).x \in Nat
           /\ SellQuote(n).gross = virtual_xnt - SellQuote(n).x
           /\ SellSound(SellQuote(n), n)
<1>1. virtual_tokens + n \in Nat \ {0} /\ k0 \in Nat
  BY CountersGiveK0, SetupTyped DEF IInv, TypeInv, ReservesHold
<1>2. CeilDiv(k0, virtual_tokens + n) \in Nat /\ k0 <= CeilDiv(k0, virtual_tokens + n) * (virtual_tokens + n)
  BY <1>1, CeilDivBounds
<1> QED
  BY <1>1, <1>2 DEF SellQuote, SellSound

(* refund_share is part of what is left.                                   *)
LEMMA ShareTyped ==
    ASSUME TypeInv, NEW b \in Nat
    PROVE  RefundShare(b) \in Nat
<1>1. raised_xnt * b \in Nat /\ tokens_sold \in Nat /\ raised_xnt \in Nat
  BY DEF TypeInv
<1>2. tokens_sold # 0 => (raised_xnt * b) \div tokens_sold \in Nat
  BY <1>1, DivBounds
<1> QED
  BY <1>1, <1>2 DEF RefundShare

-----------------------------------------------------------------------------
(* A new curve satisfies the invariant.                                    *)
LEMMA InitInv == Init => IInv
<1> SUFFICES ASSUME Init
             PROVE  IInv
  OBVIOUS
<1>1. TypeInv
  BY SetupTyped DEF Init, TypeInv, None
<1>2. ClocksAgree /\ ReservesHold
  BY SetupTyped DEF Init, ClocksAgree, ReservesHold, K0
<1> QED
  BY <1>1, <1>2 DEF IInv

(* Each step keeps the invariant: a purchase,                              *)
LEMMA BuyInv ==
    ASSUME IInv, NEW w \in Traders, NEW n \in XntIn, Buy(w, n)
    PROVE  IInv'
<1> DEFINE q == BuyQuote(n)
           deposit == IF ~position[w].open THEN AccountRent ELSE 0
<1>1. status = "Trading" /\ n \in Nat /\ AccountRent \in Nat
  BY CurveAssumption DEF Buy
<1>2. q.net \in Nat /\ q.out \in Nat /\ q.out <= CurveTokens - tokens_sold /\ BuySound(q)
  BY <1>1, BuyQuoteSound
<1> HIDE DEF q
<1>3. /\ virtual_xnt' = virtual_xnt + q.net /\ virtual_tokens' = virtual_tokens - q.out
      /\ tokens_sold' = tokens_sold + q.out /\ raised_xnt' = raised_xnt + q.net
      /\ status' = (IF q.complete THEN "Complete" ELSE "Trading")
      /\ delivered' = (IF q.complete THEN Stamp ELSE delivered)
      /\ completedAt' = (IF q.complete THEN now ELSE completedAt)
      /\ position' = [position EXCEPT ![w] = [open |-> TRUE, balance |-> @.balance + q.out,
                                              deposit |-> @.deposit + deposit]]
      /\ UNCHANGED <<now, upgraded, poolAt>>
  BY DEF Buy, q, outside
<1>4. k0 = K0 /\ virtual_tokens = A + CurveTokens - tokens_sold
  BY <1>1, CountersGiveK0
<1>5. Stamp \in Nat /\ (Stamp > 0 => Stamp = now)
  BY DEF Stamp, IInv, TypeInv
<1>6. position' \in [Traders -> [open : BOOLEAN, balance : Nat, deposit : Nat]]
  <2>1. deposit \in Nat
    BY <1>1
  <2> HIDE DEF deposit
  <2> QED
    BY <1>2, <1>3, <2>1 DEF IInv, TypeInv
<1>7. TypeInv'
  BY <1>2, <1>3, <1>4, <1>5, <1>6, SetupTyped DEF IInv, TypeInv
<1>8. ClocksAgree'
  BY <1>1, <1>3, <1>5 DEF IInv, TypeInv, ClocksAgree
<1>9. ReservesHold'
  <2>1. virtual_xnt' - raised_xnt' = X0 /\ virtual_tokens' + tokens_sold' = Y0 /\ tokens_sold' <= CurveTokens
    BY <1>1, <1>2, <1>3, SetupTyped DEF IInv, TypeInv, ReservesHold
  <2>2. virtual_xnt' * virtual_tokens' >= K0
    BY <1>2, <1>3, <1>4 DEF BuySound
  <2> QED
    BY <2>1, <2>2 DEF ReservesHold, X0, Y0, K0, A, PoolNet, PoolGross, CurveTokens
<1> QED
  BY <1>7, <1>8, <1>9 DEF IInv

(* a sale,                                                                 *)
LEMMA SellInv ==
    ASSUME IInv, NEW w \in Traders, NEW n \in TokensIn \cup {position[w].balance}, Sell(w, n)
    PROVE  IInv'
<1> DEFINE q == SellQuote(n)
<1>1. status = "Trading" /\ n \in Nat /\ position[w].balance >= n
  BY CurveAssumption DEF Sell, IInv, TypeInv
<1>2. q.x \in Nat /\ q.gross = virtual_xnt - q.x /\ SellSound(q, n)
  BY <1>1, SellQuoteSound
<1> HIDE DEF q
<1>3. /\ virtual_xnt' = q.x /\ virtual_tokens' = virtual_tokens + n
      /\ tokens_sold' = tokens_sold - n /\ raised_xnt' = raised_xnt - q.gross
      /\ q.gross > 0 /\ q.gross <= raised_xnt /\ n <= tokens_sold
      /\ position' = [position EXCEPT ![w].balance = @ - n]
      /\ UNCHANGED <<status, delivered, now, upgraded, completedAt, poolAt>>
  BY DEF Sell, q, outside, history
<1>4. k0 = K0 /\ virtual_tokens = A + CurveTokens - tokens_sold
  BY <1>1, CountersGiveK0
<1>5. position' \in [Traders -> [open : BOOLEAN, balance : Nat, deposit : Nat]]
  BY <1>1, <1>3 DEF IInv, TypeInv
<1>6. TypeInv'
  <2>1. virtual_xnt' \in Nat /\ virtual_tokens' \in Nat /\ tokens_sold' \in Nat /\ raised_xnt' \in Nat
    BY <1>1, <1>2, <1>3 DEF IInv, TypeInv
  <2> QED
    BY <1>3, <1>5, <2>1 DEF IInv, TypeInv
<1>7. ClocksAgree'
  BY <1>3 DEF IInv, ClocksAgree
<1>8. ReservesHold'
  <2>1. virtual_xnt' - raised_xnt' = X0 /\ virtual_tokens' + tokens_sold' = Y0 /\ tokens_sold' <= CurveTokens
    BY <1>1, <1>2, <1>3, SetupTyped DEF IInv, TypeInv, ReservesHold
  <2>2. virtual_xnt' * virtual_tokens' >= K0
    BY <1>2, <1>3, <1>4 DEF SellSound
  <2> QED
    BY <2>1, <2>2 DEF ReservesHold, X0, Y0, K0, A, PoolNet, PoolGross, CurveTokens
<1> QED
  BY <1>6, <1>7, <1>8 DEF IInv

(* Steps after the curve is full leave its product alone.                  *)
LEMMA StepsAfterTrading ==
    ASSUME IInv,
           \/ GraduatePool \/ GraduateLock \/ StartBurnClock \/ GraduateBurn
    PROVE  IInv'
<1>1. Stamp \in Nat /\ (Stamp > 0 => Stamp = now)
  BY DEF Stamp, IInv, TypeInv
<1>2. CASE GraduatePool
  BY <1>1, <1>2 DEF GraduatePool, IInv, TypeInv, ClocksAgree, ReservesHold, reserves, people, outside
<1>3. CASE GraduateLock
  BY <1>3 DEF GraduateLock, IInv, TypeInv, ClocksAgree, ReservesHold, reserves, people, outside, history
<1>4. CASE StartBurnClock
  BY <1>4 DEF StartBurnClock, IInv, TypeInv, ClocksAgree, ReservesHold, reserves, people, outside, history
<1>5. CASE GraduateBurn
  BY <1>5 DEF GraduateBurn, IInv, TypeInv, ClocksAgree, ReservesHold, reserves, people, outside, history
<1> QED
  BY <1>2, <1>3, <1>4, <1>5

(* a delivery,                                                             *)
LEMMA DeliverInv ==
    ASSUME IInv, NEW w \in Traders, NEW cost \in {0, AccountRent}, Deliver(w, cost)
    PROVE  IInv'
<1>1. position' \in [Traders -> [open : BOOLEAN, balance : Nat, deposit : Nat]]
  BY DEF Deliver, IInv, TypeInv, None
<1>2. delivered' \in Nat /\ status' \in {"Finished", "Graduated"}
  BY DEF Deliver, IInv, TypeInv
<1>3. UNCHANGED <<virtual_xnt, virtual_tokens, tokens_sold, raised_xnt, now, upgraded, completedAt, poolAt>>
  BY DEF Deliver, reserves, outside, history
<1> QED
  BY <1>1, <1>2, <1>3 DEF IInv, TypeInv, ClocksAgree, ReservesHold

(* a refund.                                                               *)
LEMMA RefundInv ==
    ASSUME IInv, NEW w \in Traders, Refund(w)
    PROVE  IInv'
<1> DEFINE share == RefundShare(position[w].balance)
<1>1. position[w].balance \in Nat /\ share \in Nat
  BY ShareTyped DEF IInv, TypeInv
<1> HIDE DEF share
<1>2. /\ share <= raised_xnt /\ position[w].balance <= tokens_sold
      /\ raised_xnt' = raised_xnt - share /\ tokens_sold' = tokens_sold - position[w].balance
      /\ status' \in {"Closed", "Refunding"}
      /\ position' = [position EXCEPT ![w] = None]
      /\ UNCHANGED <<virtual_xnt, virtual_tokens, delivered, now, upgraded, completedAt, poolAt>>
  BY DEF Refund, share, outside
<1>3. position' \in [Traders -> [open : BOOLEAN, balance : Nat, deposit : Nat]]
  BY <1>2 DEF IInv, TypeInv, None
<1>4. raised_xnt' \in Nat /\ tokens_sold' \in Nat
  BY <1>1, <1>2 DEF IInv, TypeInv
<1> QED
  BY <1>2, <1>3, <1>4 DEF IInv, TypeInv, ClocksAgree, ReservesHold

(* Every step keeps the invariant.                                         *)
LEMMA NextInv == IInv /\ [Next]_vars => IInv'
<1> SUFFICES ASSUME IInv, [Next]_vars
             PROVE  IInv'
  OBVIOUS
<1>1. CASE Trade
  BY <1>1, BuyInv, SellInv DEF Trade
<1>2. CASE GraduatePool \/ GraduateLock \/ StartBurnClock \/ GraduateBurn
  BY <1>2, StepsAfterTrading
<1>3. CASE CloseCurve
  BY <1>3 DEF CloseCurve, IInv, TypeInv, ClocksAgree, ReservesHold, reserves, people, outside, history
<1>4. CASE \E w \in Traders : Delivery(w) \/ Refund(w)
  BY <1>4, DeliverInv, RefundInv DEF Delivery
<1>5. CASE Tick
  BY <1>5 DEF Tick, IInv, TypeInv, ClocksAgree, ReservesHold, reserves, people, history
<1>6. CASE Upgrade
  BY <1>6 DEF Upgrade, IInv, TypeInv, ClocksAgree, ReservesHold, reserves, people, history
<1>7. CASE Gift
  BY <1>7 DEF Gift, Donate, IInv, TypeInv, ClocksAgree, ReservesHold, reserves, people, history
<1>8. CASE UNCHANGED vars
  BY <1>8 DEF vars, IInv, TypeInv, ClocksAgree, ReservesHold, reserves, people, outside, history
<1> QED
  BY <1>1, <1>2, <1>3, <1>4, <1>5, <1>6, <1>7, <1>8 DEF Next

(* So it always holds.                                                     *)
LEMMA AlwaysInv == Spec => []IInv
  BY InitInv, NextInv, PTL DEF Spec

-----------------------------------------------------------------------------
(* setup, buy, sell: no sequence of trades shrinks the curve's product or  *)
(* loses the opening reserves k0 is computed from.                         *)
THEOREM ProductNeverShrinks == Spec => []ReservesHold
  BY AlwaysInv, PTL DEF IInv

(* check_burn_open, start_burn_clock: no pool's LP burns before            *)
(* LOCK_AFTER_SECS have passed since the pool was made.                    *)
THEOREM BurnNeverEarly == Spec => BurnWaits
<1>1. ASSUME IInv, [Next]_vars
      PROVE  lp' = "burned" /\ lp # "burned" => now >= poolAt + LOCK_AFTER_SECS
  <2> SUFFICES ASSUME lp' = "burned", lp # "burned"
               PROVE  now >= poolAt + LOCK_AFTER_SECS
    OBVIOUS
  <2>1. GraduateBurn
    BY <1>1 DEF Next, vars, coins, Trade, Buy, Sell, GraduatePool, GraduateLock, StartBurnClock,
                CloseCurve, Delivery, Deliver, Refund, Tick, Upgrade, Gift, Donate
  <2> QED
    BY <1>1, <2>1, CurveAssumption DEF GraduateBurn, BurnOpen, IInv, TypeInv, ClocksAgree
<1> QED
  BY <1>1, AlwaysInv, PTL DEF Spec, BurnWaits

(* refund, completed_at: a full curve that recorded when it filled is not  *)
(* refunded before REFUND_AFTER_SECS have passed since.                    *)
THEOREM RefundNeverEarly == Spec => RefundWaits
<1>1. ASSUME IInv, [Next]_vars
      PROVE  status = "Complete" /\ status' \in {"Refunding", "Closed"} /\ delivered > 0
               => now >= completedAt + REFUND_AFTER_SECS
  <2> SUFFICES ASSUME status = "Complete", status' \in {"Refunding", "Closed"}, delivered > 0
               PROVE  now >= completedAt + REFUND_AFTER_SECS
    OBVIOUS
  <2>1. \E w \in Traders : Refund(w)
    BY <1>1 DEF Next, vars, Trade, Buy, Sell, GraduatePool, GraduateLock, StartBurnClock,
                GraduateBurn, CloseCurve, Delivery, Deliver, Tick, Upgrade, Gift, Donate
  <2>2. RefundOpen
    BY <2>1 DEF Refund
  <2> QED
    BY <1>1, <2>2 DEF RefundOpen, CompletedAt, IInv, ClocksAgree
<1> QED
  BY <1>1, AlwaysInv, PTL DEF Spec, RefundWaits

(* Neither the burn nor refunds come before their wait is over.            *)
THEOREM NeitherEarly == Spec => WaitsOut
  BY BurnNeverEarly, RefundNeverEarly DEF WaitsOut

-----------------------------------------------------------------------------
(* What wallets hold, put down and were refunded, as functions to sum.     *)
BalanceOf == [w \in Traders |-> position[w].balance]
DepositOf == [w \in Traders |-> position[w].deposit]
TokensBack == [w \in Traders |-> refunds[w].tokens]
XntBack == [w \in Traders |-> refunds[w].xnt]
Open == {w \in Traders : position[w].open}
NotRefunded == [tokens |-> 0, xnt |-> 0]

(* What a curve had sold and raised when its refunds began.                *)
SoldThen == tokens_sold + FSum(TokensBack, Traders)
RaisedThen == raised_xnt + FSum(XntBack, Traders)

(* The rest of TypeOK.                                                     *)
AccountsTyped ==
    /\ auth \in Nat /\ minted \in Nat /\ donated \in Nat /\ mintable \in BOOLEAN
    /\ lp \in {"none", "auth", "locked", "burned"}
    /\ now # 0 /\ tokens \in [Traders -> Nat]
    /\ refunds \in [Traders -> [tokens : Nat, xnt : Nat]]

(* An open position has put down one rent; one that is not has nothing,    *)
(* and only one that is not was refunded.                                  *)
PeopleAgree ==
    \A w \in Traders :
        /\ position[w].deposit = IF position[w].open THEN AccountRent ELSE 0
        /\ ~position[w].open => position[w].balance = 0
        /\ position[w].open => refunds[w] = NotRefunded

(* The counters are the sums they stand for.                               *)
Counted ==
    /\ positions = Cardinality(Open)
    /\ FSum(DepositOf, Traders) = positions * AccountRent
    /\ status \in {"Trading", "Complete", "PoolCreated", "Refunding"}
         => FSum(BalanceOf, Traders) = tokens_sold
    /\ status = "Graduated" => delivered + FSum(BalanceOf, Traders) = CurveTokens

(* auth can pay what may still be asked of it.                             *)
Covered ==
    CASE status \in {"Trading", "Complete", "Refunding"} ->
            auth >= GRADUATION_DEPOSIT + raised_xnt + positions * AccountRent
      [] status \in {"PoolCreated", "Graduated"} -> auth >= positions * AccountRent + MinRent
      [] OTHER -> positions = 0

(* What each status says of the supply: all sold, minted, delivered.       *)
Stages ==
    /\ status \in {"Complete", "PoolCreated"} => tokens_sold = CurveTokens
    /\ CASE status \in {"Graduated", "Finished"} ->
               minted = PoolGross + delivered /\ FSum(tokens, Traders) = delivered
         [] status = "PoolCreated" -> minted = PoolGross /\ FSum(tokens, Traders) = 0
         [] OTHER -> minted = 0 /\ lp = "none" /\ FSum(tokens, Traders) = 0
    /\ mintable = (status # "Finished")
    /\ status = "Finished" => delivered = CurveTokens

(* Refunds leave what remains worth at least as much as what they gave     *)
(* back, and each gave back its share but for rounding.                    *)
RefundsAgree ==
    /\ status \notin {"Refunding", "Closed"} => \A w \in Traders : refunds[w] = NotRefunded
    /\ status \in {"Trading", "Complete", "Refunding", "Closed"} /\ tokens_sold = 0 => raised_xnt = 0
    /\ status = "Closed" => tokens_sold = 0
    /\ raised_xnt * SoldThen >= RaisedThen * tokens_sold
    /\ \A w \in Traders : refunds[w].tokens # 0
         => refunds[w].xnt * SoldThen > RaisedThen * refunds[w].tokens - SoldThen

(* The inductive invariant of the money.                                   *)
MoneyInv == IInv /\ AccountsTyped /\ PeopleAgree /\ Counted /\ Covered /\ Stages /\ RefundsAgree

-----------------------------------------------------------------------------
(* The traders are finitely many and the fees are naturals.                *)
LEMMA Amounts ==
    /\ IsFiniteSet(Traders)
    /\ Supply \in Nat /\ Target \in Nat /\ GRADUATION_DEPOSIT \in Nat /\ GRADUATE_REWARD \in Nat
    /\ AccountRent \in Nat /\ MinRent \in Nat /\ PoolCost \in Nat /\ LockCost \in Nat
    /\ CurveTokens \in Nat \ {0} /\ PoolGross \in Nat /\ PoolGross + CurveTokens = Supply
<1>1. CurveTokens \in Nat \ {0} /\ PoolNet \in Nat
  BY SetupTyped, CurveAssumption
<1>2. CurveTokens <= Supply
  <2>1. Supply \in Nat /\ CURVE_BPS \in Nat /\ CURVE_BPS < 10000
    BY CurveAssumption
  <2>2. Supply * CURVE_BPS \in Nat /\ Supply * CURVE_BPS <= Supply * 10000
    BY <2>1
  <2> DEFINE n == Supply * CURVE_BPS
  <2> HIDE DEF n
  <2>3. n \div 10000 <= Supply
    BY <2>1, <2>2 DEF n
  <2> QED
    BY <2>3 DEF CurveTokens, n
<1> QED
  BY <1>1, <1>2, CurveAssumption DEF PoolGross

(* The model's sums are the lemmas' sums.                                  *)
LEMMA SumOverIs ==
    ASSUME NEW f
    PROVE  SumOver(f) = FSum(f, DOMAIN f)
  BY DEF SumOver, FSum, FoldFunction, FoldFunctionOnSet

(* A wallet's position changes: so do the sums, by as much, and the number *)
(* of open positions by whether it opens or closes.                        *)
LEMMA PositionChanges ==
    ASSUME IInv, NEW w \in Traders, NEW p \in [open : BOOLEAN, balance : Nat, deposit : Nat],
           position' = [position EXCEPT ![w] = p]
    PROVE  /\ FSum(BalanceOf', Traders) = FSum(BalanceOf, Traders) + (p.balance - position[w].balance)
           /\ FSum(DepositOf', Traders) = FSum(DepositOf, Traders) + (p.deposit - position[w].deposit)
           /\ p.open /\ position[w].open => Open' = Open
           /\ p.open /\ ~position[w].open => w \notin Open /\ Open' = Open \cup {w}
           /\ ~p.open /\ position[w].open => w \in Open /\ Open' = Open \ {w}
<1>1. position \in [Traders -> [open : BOOLEAN, balance : Nat, deposit : Nat]]
  BY DEF IInv, TypeInv
<1>2. /\ \A v \in Traders : BalanceOf[v] \in Int /\ DepositOf[v] \in Int
      /\ BalanceOf[w] = position[w].balance /\ DepositOf[w] = position[w].deposit
  BY <1>1 DEF BalanceOf, DepositOf
<1>3. /\ \A v \in Traders : BalanceOf'[v] \in Int /\ DepositOf'[v] \in Int
      /\ BalanceOf'[w] = p.balance /\ DepositOf'[w] = p.deposit
  BY <1>1 DEF BalanceOf, DepositOf
<1>4. \A v \in Traders \ {w} : BalanceOf'[v] = BalanceOf[v] /\ DepositOf'[v] = DepositOf[v]
  BY <1>1 DEF BalanceOf, DepositOf
<1>5. /\ FSum(BalanceOf', Traders) = FSum(BalanceOf, Traders) + (p.balance - position[w].balance)
      /\ FSum(DepositOf', Traders) = FSum(DepositOf, Traders) + (p.deposit - position[w].deposit)
  <2> DEFINE b == BalanceOf
             d == DepositOf
             bNew == BalanceOf'
             dNew == DepositOf'
  <2>1. /\ \A v \in Traders : b[v] \in Int /\ bNew[v] \in Int /\ d[v] \in Int /\ dNew[v] \in Int
        /\ \A v \in Traders \ {w} : bNew[v] = b[v] /\ dNew[v] = d[v]
    BY <1>2, <1>3, <1>4
  <2> HIDE DEF b, d, bNew, dNew
  <2>2. /\ FSum(bNew, Traders) = FSum(b, Traders) + (bNew[w] - b[w])
        /\ FSum(dNew, Traders) = FSum(d, Traders) + (dNew[w] - d[w])
    BY <2>1, Amounts, SumUpdate
  <2> QED
    BY <1>2, <1>3, <2>2 DEF b, d, bNew, dNew
<1>6. \A v \in Traders : position'[v] = IF v = w THEN p ELSE position[v]
  BY <1>1
<1> QED
  BY <1>5, <1>6 DEF Open

(* How many that makes.                                                    *)
LEMMA OpenCount ==
    /\ IsFiniteSet(Open) /\ Cardinality(Open) \in Nat
    /\ \A w : w \notin Open => Cardinality(Open \cup {w}) = Cardinality(Open) + 1
    /\ \A w \in Open : /\ Cardinality(Open \ {w}) = Cardinality(Open) - 1
                       /\ Cardinality(Open) >= 1
<1>1. IsFiniteSet(Open) /\ Cardinality(Open) \in Nat
  BY Amounts, FS_Subset, FS_CardinalityType DEF Open
<1>2. \A w : w \notin Open => Cardinality(Open \cup {w}) = Cardinality(Open) + 1
  BY <1>1, FS_AddElement
<1>3. ASSUME NEW w \in Open
      PROVE  Cardinality(Open \ {w}) = Cardinality(Open) - 1 /\ Cardinality(Open) >= 1
  <2>1. Cardinality(Open \ {w}) = Cardinality(Open) - 1
    BY <1>1, <1>3, FS_RemoveElement
  <2>2. Cardinality(Open \ {w}) \in Nat
    BY <1>1, FS_Subset, FS_CardinalityType
  <2> QED
    BY <1>1, <2>1, <2>2
<1> QED
  BY <1>1, <1>2, <1>3

(* What each wallet holds is no more than all of them hold.                *)
LEMMA BalanceIsPart ==
    ASSUME IInv, NEW w \in Traders
    PROVE  /\ FSum(BalanceOf, Traders) \in Nat /\ position[w].balance <= FSum(BalanceOf, Traders)
           /\ FSum(DepositOf, Traders) \in Nat
<1>1. \A v \in Traders : BalanceOf[v] \in Nat /\ DepositOf[v] \in Nat
  BY DEF IInv, TypeInv, BalanceOf, DepositOf
<1> DEFINE f == BalanceOf
           g == DepositOf
<1>2. f[w] = position[w].balance
  BY DEF BalanceOf
<1> HIDE DEF f, g
<1>3. FSum(f, Traders) \in Nat /\ f[w] <= FSum(f, Traders) /\ FSum(g, Traders) \in Nat
  BY <1>1, Amounts, SumNat, SumTerm DEF f, g
<1> QED
  BY <1>2, <1>3 DEF f, g

-----------------------------------------------------------------------------
(* A new curve: nobody holds anything, nothing was refunded.               *)
LEMMA InitMoney == Init => MoneyInv
<1> SUFFICES ASSUME Init
             PROVE  MoneyInv
  OBVIOUS
<1>1. IInv
  BY InitInv
<1>2. /\ \A w \in Traders : position[w] = None /\ refunds[w] = NotRefunded /\ tokens[w] = 0
      /\ tokens = [w \in Traders |-> 0]
  BY DEF Init, NotRefunded
<1>3. /\ FSum(BalanceOf, Traders) = 0 /\ FSum(DepositOf, Traders) = 0 /\ FSum(tokens, Traders) = 0
      /\ FSum(TokensBack, Traders) = 0 /\ FSum(XntBack, Traders) = 0
  <2> DEFINE b == BalanceOf
             d == DepositOf
             t == TokensBack
             x == XntBack
  <2>1. \A w \in Traders : b[w] = 0 /\ d[w] = 0 /\ t[w] = 0 /\ x[w] = 0
    BY <1>2 DEF BalanceOf, DepositOf, TokensBack, XntBack, None, NotRefunded
  <2> HIDE DEF b, d, t, x
  <2>2. FSum(b, Traders) = 0 /\ FSum(d, Traders) = 0 /\ FSum(t, Traders) = 0 /\ FSum(x, Traders) = 0
    BY <2>1, Amounts, SumZero
  <2>3. FSum(tokens, Traders) = 0
    BY <1>2, Amounts, SumZero
  <2> QED
    BY <2>2, <2>3 DEF b, d, t, x
<1>4. Open = {} /\ Cardinality(Open) = 0
  BY <1>2, FS_EmptySet DEF Open, None
<1>5. AccountsTyped
  BY <1>1, Amounts DEF Init, AccountsTyped, IInv, TypeInv
<1>6. PeopleAgree
  BY <1>2 DEF PeopleAgree, None
<1>7. Counted
  BY <1>3, <1>4, Amounts DEF Init, Counted
<1>8. Covered
  BY Amounts DEF Init, Covered
<1>9. Stages
  BY <1>3, Amounts DEF Init, Stages
<1>10. RefundsAgree
  BY <1>2, <1>3, SetupTyped DEF Init, RefundsAgree, SoldThen, RaisedThen, NotRefunded
<1> QED
  BY <1>1, <1>5, <1>6, <1>7, <1>8, <1>9, <1>10 DEF MoneyInv

(* Steps that leave the counters and the positions.                        *)
LEMMA MoneyStands ==
    ASSUME MoneyInv, IInv', AccountsTyped',
           UNCHANGED <<status, reserves, people, delivered, coins, refunds>>, auth' >= auth
    PROVE  MoneyInv'
<1>1. /\ Open' = Open /\ BalanceOf' = BalanceOf /\ DepositOf' = DepositOf
      /\ TokensBack' = TokensBack /\ XntBack' = XntBack
  BY DEF Open, BalanceOf, DepositOf, TokensBack, XntBack, people
<1>2. PeopleAgree'
  BY DEF MoneyInv, PeopleAgree, people
<1>3. Counted'
  BY <1>1 DEF MoneyInv, Counted, reserves, people
<1>4. Covered'
  <2>1. /\ auth \in Int /\ auth' \in Int /\ raised_xnt \in Int /\ positions * AccountRent \in Int
        /\ MinRent \in Int /\ GRADUATION_DEPOSIT \in Int
    BY Amounts, OpenCount DEF MoneyInv, IInv, TypeInv, AccountsTyped, Counted
  <2> DEFINE r == positions * AccountRent
  <2>2. r' = r /\ r \in Int
    BY <2>1 DEF people
  <2> HIDE DEF r
  <2> QED
    BY <2>1, <2>2 DEF MoneyInv, Covered, reserves, people, r
<1>5. Stages'
  BY DEF MoneyInv, Stages, reserves, coins
<1>6. RefundsAgree'
  BY <1>1 DEF MoneyInv, RefundsAgree, SoldThen, RaisedThen, reserves
<1> QED
  BY <1>2, <1>3, <1>4, <1>5, <1>6 DEF MoneyInv

(* The clock, the upgrade, gifts, and the clock of the burn.               *)
LEMMA WaitingKeeps ==
    ASSUME MoneyInv, Tick \/ Upgrade \/ Gift \/ UNCHANGED vars
    PROVE  MoneyInv'
<1>1. IInv'
  BY NextInv DEF MoneyInv, Next
<1>2. CASE Tick
  <2>1. AccountsTyped'
    BY <1>2 DEF Tick, MoneyInv, AccountsTyped, IInv, TypeInv, coins, history
  <2> QED
    BY <1>1, <1>2, <2>1, MoneyStands DEF Tick, MoneyInv, AccountsTyped, history
<1>3. CASE Upgrade
  <2>1. AccountsTyped'
    BY <1>3 DEF Upgrade, MoneyInv, AccountsTyped, IInv, TypeInv, coins, history
  <2> QED
    BY <1>1, <1>3, <2>1, MoneyStands DEF Upgrade, MoneyInv, AccountsTyped, history
<1>4. CASE Gift
  <2> PICK amount \in Donations : Donate(amount)
    BY <1>4 DEF Gift
  <2>1. amount \in Nat
    BY CurveAssumption
  <2>2. auth' = auth + amount /\ donated' = donated + amount
    BY DEF Donate
  <2>3. AccountsTyped'
    BY <2>1, <2>2 DEF Donate, MoneyInv, AccountsTyped, IInv, TypeInv, coins, history
  <2> QED
    BY <1>1, <2>1, <2>2, <2>3, MoneyStands DEF Donate, MoneyInv, AccountsTyped, history
<1>5. CASE UNCHANGED vars
  <2>1. AccountsTyped'
    BY <1>5 DEF vars, MoneyInv, AccountsTyped, IInv, TypeInv, coins, history, outside
  <2> QED
    BY <1>1, <1>5, <2>1, MoneyStands DEF vars, MoneyInv, AccountsTyped, history
<1> QED
  BY <1>2, <1>3, <1>4, <1>5

(* Steps of graduating move auth's lamports, the LP and the supply.        *)
LEMMA GraduatingKeeps ==
    ASSUME MoneyInv, GraduatePool \/ GraduateLock \/ StartBurnClock \/ GraduateBurn
    PROVE  MoneyInv'
<1>1. IInv'
  BY NextInv DEF MoneyInv, Next
<1>2. UNCHANGED <<reserves, people, mintable, tokens, refunds, donated, now>>
  BY DEF GraduatePool, GraduateLock, StartBurnClock, GraduateBurn, outside, history, coins
<1>3. /\ Open' = Open /\ BalanceOf' = BalanceOf /\ DepositOf' = DepositOf
      /\ TokensBack' = TokensBack /\ XntBack' = XntBack
  BY <1>2 DEF Open, BalanceOf, DepositOf, TokensBack, XntBack, people
<1>4. PeopleAgree'
  BY <1>2 DEF MoneyInv, PeopleAgree, people
<1>5. positions \in Nat /\ auth \in Nat /\ minted \in Nat /\ tokens_sold \in Nat
  BY OpenCount DEF MoneyInv, Counted, AccountsTyped, IInv, TypeInv
<1> DEFINE r == positions * AccountRent
<1>6. r \in Nat /\ r' = r /\ Reserve(positions) = r + MinRent
  BY <1>2, <1>5, Amounts DEF Reserve, people
<1> HIDE DEF r
<1>7. CASE GraduatePool
  <2>1. /\ status = "Complete" /\ status' = "PoolCreated" /\ auth' = auth - Target - PoolCost
        /\ auth' >= r + MinRent /\ minted' = minted + PoolGross /\ lp' = "auth"
    BY <1>6, <1>7 DEF GraduatePool
  <2>2. AccountsTyped'
    <3>1. auth' \in Nat /\ minted' \in Nat
      BY <1>5, <1>6, <2>1, Amounts
    <3> QED
      BY <1>2, <2>1, <3>1 DEF MoneyInv, AccountsTyped
  <2>3. Counted'
    BY <1>2, <1>3, <2>1 DEF MoneyInv, Counted, reserves, people
  <2>4. Covered'
    BY <1>6, <2>1 DEF Covered, r
  <2>5. Stages'
    BY <1>2, <2>1, Amounts DEF MoneyInv, Stages, reserves
  <2>6. RefundsAgree'
    BY <1>2, <1>3, <2>1 DEF MoneyInv, RefundsAgree, SoldThen, RaisedThen, reserves
  <2> QED
    BY <1>1, <1>4, <2>2, <2>3, <2>4, <2>5, <2>6 DEF MoneyInv
<1>8. CASE GraduateLock \/ GraduateBurn
  <2>1. /\ status = "PoolCreated" /\ status' = "Graduated" /\ delivered' = 0 /\ minted' = minted
        /\ auth' \in Int /\ auth' >= r + MinRent /\ lp' \in {"locked", "burned"}
    BY <1>5, <1>6, <1>8, Amounts DEF GraduateLock, GraduateBurn
  <2>2. AccountsTyped'
    <3>1. auth' \in Nat
      BY <1>6, <2>1, Amounts
    <3> QED
      BY <1>2, <2>1, <3>1 DEF MoneyInv, AccountsTyped
  <2>3. FSum(BalanceOf, Traders) = CurveTokens
    BY <2>1 DEF MoneyInv, Counted, Stages
  <2>4. Counted'
    BY <1>2, <1>3, <2>1, <2>3, Amounts DEF MoneyInv, Counted, reserves, people
  <2>5. Covered'
    BY <1>6, <2>1 DEF Covered, r
  <2>6. Stages'
    BY <1>2, <2>1, Amounts DEF MoneyInv, Stages, reserves
  <2>7. RefundsAgree'
    BY <1>2, <1>3, <2>1 DEF MoneyInv, RefundsAgree, SoldThen, RaisedThen, reserves
  <2> QED
    BY <1>1, <1>4, <2>2, <2>4, <2>5, <2>6, <2>7 DEF MoneyInv
<1>9. CASE StartBurnClock
  <2>1. status = "PoolCreated" /\ UNCHANGED <<status, auth, coins>>
    BY <1>9 DEF StartBurnClock
  <2>2. AccountsTyped'
    BY <1>2, <2>1 DEF MoneyInv, AccountsTyped, coins
  <2>3. Counted'
    BY <1>2, <1>3, <2>1 DEF MoneyInv, Counted, reserves, people
  <2>4. Covered'
    BY <1>6, <2>1 DEF MoneyInv, Covered, r
  <2>5. Stages'
    BY <1>2, <2>1 DEF MoneyInv, Stages, reserves, coins
  <2>6. RefundsAgree'
    BY <1>2, <1>3, <2>1 DEF MoneyInv, RefundsAgree, SoldThen, RaisedThen, reserves
  <2> QED
    BY <1>1, <1>4, <2>2, <2>3, <2>4, <2>5, <2>6 DEF MoneyInv
<1> QED
  BY <1>7, <1>8, <1>9

(* Before any refund what was sold and raised is what is on the counters.  *)
LEMMA NothingBack ==
    ASSUME MoneyInv, status \notin {"Refunding", "Closed"}
    PROVE  FSum(TokensBack, Traders) = 0 /\ FSum(XntBack, Traders) = 0
<1> DEFINE t == TokensBack
           x == XntBack
<1>1. \A w \in Traders : t[w] = 0 /\ x[w] = 0
  BY DEF MoneyInv, RefundsAgree, TokensBack, XntBack, NotRefunded
<1> HIDE DEF t, x
<1>2. FSum(t, Traders) = 0 /\ FSum(x, Traders) = 0
  BY <1>1, Amounts, SumZero
<1> QED
  BY <1>2 DEF t, x

(* Products of naturals.                                                   *)
LEMMA ProductNat ==
    ASSUME NEW a \in Nat, NEW b \in Nat
    PROVE  a * b \in Nat
  OBVIOUS

(* Nothing added.                                                          *)
LEMMA PlusZero ==
    ASSUME NEW a \in Int, NEW t, t = 0
    PROVE  a + t = a
  OBVIOUS

(* What is at least a sum of naturals is one.                              *)
LEMMA NotBelow ==
    ASSUME NEW a \in Int, NEW b \in Nat, NEW c \in Nat, NEW d \in Nat, a >= b + c + d
    PROVE  a \in Nat
  OBVIOUS

(* A whole multiple divides exactly.                                       *)
LEMMA CeilDivExact ==
    ASSUME NEW a \in Nat, NEW b \in Nat \ {0}
    PROVE  CeilDiv(a * b, b) = a
<1> DEFINE n == a * b + b - 1
           d == n \div b
<1>1. a * b \in Nat /\ n \in Int
  OBVIOUS
<1>2. d \in Int /\ d * b <= n /\ n < (d + 1) * b
  BY <1>1, DivBounds
<1>3. d = CeilDiv(a * b, b)
  BY DEF CeilDiv
<1> HIDE DEF d
<1>4. n < (a + 1) * b /\ a * b <= n
  BY <1>1
<1>5. d < a + 1
  <2>1. d * b < (a + 1) * b
    BY <1>1, <1>2, <1>4
  <2>2. ASSUME d >= a + 1 PROVE (a + 1) * b <= d * b
    BY <1>2, <2>2
  <2>3. d * b \in Int /\ (a + 1) * b \in Int
    BY <1>2
  <2> QED
    BY <1>2, <2>1, <2>2, <2>3
<1>6. a < d + 1
  <2>1. a * b < (d + 1) * b
    BY <1>1, <1>2, <1>4
  <2>2. ASSUME a >= d + 1 PROVE (d + 1) * b <= a * b
    BY <1>2, <2>2
  <2>3. a * b \in Int /\ (d + 1) * b \in Int
    BY <1>2
  <2> QED
    BY <1>2, <2>1, <2>2, <2>3
<1> QED
  BY <1>2, <1>3, <1>5, <1>6

(* A purchase: a first one puts a rent down.                               *)
LEMMA BuyKeeps ==
    ASSUME MoneyInv, NEW w \in Traders, NEW n \in XntIn, Buy(w, n)
    PROVE  MoneyInv'
<1> DEFINE q == BuyQuote(n)
           deposit == IF ~position[w].open THEN AccountRent ELSE 0
           p == [open |-> TRUE, balance |-> position[w].balance + q.out,
                 deposit |-> position[w].deposit + deposit]
<1>1. IInv /\ IInv'
  BY BuyInv DEF MoneyInv
<1>2. status = "Trading" /\ n \in Nat
  BY CurveAssumption DEF Buy
<1>3. /\ q.net \in Nat /\ q.out \in Nat /\ q.out <= CurveTokens - tokens_sold
      /\ q.complete => q.out = CurveTokens - tokens_sold
  <2>1. q.complete => q.out = CurveTokens - tokens_sold
    BY DEF BuyQuote
  <2> QED
    BY <1>1, <1>2, <2>1, BuyQuoteSound
<1> HIDE DEF q
<1>4. /\ tokens_sold' = tokens_sold + q.out /\ raised_xnt' = raised_xnt + q.net /\ q.out > 0
      /\ status' = (IF q.complete THEN "Complete" ELSE "Trading")
      /\ position' = [position EXCEPT ![w] = p]
      /\ positions' = positions + (IF ~position[w].open THEN 1 ELSE 0)
      /\ auth' = auth + q.net + deposit
      /\ UNCHANGED <<coins, outside, refunds>>
  BY DEF Buy, q
<1>5. /\ position[w] \in [open : BOOLEAN, balance : Nat, deposit : Nat]
      /\ position[w].deposit = (IF position[w].open THEN AccountRent ELSE 0)
      /\ position[w].balance \in Nat
  BY <1>1 DEF IInv, TypeInv, MoneyInv, PeopleAgree
<1>6. p.deposit = AccountRent /\ p \in [open : BOOLEAN, balance : Nat, deposit : Nat]
  BY <1>3, <1>5, Amounts
<1>7. /\ FSum(BalanceOf', Traders) = FSum(BalanceOf, Traders) + (p.balance - position[w].balance)
      /\ FSum(DepositOf', Traders) = FSum(DepositOf, Traders) + (p.deposit - position[w].deposit)
      /\ position[w].open => Open' = Open
      /\ ~position[w].open => w \notin Open /\ Open' = Open \cup {w}
  BY <1>1, <1>4, <1>6, PositionChanges
<1>8. p.balance - position[w].balance = q.out /\ p.deposit - position[w].deposit = deposit
  BY <1>3, <1>5, Amounts
<1>9. /\ positions \in Nat /\ auth \in Nat /\ tokens_sold \in Nat /\ raised_xnt \in Nat
      /\ FSum(BalanceOf, Traders) \in Nat /\ FSum(DepositOf, Traders) \in Nat
  BY <1>1, OpenCount, BalanceIsPart DEF MoneyInv, Counted, AccountsTyped, IInv, TypeInv
<1>10. positions' = Cardinality(Open') /\ positions' * AccountRent = positions * AccountRent + deposit
  <2>1. CASE position[w].open
    BY <1>4, <1>7, <1>9, <2>1, Amounts DEF MoneyInv, Counted
  <2>2. CASE ~position[w].open
    <3>1. positions' = positions + 1 /\ (positions + 1) * AccountRent = positions * AccountRent + AccountRent
      BY <1>4, <1>9, <2>2, Amounts
    <3> QED
      BY <1>7, <2>2, <3>1, OpenCount DEF MoneyInv, Counted
  <2> QED
    BY <2>1, <2>2
<1>11. deposit \in Nat
  BY Amounts
<1> HIDE DEF deposit
<1>12. AccountsTyped'
  BY <1>3, <1>4, <1>9, <1>11 DEF MoneyInv, AccountsTyped, coins, outside
<1>13. PeopleAgree'
  <2>1. \A v \in Traders : position'[v] = IF v = w THEN p ELSE position[v]
    BY <1>1, <1>4 DEF IInv, TypeInv
  <2>2. p.open
    OBVIOUS
  <2>3. refunds' = refunds /\ \A v \in Traders : refunds[v] = NotRefunded
    BY <1>2, <1>4 DEF MoneyInv, RefundsAgree
  <2> HIDE DEF p
  <2> QED
    BY <1>6, <2>1, <2>2, <2>3 DEF MoneyInv, PeopleAgree, NotRefunded
<1> HIDE DEF p
<1>14. Counted'
  <2>1. status' \in {"Trading", "Complete"}
    BY <1>4
  <2>2. FSum(BalanceOf', Traders) = tokens_sold'
    BY <1>2, <1>4, <1>7, <1>8 DEF MoneyInv, Counted
  <2>3. FSum(DepositOf', Traders) = positions' * AccountRent
    BY <1>7, <1>8, <1>10 DEF MoneyInv, Counted
  <2> QED
    BY <1>10, <2>1, <2>2, <2>3 DEF Counted
<1>15. Covered'
  <2> DEFINE r == positions * AccountRent
  <2>1. r \in Nat
    BY <1>9, Amounts
  <2> HIDE DEF r
  <2>2. auth >= GRADUATION_DEPOSIT + raised_xnt + r
    BY <1>2 DEF MoneyInv, Covered, r
  <2>3. auth' >= GRADUATION_DEPOSIT + raised_xnt' + (r + deposit)
    BY <1>3, <1>4, <1>9, <1>11, <2>1, <2>2, Amounts
  <2>4. auth' >= GRADUATION_DEPOSIT + raised_xnt' + positions' * AccountRent
    BY <1>10, <2>3 DEF r
  <2>5. status' \in {"Trading", "Complete"}
    BY <1>4
  <2> QED
    BY <2>4, <2>5 DEF Covered
<1>16. Stages'
  <2>1. q.complete => tokens_sold' = CurveTokens
    BY <1>3, <1>4, <1>9, Amounts
  <2> QED
    BY <1>2, <1>4, <2>1 DEF MoneyInv, Stages, coins
<1>17. RefundsAgree'
  <2>1. TokensBack' = TokensBack /\ XntBack' = XntBack
    BY <1>4 DEF TokensBack, XntBack
  <2>2. SoldThen' = tokens_sold' /\ RaisedThen' = raised_xnt'
    <3> DEFINE t == FSum(TokensBack', Traders)
               x == FSum(XntBack', Traders)
    <3>1. SoldThen' = tokens_sold' + t /\ RaisedThen' = raised_xnt' + x
      BY DEF SoldThen, RaisedThen
    <3>2. t = 0 /\ x = 0
      BY <1>2, <2>1, NothingBack
    <3> HIDE DEF t, x
    <3>3. tokens_sold' \in Int /\ raised_xnt' \in Int
      BY <1>1 DEF IInv, TypeInv
    <3>4. tokens_sold' + t = tokens_sold' /\ raised_xnt' + x = raised_xnt'
      BY <3>2, <3>3, PlusZero
    <3> QED
      BY <3>1, <3>4
  <2>3. tokens_sold' > 0 /\ tokens_sold' \in Nat /\ raised_xnt' \in Nat
    BY <1>3, <1>4, <1>9
  <2>4. raised_xnt' * tokens_sold' \in Nat
    BY <2>3, ProductNat
  <2>5. \A v \in Traders : refunds'[v] = NotRefunded /\ refunds'[v].tokens = 0
    BY <1>2, <1>4 DEF MoneyInv, RefundsAgree, NotRefunded
  <2>6. raised_xnt' * SoldThen' >= RaisedThen' * tokens_sold'
    BY <2>2, <2>4
  <2>7. NotRefunded' = NotRefunded
    BY DEF NotRefunded
  <2>8. status' \in {"Trading", "Complete"}
    BY <1>4
  <2> QED
    BY <2>3, <2>5, <2>6, <2>7, <2>8 DEF RefundsAgree
<1> QED
  BY <1>1, <1>12, <1>13, <1>14, <1>15, <1>16, <1>17 DEF MoneyInv

(* A sale: when nothing is sold any more, nothing is raised any more.      *)
LEMMA SellKeeps ==
    ASSUME MoneyInv, NEW w \in Traders, NEW n \in TokensIn \cup {position[w].balance}, Sell(w, n)
    PROVE  MoneyInv'
<1> DEFINE q == SellQuote(n)
           p == [position[w] EXCEPT !.balance = position[w].balance - n]
<1>1. IInv /\ IInv'
  BY SellInv DEF MoneyInv
<1>2. status = "Trading" /\ n \in Nat /\ position[w].balance >= n
  BY <1>1, CurveAssumption DEF Sell, IInv, TypeInv
<1>3. q.x = CeilDiv(K0, virtual_tokens + n) /\ q.x \in Nat /\ q.gross = virtual_xnt - q.x
  <2>1. q.x = CeilDiv(k0, virtual_tokens + n)
    BY DEF SellQuote
  <2> HIDE DEF q
  <2> QED
    BY <1>1, <1>2, <2>1, CountersGiveK0, SellQuoteSound DEF q
<1> HIDE DEF q
<1>4. /\ tokens_sold' = tokens_sold - n /\ raised_xnt' = raised_xnt - q.gross
      /\ virtual_xnt' = q.x /\ virtual_tokens' = virtual_tokens + n
      /\ q.gross \in Int /\ q.gross <= raised_xnt /\ n <= tokens_sold
      /\ position' = [position EXCEPT ![w] = p]
      /\ auth' = auth - q.gross
      /\ UNCHANGED <<status, positions, coins, outside, refunds>>
  BY <1>1, <1>3 DEF Sell, q, history, IInv, TypeInv
<1>5. /\ position[w] \in [open : BOOLEAN, balance : Nat, deposit : Nat]
      /\ position[w].balance \in Nat /\ position[w].deposit \in Nat
      /\ position[w].open \in BOOLEAN /\ (~position[w].open => position[w].balance = 0)
      /\ position[w].deposit = (IF position[w].open THEN AccountRent ELSE 0)
  BY <1>1 DEF IInv, TypeInv, MoneyInv, PeopleAgree
<1>6. /\ p \in [open : BOOLEAN, balance : Nat, deposit : Nat]
      /\ p.open = position[w].open /\ p.deposit = position[w].deposit
      /\ p.balance = position[w].balance - n
  BY <1>2, <1>5
<1>7. position[w].open
  <2>1. n > 0
    BY DEF Sell
  <2> QED
    BY <1>2, <1>5, <2>1
<1> HIDE DEF p
<1>8. /\ FSum(BalanceOf', Traders) = FSum(BalanceOf, Traders) + (p.balance - position[w].balance)
      /\ FSum(DepositOf', Traders) = FSum(DepositOf, Traders) + (p.deposit - position[w].deposit)
      /\ Open' = Open
  BY <1>1, <1>4, <1>6, <1>7, PositionChanges
<1>9. /\ positions \in Nat /\ auth \in Nat /\ tokens_sold \in Nat /\ raised_xnt \in Nat
      /\ FSum(BalanceOf, Traders) \in Nat /\ FSum(DepositOf, Traders) \in Nat
  BY <1>1, OpenCount, BalanceIsPart DEF MoneyInv, Counted, AccountsTyped, IInv, TypeInv
<1>10. /\ FSum(BalanceOf', Traders) = FSum(BalanceOf, Traders) - n
       /\ FSum(DepositOf', Traders) = FSum(DepositOf, Traders)
  BY <1>2, <1>5, <1>6, <1>8, <1>9
<1> DEFINE r == positions * AccountRent
<1>11. r \in Nat /\ r' = r /\ auth >= GRADUATION_DEPOSIT + raised_xnt + r
  BY <1>2, <1>4, <1>9, Amounts DEF MoneyInv, Covered
<1> HIDE DEF r
<1>12. auth' \in Int /\ auth' >= GRADUATION_DEPOSIT + raised_xnt' + r
  BY <1>4, <1>9, <1>11, Amounts
<1>13. AccountsTyped'
  <2>1. raised_xnt' \in Nat
    BY <1>1 DEF IInv, TypeInv
  <2>2. auth' \in Nat
    <3>1. r \in Nat /\ GRADUATION_DEPOSIT \in Nat
      BY <1>11, Amounts
    <3> QED
      BY <1>12, <2>1, <3>1, NotBelow
  <2> QED
    BY <1>4, <2>2 DEF MoneyInv, AccountsTyped, coins, outside
<1>14. PeopleAgree'
  <2>1. \A v \in Traders : position'[v] = IF v = w THEN p ELSE position[v]
    BY <1>1, <1>4 DEF IInv, TypeInv
  <2>2. refunds' = refunds /\ \A v \in Traders : refunds[v] = NotRefunded
    BY <1>2, <1>4 DEF MoneyInv, RefundsAgree
  <2> QED
    BY <1>5, <1>6, <1>7, <2>1, <2>2 DEF MoneyInv, PeopleAgree, NotRefunded
<1>15. Counted'
  BY <1>2, <1>4, <1>8, <1>10, Amounts DEF MoneyInv, Counted
<1>16. Covered'
  BY <1>2, <1>4, <1>11, <1>12 DEF Covered, r
<1>17. Stages'
  BY <1>2, <1>4 DEF MoneyInv, Stages, coins
<1>18. RefundsAgree'
  <2>1. TokensBack' = TokensBack /\ XntBack' = XntBack
    BY <1>4 DEF TokensBack, XntBack
  <2>2. SoldThen' = tokens_sold' /\ RaisedThen' = raised_xnt'
    <3> DEFINE t == FSum(TokensBack', Traders)
               x == FSum(XntBack', Traders)
    <3>1. SoldThen' = tokens_sold' + t /\ RaisedThen' = raised_xnt' + x
      BY DEF SoldThen, RaisedThen
    <3>2. t = 0 /\ x = 0
      BY <1>2, <2>1, NothingBack
    <3> HIDE DEF t, x
    <3>3. tokens_sold' \in Int /\ raised_xnt' \in Int
      BY <1>1 DEF IInv, TypeInv
    <3>4. tokens_sold' + t = tokens_sold' /\ raised_xnt' + x = raised_xnt'
      BY <3>2, <3>3, PlusZero
    <3> QED
      BY <3>1, <3>4
  <2>3. tokens_sold' \in Nat /\ raised_xnt' \in Nat
    BY <1>1 DEF IInv, TypeInv
  <2>4. raised_xnt' * tokens_sold' \in Nat
    BY <2>3, ProductNat
  <2>5. \A v \in Traders : refunds'[v] = NotRefunded /\ refunds'[v].tokens = 0
    BY <1>2, <1>4 DEF MoneyInv, RefundsAgree, NotRefunded
  <2>6. raised_xnt' * SoldThen' >= RaisedThen' * tokens_sold'
    BY <2>2, <2>4
  <2>7. tokens_sold' = 0 => raised_xnt' = 0
    <3> SUFFICES ASSUME tokens_sold' = 0 PROVE raised_xnt' = 0
      OBVIOUS
    <3>1. /\ virtual_tokens \in Nat /\ virtual_xnt \in Nat /\ virtual_tokens + tokens_sold = Y0
          /\ virtual_xnt - raised_xnt = X0
      BY <1>1, <1>2 DEF IInv, TypeInv, ReservesHold
    <3>2. virtual_tokens + n = Y0
      BY <1>2, <1>4, <1>9, <3>1
    <3>3. Y0 \in Nat \ {0} /\ X0 \in Nat
      BY SetupTyped
    <3>4. q.x = X0
      BY <1>3, <3>2, <3>3, CeilDivExact DEF K0
    <3> QED
      BY <1>3, <1>4, <1>9, <3>1, <3>3, <3>4
  <2>8. NotRefunded' = NotRefunded
    BY DEF NotRefunded
  <2> QED
    BY <1>2, <1>4, <2>5, <2>6, <2>7, <2>8 DEF RefundsAgree
<1> QED
  BY <1>1, <1>13, <1>14, <1>15, <1>16, <1>17, <1>18 DEF MoneyInv

(* close_curve: there is nothing to refund but deposits.                   *)
LEMMA CloseCurveKeeps ==
    ASSUME MoneyInv, CloseCurve
    PROVE  MoneyInv'
<1>1. IInv'
  BY NextInv DEF MoneyInv, Next
<1>2. /\ status = "Trading" /\ tokens_sold = 0 /\ UNCHANGED <<reserves, people, coins, outside, refunds>>
      /\ status' = (IF positions > 0 THEN "Refunding" ELSE "Closed")
      /\ auth' = (IF positions > 0 THEN auth ELSE 0)
  BY DEF CloseCurve, history
<1>3. /\ Open' = Open /\ BalanceOf' = BalanceOf /\ DepositOf' = DepositOf
      /\ TokensBack' = TokensBack /\ XntBack' = XntBack
  BY <1>2 DEF Open, BalanceOf, DepositOf, TokensBack, XntBack, people
<1>4. positions \in Nat /\ auth \in Nat
  BY OpenCount DEF MoneyInv, Counted, AccountsTyped
<1>5. AccountsTyped'
  BY <1>2, <1>4 DEF MoneyInv, AccountsTyped, coins, outside
<1>6. PeopleAgree'
  BY <1>2 DEF MoneyInv, PeopleAgree, people
<1>7. Counted'
  BY <1>2, <1>3 DEF MoneyInv, Counted, reserves, people
<1>8. Covered'
  <2> DEFINE r == positions * AccountRent
  <2>1. r' = r
    BY <1>2 DEF people
  <2> HIDE DEF r
  <2> QED
    BY <1>2, <1>4, <2>1 DEF MoneyInv, Covered, reserves, people, r
<1>9. Stages'
  BY <1>2 DEF MoneyInv, Stages, coins
<1>10. RefundsAgree'
  BY <1>2, <1>3 DEF MoneyInv, RefundsAgree, SoldThen, RaisedThen, reserves
<1> QED
  BY <1>1, <1>5, <1>6, <1>7, <1>8, <1>9, <1>10 DEF MoneyInv

(* A delivery: tokens leave the position for the wallet, minted.           *)
LEMMA DeliverKeeps ==
    ASSUME MoneyInv, NEW w \in Traders, NEW cost \in {0, AccountRent}, Deliver(w, cost)
    PROVE  MoneyInv'
<1> DEFINE b == position[w].balance
           last == positions = 1
<1>1. IInv /\ IInv'
  BY DeliverInv DEF MoneyInv
<1>2. /\ position[w] \in [open : BOOLEAN, balance : Nat, deposit : Nat]
      /\ b \in Nat /\ position[w].open /\ position[w].deposit = AccountRent
  BY <1>1 DEF IInv, TypeInv, MoneyInv, PeopleAgree, Deliver
<1>3. Floored(position[w].deposit - cost) + cost = AccountRent /\ Floored(position[w].deposit - cost) \in Int
  BY <1>2, Amounts DEF Floored
<1>4. /\ status = "Graduated" /\ status' = (IF last THEN "Finished" ELSE "Graduated")
      /\ auth - cost - Floored(position[w].deposit - cost) >= 0
      /\ last => delivered + b = CurveTokens
      /\ minted' = minted + b
      /\ tokens' = [tokens EXCEPT ![w] = tokens[w] + b]
      /\ position' = [position EXCEPT ![w] = None]
      /\ positions' = positions - 1
      /\ delivered' = delivered + b
      /\ mintable' = ~last
      /\ auth' = (IF last THEN 0 ELSE auth - cost - Floored(position[w].deposit - cost))
      /\ UNCHANGED <<reserves, lp, outside, refunds>>
  BY DEF Deliver, history
<1>5. /\ positions \in Nat /\ auth \in Nat /\ tokens_sold \in Nat /\ delivered \in Nat /\ minted \in Nat
      /\ tokens \in [Traders -> Nat]
      /\ FSum(BalanceOf, Traders) \in Nat /\ FSum(DepositOf, Traders) \in Nat
  BY <1>1, OpenCount, BalanceIsPart DEF MoneyInv, Counted, AccountsTyped, IInv, TypeInv
<1>6. auth - cost - Floored(position[w].deposit - cost) = auth - AccountRent
  BY <1>3, <1>5, Amounts
<1>7. None \in [open : BOOLEAN, balance : Nat, deposit : Nat] /\ ~None.open
      /\ None.balance = 0 /\ None.deposit = 0
  BY DEF None
<1>8. /\ FSum(BalanceOf', Traders) = FSum(BalanceOf, Traders) + (None.balance - position[w].balance)
      /\ FSum(DepositOf', Traders) = FSum(DepositOf, Traders) + (None.deposit - position[w].deposit)
      /\ w \in Open /\ Open' = Open \ {w}
  BY <1>1, <1>2, <1>4, <1>7, PositionChanges
<1>9. positions' = Cardinality(Open') /\ positions >= 1
  BY <1>4, <1>8, OpenCount DEF MoneyInv, Counted
<1> DEFINE r == positions * AccountRent
           rNew == positions' * AccountRent
<1>10. r \in Nat /\ rNew = r - AccountRent /\ rNew \in Nat
  <2>1. (positions - 1) * AccountRent = positions * AccountRent - AccountRent
    BY <1>5, Amounts
  <2>2. positions * AccountRent \in Nat /\ (positions - 1) * AccountRent \in Nat
    BY <1>5, <1>9, Amounts
  <2> QED
    BY <1>4, <2>1, <2>2
<1>11. FSum(DepositOf, Traders) = r
  BY DEF MoneyInv, Counted
<1> HIDE DEF b
<1>12. FSum(tokens', Traders) = FSum(tokens, Traders) + b
  <2> DEFINE t == tokens
             tNew == tokens'
  <2>1. /\ \A v \in Traders : t[v] \in Int
        /\ tNew[w] = t[w] + b /\ b \in Int
        /\ \A v \in Traders \ {w} : tNew[v] = t[v]
    BY <1>2, <1>4, <1>5
  <2> HIDE DEF t, tNew
  <2>2. FSum(tNew, Traders) = FSum(t, Traders) + b
    BY <2>1, Amounts, SumGrows
  <2> QED
    BY <2>2 DEF t, tNew
<1> HIDE DEF r, rNew
<1>13. AccountsTyped'
  <2>1. auth' \in Nat /\ minted' \in Nat /\ tokens' \in [Traders -> Nat]
    BY <1>2, <1>4, <1>5, <1>6, Amounts
  <2> QED
    BY <1>4, <2>1 DEF MoneyInv, AccountsTyped, outside
<1>14. PeopleAgree'
  <2>1. \A v \in Traders : position'[v] = IF v = w THEN None ELSE position[v]
    BY <1>1, <1>4 DEF IInv, TypeInv
  <2> QED
    BY <1>4, <1>7, <2>1 DEF MoneyInv, PeopleAgree, NotRefunded
<1>15. Counted'
  <2>1. FSum(DepositOf', Traders) = positions' * AccountRent
    BY <1>2, <1>7, <1>8, <1>10, <1>11, Amounts DEF rNew
  <2>2. delivered' + FSum(BalanceOf', Traders) = CurveTokens
    <3>1. FSum(BalanceOf', Traders) = FSum(BalanceOf, Traders) - b
      BY <1>2, <1>5, <1>7, <1>8 DEF b
    <3>2. delivered + FSum(BalanceOf, Traders) = CurveTokens
      BY <1>4 DEF MoneyInv, Counted
    <3> QED
      BY <1>2, <1>4, <1>5, <3>1, <3>2
  <2>3. status' \in {"Graduated", "Finished"}
    BY <1>4
  <2> QED
    BY <1>9, <2>1, <2>2, <2>3 DEF Counted
<1>16. Covered'
  <2>1. auth >= r + MinRent
    BY <1>4 DEF MoneyInv, Covered, r
  <2>2. CASE last
    BY <1>4, <2>2 DEF Covered
  <2>3. CASE ~last
    <3>1. auth' >= rNew + MinRent
      BY <1>4, <1>5, <1>6, <1>10, <2>1, <2>3, Amounts
    <3> QED
      BY <1>4, <2>3, <3>1 DEF Covered, rNew
  <2> QED
    BY <2>2, <2>3
<1>17. Stages'
  <2>1. minted = PoolGross + delivered /\ FSum(tokens, Traders) = delivered
    BY <1>4 DEF MoneyInv, Stages
  <2>2. minted' = PoolGross + delivered' /\ FSum(tokens', Traders) = delivered'
    BY <1>2, <1>4, <1>5, <1>12, <2>1, Amounts
  <2>3. CASE last
    BY <1>4, <2>2, <2>3 DEF Stages
  <2>4. CASE ~last
    BY <1>4, <2>2, <2>4 DEF Stages
  <2> QED
    BY <2>3, <2>4
<1>18. RefundsAgree'
  <2>1. TokensBack' = TokensBack /\ XntBack' = XntBack
    BY <1>4 DEF TokensBack, XntBack
  <2> QED
    BY <1>4, <2>1 DEF MoneyInv, RefundsAgree, SoldThen, RaisedThen, reserves, NotRefunded
<1> QED
  BY <1>1, <1>13, <1>14, <1>15, <1>16, <1>17, <1>18 DEF MoneyInv

(* Products keep an order, and a common factor cancels.                    *)
LEMMA TimesKeeps ==
    ASSUME NEW a \in Int, NEW b \in Int, NEW c \in Nat, a <= b
    PROVE  a * c \in Int /\ b * c \in Int /\ a * c <= b * c
  OBVIOUS

LEMMA TimesCancels ==
    ASSUME NEW a \in Int, NEW b \in Int, NEW c \in Nat \ {0}
    PROVE  (a * c <= b * c => a <= b) /\ (a * c < b * c => a < b)
  OBVIOUS

(* A share of x for b of t, rounded down, where x for t is worth at least  *)
(* r for s: it is worth at least r for s but for rounding, and so is what  *)
(* it leaves.                                                              *)
LEMMA ShareIsFair ==
    ASSUME NEW x \in Nat, NEW t \in Nat, NEW r \in Nat, NEW s \in Nat, NEW b \in Nat,
           b < t, x * s >= r * t,
           NEW share, share = (x * b) \div t
    PROVE  /\ share \in Nat /\ share <= x
           /\ (x - share) * s >= r * (t - b)
           /\ (share + 1) * s >= r * b /\ (s > 0 => (share + 1) * s > r * b)
<1>1. x * b \in Nat /\ t \in Nat \ {0} /\ x * t \in Nat
  BY ProductNat
<1>2. share \in Nat /\ share * t <= x * b /\ x * b < (share + 1) * t
  <2> DEFINE n == x * b
  <2>1. n \in Int /\ n >= 0
    BY <1>1
  <2> HIDE DEF n
  <2>2. n \div t \in Int /\ n \div t >= 0 /\ (n \div t) * t <= n /\ n < (n \div t + 1) * t
    BY <1>1, <2>1, DivBounds
  <2> QED
    BY <2>2 DEF n
<1>3. share <= x
  <2>1. x * b <= x * t
    BY <1>1
  <2>2. share * t <= x * t
    BY <1>1, <1>2, <2>1
  <2> QED
    BY <1>1, <1>2, <2>2, TimesCancels
<1>4. (x - share) * s >= r * (t - b)
  <2>1. t - b \in Nat /\ x - share \in Nat
    BY <1>2, <1>3
  <2> DEFINE left == x - share
             rest == t - b
  <2>2. x * rest <= left * t
    <3>1. x * rest = x * t - x * b /\ left * t = x * t - share * t
      BY <1>2
    <3> QED
      BY <1>1, <1>2, <3>1
  <2>3. left \in Nat /\ rest \in Nat
    BY <2>1
  <2> HIDE DEF left, rest
  <2>4. (x * rest) * s <= (left * t) * s
    <3>1. x * rest \in Int /\ left * t \in Int
      BY <2>3
    <3> QED
      BY <2>2, <3>1, TimesKeeps
  <2>5. (r * t) * rest <= (x * s) * rest
    <3>1. r * t \in Int /\ x * s \in Int
      OBVIOUS
    <3> QED
      BY <2>3, <3>1, TimesKeeps
  <2>6. (x * rest) * s = (x * s) * rest /\ (left * t) * s = (left * s) * t
        /\ (r * t) * rest = (r * rest) * t
    BY <2>3
  <2>7. /\ (left * s) * t \in Int /\ (x * s) * rest \in Int /\ (r * rest) * t \in Int
        /\ left * s \in Int /\ r * rest \in Int
    BY <2>3
  <2>8. (r * rest) * t <= (left * s) * t
    BY <2>4, <2>5, <2>6, <2>7
  <2>9. r * rest <= left * s
    BY <1>1, <2>7, <2>8, TimesCancels
  <2> QED
    BY <2>7, <2>9 DEF left, rest
<1>5. (share + 1) * s >= r * b /\ (s > 0 => (share + 1) * s > r * b)
  <2> DEFINE up == share + 1
  <2>1. up \in Nat /\ x * b < up * t
    BY <1>2
  <2> HIDE DEF up
  <2>2. (r * t) * b <= (x * s) * b
    <3>1. r * t \in Int /\ x * s \in Int
      OBVIOUS
    <3> QED
      BY <3>1, TimesKeeps
  <2>3. (x * b) * s <= (up * t) * s /\ (s > 0 => (x * b) * s < (up * t) * s)
    <3>1. x * b \in Int /\ up * t \in Int
      BY <2>1
    <3> DEFINE m == x * b
               n == up * t
    <3>2. m \in Int /\ n \in Int /\ m < n
      BY <2>1, <3>1
    <3> HIDE DEF m, n
    <3>3. m * s <= n * s /\ (s > 0 => m * s < n * s)
      BY <3>2
    <3> QED
      BY <3>3 DEF m, n
  <2>4. (x * s) * b = (x * b) * s /\ (up * t) * s = (up * s) * t /\ (r * t) * b = (r * b) * t
    BY <2>1
  <2>5. /\ (x * b) * s \in Int /\ (up * s) * t \in Int /\ (r * b) * t \in Int
        /\ up * s \in Int /\ r * b \in Int
    BY <2>1
  <2>6. (r * b) * t <= (up * s) * t /\ (s > 0 => (r * b) * t < (up * s) * t)
    BY <2>2, <2>3, <2>4, <2>5
  <2>7. r * b <= up * s /\ (s > 0 => r * b < up * s)
    BY <1>1, <2>5, <2>6, TimesCancels
  <2> QED
    BY <2>5, <2>7 DEF up
<1> QED
  BY <1>2, <1>3, <1>4, <1>5

(* refund_share: what one position is refunded, and what that leaves.      *)
LEMMA RefundIsFair ==
    ASSUME MoneyInv, NEW b \in Nat, b <= tokens_sold, SoldThen \in Nat, RaisedThen \in Nat,
           tokens_sold <= SoldThen, tokens_sold = 0 => raised_xnt = 0
    PROVE  /\ RefundShare(b) \in Nat /\ RefundShare(b) <= raised_xnt
           /\ (raised_xnt - RefundShare(b)) * SoldThen >= RaisedThen * (tokens_sold - b)
           /\ b # 0 => RefundShare(b) * SoldThen > RaisedThen * b - SoldThen
           /\ tokens_sold - b = 0 => raised_xnt - RefundShare(b) = 0
<1> DEFINE s == SoldThen
           r == RaisedThen
           x == raised_xnt
           t == tokens_sold
           share == RefundShare(b)
<1>1. x \in Nat /\ t \in Nat /\ s \in Nat /\ r \in Nat /\ x * s >= r * t /\ b <= t /\ t <= s
      /\ (t = 0 => x = 0)
  BY DEF MoneyInv, IInv, TypeInv, RefundsAgree
<1>2. share = IF b = 0 \/ t = 0 THEN 0 ELSE IF b = t THEN x ELSE (x * b) \div t
  BY DEF RefundShare
<1> HIDE DEF s, r, x, t, share
<1> SUFFICES /\ share \in Nat /\ share <= x
             /\ (x - share) * s >= r * (t - b)
             /\ b # 0 => share * s > r * b - s
             /\ t - b = 0 => x - share = 0
  BY DEF s, r, x, t, share
<1>3. CASE b = 0
  <2>1. share = 0 /\ x - share = x /\ t - b = t
    BY <1>1, <1>2, <1>3
  <2> QED
    BY <1>1, <1>3, <2>1
<1>4. CASE b # 0 /\ b = t
  <2>1. share = x /\ t - b = 0 /\ x - share = 0 /\ s > 0 /\ share * s >= r * b
    BY <1>1, <1>2, <1>4
  <2>2. (x - share) * s = 0 /\ r * (t - b) = 0
    BY <1>1, <2>1
  <2>3. share * s > r * b - s
    <3>1. share * s \in Int /\ r * b \in Int
      BY <1>1, <2>1
    <3> QED
      BY <1>1, <2>1, <3>1
  <2> QED
    BY <1>1, <2>1, <2>2, <2>3
<1>5. CASE b # 0 /\ b # t
  <2>1. b < t /\ share = (x * b) \div t /\ s > 0
    BY <1>1, <1>2, <1>5
  <2>2. /\ share \in Nat /\ share <= x /\ (x - share) * s >= r * (t - b)
        /\ (share + 1) * s > r * b
    BY <1>1, <2>1, ShareIsFair
  <2>3. share * s > r * b - s
    <3>1. (share + 1) * s = share * s + s /\ share * s \in Int /\ r * b \in Int
      BY <1>1, <2>2
    <3> QED
      BY <1>1, <2>2, <3>1
  <2>4. t - b # 0
    BY <1>1, <2>1
  <2> QED
    BY <2>2, <2>3, <2>4
<1> QED
  BY <1>3, <1>4, <1>5

(* Nobody holds anything when no position is open.                         *)
LEMMA NoneOpen ==
    ASSUME IInv', PeopleAgree', Cardinality(Open') = 0
    PROVE  FSum(BalanceOf', Traders) = 0
<1>1. Open' = {}
  <2>1. Open' \subseteq Traders
    BY DEF Open
  <2> QED
    BY <2>1, Amounts, FS_Subset, FS_EmptySet
<1> DEFINE b == BalanceOf'
<1>2. \A w \in Traders : b[w] = 0
  BY <1>1 DEF Open, PeopleAgree, BalanceOf, IInv, TypeInv
<1> HIDE DEF b
<1>3. FSum(b, Traders) = 0
  BY <1>2, Amounts, SumZero
<1> QED
  BY <1>3 DEF b

(* A refund: a share of what is left and the deposit leave auth.           *)
LEMMA RefundKeeps ==
    ASSUME MoneyInv, NEW w \in Traders, Refund(w)
    PROVE  MoneyInv'
<1> DEFINE b == position[w].balance
           share == RefundShare(position[w].balance)
           last == positions = 1
           back == [tokens |-> b, xnt |-> share]
<1>1. IInv /\ IInv'
  BY RefundInv DEF MoneyInv
<1>2. /\ position[w] \in [open : BOOLEAN, balance : Nat, deposit : Nat]
      /\ b \in Nat /\ position[w].open /\ position[w].deposit = AccountRent
      /\ refunds[w] = NotRefunded
  BY <1>1 DEF IInv, TypeInv, MoneyInv, PeopleAgree, Refund
<1>3. /\ status \in {"Complete", "Refunding"} /\ status' = (IF last THEN "Closed" ELSE "Refunding")
      /\ share + position[w].deposit <= auth /\ share <= raised_xnt /\ b <= tokens_sold
      /\ raised_xnt' = raised_xnt - share
      /\ tokens_sold' = tokens_sold - b
      /\ positions' = positions - 1
      /\ position' = [position EXCEPT ![w] = None]
      /\ auth' = (IF last THEN 0 ELSE auth - share - position[w].deposit)
      /\ refunds' = [refunds EXCEPT ![w] = back]
      /\ UNCHANGED <<coins, outside>>
  BY DEF Refund, RefundOpen
<1>4. /\ positions \in Nat /\ auth \in Nat /\ tokens_sold \in Nat /\ raised_xnt \in Nat
      /\ refunds \in [Traders -> [tokens : Nat, xnt : Nat]]
      /\ FSum(BalanceOf, Traders) \in Nat /\ FSum(DepositOf, Traders) \in Nat
  BY <1>1, OpenCount, BalanceIsPart DEF MoneyInv, Counted, AccountsTyped, IInv, TypeInv
<1>5. share \in Nat
  BY <1>1, <1>2, ShareTyped DEF IInv
<1> HIDE DEF share
<1>6. None \in [open : BOOLEAN, balance : Nat, deposit : Nat] /\ ~None.open
      /\ None.balance = 0 /\ None.deposit = 0
  BY DEF None
<1>7. /\ FSum(BalanceOf', Traders) = FSum(BalanceOf, Traders) + (None.balance - position[w].balance)
      /\ FSum(DepositOf', Traders) = FSum(DepositOf, Traders) + (None.deposit - position[w].deposit)
      /\ w \in Open /\ Open' = Open \ {w}
  BY <1>1, <1>2, <1>3, <1>6, PositionChanges
<1>8. positions' = Cardinality(Open') /\ positions >= 1
  BY <1>3, <1>7, OpenCount DEF MoneyInv, Counted
<1>9. FSum(BalanceOf', Traders) = tokens_sold'
  <2>1. FSum(BalanceOf, Traders) = tokens_sold
    BY <1>3 DEF MoneyInv, Counted
  <2> QED
    BY <1>2, <1>3, <1>4, <1>6, <1>7, <2>1
<1> HIDE DEF b
<1> DEFINE r == positions * AccountRent
           rNew == positions' * AccountRent
<1>10. r \in Nat /\ rNew = r - AccountRent /\ rNew \in Nat
  <2>1. (positions - 1) * AccountRent = positions * AccountRent - AccountRent
    BY <1>4, Amounts
  <2>2. positions * AccountRent \in Nat /\ (positions - 1) * AccountRent \in Nat
    BY <1>4, <1>8, Amounts
  <2> QED
    BY <1>3, <2>1, <2>2
<1>11. FSum(DepositOf, Traders) = r
  BY DEF MoneyInv, Counted
<1> HIDE DEF r, rNew
<1>12. back \in [tokens : Nat, xnt : Nat] /\ back.tokens = b /\ back.xnt = share
  BY <1>2, <1>5
<1> HIDE DEF back
<1>13. AccountsTyped'
  <2>1. auth' \in Nat
    BY <1>2, <1>3, <1>4, <1>5, Amounts
  <2>2. refunds' \in [Traders -> [tokens : Nat, xnt : Nat]]
    BY <1>3, <1>4, <1>12
  <2> QED
    BY <1>3, <2>1, <2>2 DEF MoneyInv, AccountsTyped, coins, outside
<1>14. PeopleAgree'
  <2>1. \A v \in Traders : position'[v] = IF v = w THEN None ELSE position[v]
    BY <1>1, <1>3 DEF IInv, TypeInv
  <2>2. \A v \in Traders \ {w} : refunds'[v] = refunds[v]
    BY <1>3, <1>4
  <2> QED
    BY <1>6, <2>1, <2>2 DEF MoneyInv, PeopleAgree, NotRefunded
<1>15. Counted'
  <2>1. FSum(DepositOf', Traders) = positions' * AccountRent
    BY <1>2, <1>6, <1>7, <1>10, <1>11, Amounts DEF rNew
  <2>2. status' \in {"Closed", "Refunding"}
    BY <1>3
  <2> QED
    BY <1>8, <1>9, <2>1, <2>2 DEF Counted
<1>16. Covered'
  <2>1. auth >= GRADUATION_DEPOSIT + raised_xnt + r
    BY <1>3 DEF MoneyInv, Covered, r
  <2>2. CASE last
    BY <1>3, <2>2 DEF Covered
  <2>3. CASE ~last
    <3>1. auth' >= GRADUATION_DEPOSIT + raised_xnt' + rNew
      BY <1>2, <1>3, <1>4, <1>5, <1>10, <2>1, <2>3, Amounts
    <3> QED
      BY <1>3, <2>3, <3>1 DEF Covered, rNew
  <2> QED
    BY <2>2, <2>3
<1>17. Stages'
  BY <1>3 DEF MoneyInv, Stages, coins
<1>18. RefundsAgree'
  <2> DEFINE t == TokensBack
             x == XntBack
             tNew == TokensBack'
             xNew == XntBack'
  <2>1. /\ \A v \in Traders : t[v] \in Nat /\ x[v] \in Nat
        /\ tNew[w] = t[w] + b /\ xNew[w] = x[w] + share
        /\ \A v \in Traders \ {w} : tNew[v] = t[v] /\ xNew[v] = x[v]
    <3>1. \A v \in Traders : t[v] = refunds[v].tokens /\ x[v] = refunds[v].xnt
      BY DEF TokensBack, XntBack
    <3>2. \A v \in Traders : tNew[v] = refunds'[v].tokens /\ xNew[v] = refunds'[v].xnt
      BY DEF TokensBack, XntBack
    <3>3. t[w] = 0 /\ x[w] = 0
      BY <1>2, <3>1 DEF NotRefunded
    <3>4. refunds'[w] = back /\ \A v \in Traders \ {w} : refunds'[v] = refunds[v]
      BY <1>3, <1>4
    <3> HIDE DEF t, x, tNew, xNew
    <3>5. tNew[w] = b /\ xNew[w] = share
      BY <1>12, <3>2, <3>4
    <3> QED
      BY <1>2, <1>4, <1>5, <3>1, <3>2, <3>3, <3>4, <3>5
  <2> HIDE DEF t, x, tNew, xNew
  <2>2. /\ FSum(tNew, Traders) = FSum(t, Traders) + b /\ FSum(t, Traders) \in Nat
        /\ FSum(xNew, Traders) = FSum(x, Traders) + share /\ FSum(x, Traders) \in Nat
    <3>1. FSum(t, Traders) \in Nat /\ FSum(x, Traders) \in Nat
      BY <2>1, Amounts, SumNat
    <3>2. /\ b \in Int /\ share \in Int
          /\ \A v \in Traders : t[v] \in Int /\ x[v] \in Int
      BY <1>2, <1>5, <2>1
    <3>3. FSum(tNew, Traders) = FSum(t, Traders) + b
      BY <2>1, <3>2, Amounts, SumGrows
    <3>4. FSum(xNew, Traders) = FSum(x, Traders) + share
      BY <2>1, <3>2, Amounts, SumGrows
    <3> QED
      BY <3>1, <3>3, <3>4
  <2>3. SoldThen = tokens_sold + FSum(t, Traders) /\ RaisedThen = raised_xnt + FSum(x, Traders)
    BY DEF SoldThen, RaisedThen, t, x
  <2>4. SoldThen' = tokens_sold' + FSum(tNew, Traders) /\ RaisedThen' = raised_xnt' + FSum(xNew, Traders)
    BY DEF SoldThen, RaisedThen, tNew, xNew
  <2>5. SoldThen' = SoldThen /\ RaisedThen' = RaisedThen
    <3> DEFINE tt == FSum(t, Traders)
               xx == FSum(x, Traders)
    <3>1. SoldThen' = (tokens_sold - b) + (tt + b) /\ RaisedThen' = (raised_xnt - share) + (xx + share)
      BY <1>3, <2>2, <2>4
    <3>2. tt \in Nat /\ xx \in Nat /\ SoldThen = tokens_sold + tt /\ RaisedThen = raised_xnt + xx
      BY <2>2, <2>3
    <3> HIDE DEF tt, xx
    <3> QED
      BY <1>2, <1>4, <1>5, <3>1, <3>2
  <2>6. /\ SoldThen \in Nat /\ RaisedThen \in Nat /\ tokens_sold <= SoldThen
        /\ tokens_sold = 0 => raised_xnt = 0
    BY <1>3, <1>4, <2>2, <2>3 DEF MoneyInv, RefundsAgree
  <2>7. /\ (raised_xnt - share) * SoldThen >= RaisedThen * (tokens_sold - b)
        /\ b # 0 => share * SoldThen > RaisedThen * b - SoldThen
        /\ tokens_sold - b = 0 => raised_xnt - share = 0
    BY <1>2, <1>3, <2>6, RefundIsFair DEF share, b
  <2>8. \A v \in Traders : refunds'[v].tokens # 0
          => refunds'[v].xnt * SoldThen > RaisedThen * refunds'[v].tokens - SoldThen
    <3>1. refunds'[w] = back /\ \A v \in Traders \ {w} : refunds'[v] = refunds[v]
      BY <1>3, <1>4
    <3>2. \A v \in Traders : refunds[v].tokens # 0
            => refunds[v].xnt * SoldThen > RaisedThen * refunds[v].tokens - SoldThen
      BY DEF MoneyInv, RefundsAgree
    <3>3. refunds'[w].tokens = b /\ refunds'[w].xnt = share
      BY <1>12, <3>1
    <3> QED
      BY <2>7, <3>1, <3>2, <3>3
  <2>9. status' = "Closed" => tokens_sold' = 0
    <3> SUFFICES ASSUME status' = "Closed" PROVE tokens_sold' = 0
      OBVIOUS
    <3>1. last
      BY <1>3
    <3>2. Cardinality(Open') = 0
      BY <1>3, <1>8, <3>1
    <3> QED
      BY <1>1, <1>9, <1>14, <3>2, NoneOpen
  <2>10. status' \in {"Refunding", "Closed"}
    BY <1>3
  <2>11. raised_xnt' * SoldThen' >= RaisedThen' * tokens_sold'
    BY <1>3, <2>5, <2>7
  <2>12. \A v \in Traders : refunds'[v].tokens # 0
           => refunds'[v].xnt * SoldThen' > RaisedThen' * refunds'[v].tokens - SoldThen'
    BY <2>5, <2>8
  <2>13. tokens_sold' = 0 => raised_xnt' = 0
    BY <1>3, <2>7
  <2> QED
    BY <2>9, <2>10, <2>11, <2>12, <2>13 DEF RefundsAgree
<1> QED
  BY <1>1, <1>13, <1>14, <1>15, <1>16, <1>17, <1>18 DEF MoneyInv

(* Every step keeps the invariant of the money.                            *)
LEMMA NextMoney == MoneyInv /\ [Next]_vars => MoneyInv'
<1> SUFFICES ASSUME MoneyInv, [Next]_vars
             PROVE  MoneyInv'
  OBVIOUS
<1>1. CASE Trade
  BY <1>1, BuyKeeps, SellKeeps DEF Trade
<1>2. CASE GraduatePool \/ GraduateLock \/ StartBurnClock \/ GraduateBurn
  BY <1>2, GraduatingKeeps
<1>3. CASE CloseCurve
  BY <1>3, CloseCurveKeeps
<1>4. CASE \E w \in Traders : Delivery(w) \/ Refund(w)
  BY <1>4, DeliverKeeps, RefundKeeps DEF Delivery
<1>5. CASE Tick \/ Upgrade \/ Gift \/ UNCHANGED vars
  BY <1>5, WaitingKeeps
<1> QED
  BY <1>1, <1>2, <1>3, <1>4, <1>5 DEF Next

(* So it always holds.                                                     *)
LEMMA AlwaysMoney == Spec => []MoneyInv
  BY InitMoney, NextMoney, PTL DEF Spec

-----------------------------------------------------------------------------
(* The invariant says all that TypeOK says.                                *)
LEMMA MoneyIsTyped == MoneyInv => TypeOK
<1> SUFFICES ASSUME MoneyInv
             PROVE  TypeOK
  OBVIOUS
<1>1. IInv /\ AccountsTyped
  BY DEF MoneyInv
<1>2. positions \in 0..Cardinality(Traders)
  <2>1. Cardinality(Open) <= Cardinality(Traders) /\ Cardinality(Traders) \in Nat
    BY Amounts, FS_Subset, FS_CardinalityType DEF Open
  <2> QED
    BY <2>1, OpenCount DEF MoneyInv, Counted
<1> QED
  BY <1>1, <1>2 DEF IInv, TypeInv, AccountsTyped, TypeOK

(* ceil_div is the least that is enough.                                   *)
LEMMA CeilDivLeast ==
    ASSUME NEW a \in Nat, NEW b \in Nat \ {0}, NEW c \in Nat
    PROVE  /\ a <= c * b => CeilDiv(a, b) <= c
           /\ c * b <= a => c <= CeilDiv(a, b)
<1> DEFINE d == CeilDiv(a, b)
<1>1. d \in Nat /\ a <= d * b /\ d * b < a + b
  <2>1. a + b - 1 \in Int
    OBVIOUS
  <2>2. ((a + b - 1) \div b) * b <= a + b - 1 /\ (a + b - 1) \div b \in Int
    BY <2>1, DivBounds
  <2>3. d = (a + b - 1) \div b
    BY DEF CeilDiv
  <2>4. d \in Nat /\ a <= d * b
    BY CeilDivBounds
  <2> HIDE DEF d
  <2>5. d * b \in Int
    BY <2>4
  <2> QED
    BY <2>2, <2>3, <2>4, <2>5
<1> HIDE DEF d
<1>2. ASSUME a <= c * b PROVE d <= c
  <2>1. d * b < (c + 1) * b
    <3>1. (c + 1) * b = c * b + b /\ c * b \in Int /\ d * b \in Int
      BY <1>1
    <3> QED
      BY <1>1, <1>2, <3>1
  <2>2. d < c + 1
    <3> DEFINE e == c + 1
    <3>1. e \in Int
      OBVIOUS
    <3> HIDE DEF e
    <3>2. d * b < e * b => d < e
      BY <1>1, <3>1, TimesCancels
    <3> QED
      BY <2>1, <3>2 DEF e
  <2> QED
    BY <1>1, <2>2
<1>3. ASSUME c * b <= a PROVE c <= d
  <2>1. c * b <= d * b
    <3>1. c * b \in Int /\ d * b \in Int
      BY <1>1
    <3> QED
      BY <1>1, <1>3, <3>1
  <2> QED
    BY <1>1, <2>1, TimesCancels
<1> QED
  BY <1>2, <1>3 DEF d

(* sell: what a wallet holds brings no more than was raised.               *)
LEMMA SaleFits ==
    ASSUME MoneyInv, status = "Trading", NEW w \in Traders, NEW n \in 1..position[w].balance
    PROVE  SellQuote(n).gross \in 0..raised_xnt /\ n <= tokens_sold
<1>1. IInv
  BY DEF MoneyInv
<1>2. /\ virtual_xnt \in Nat /\ virtual_tokens \in Nat /\ tokens_sold \in Nat /\ raised_xnt \in Nat
      /\ virtual_xnt - raised_xnt = X0 /\ virtual_tokens + tokens_sold = Y0
      /\ K0 <= virtual_xnt * virtual_tokens /\ tokens_sold <= CurveTokens
  BY <1>1 DEF IInv, TypeInv, ReservesHold
<1>3. n \in Nat /\ n <= tokens_sold
  <2>1. position[w].balance \in Nat /\ position[w].balance <= FSum(BalanceOf, Traders)
    BY <1>1, BalanceIsPart DEF IInv, TypeInv
  <2>2. FSum(BalanceOf, Traders) = tokens_sold
    BY DEF MoneyInv, Counted
  <2> QED
    BY <1>2, <2>1, <2>2
<1> DEFINE y == virtual_tokens + n
           x1 == CeilDiv(K0, y)
<1>4. SellQuote(n).gross = virtual_xnt - x1
  BY <1>1, CountersGiveK0 DEF SellQuote
<1>5. y \in Nat \ {0} /\ K0 \in Nat /\ X0 \in Nat /\ Y0 \in Nat /\ y <= Y0 /\ virtual_tokens <= y
  BY <1>2, <1>3, SetupTyped
<1> HIDE DEF y
<1>6. K0 <= virtual_xnt * y
  <2>1. virtual_tokens * virtual_xnt <= y * virtual_xnt
    BY <1>2, <1>5, TimesKeeps
  <2>2. virtual_tokens * virtual_xnt = virtual_xnt * virtual_tokens /\ y * virtual_xnt = virtual_xnt * y
    BY <1>2, <1>5
  <2>3. virtual_xnt * virtual_tokens \in Int /\ virtual_xnt * y \in Int
    BY <1>2, <1>5
  <2> QED
    BY <1>2, <1>5, <2>1, <2>2, <2>3
<1>7. X0 * y <= K0
  <2>1. y * X0 <= Y0 * X0
    BY <1>5, TimesKeeps
  <2> QED
    BY <1>5, <2>1 DEF K0
<1>8. x1 \in Nat /\ x1 <= virtual_xnt /\ X0 <= x1
  BY <1>2, <1>5, <1>6, <1>7, CeilDivBounds, CeilDivLeast
<1> HIDE DEF x1
<1> QED
  BY <1>2, <1>3, <1>4, <1>5, <1>8

(* buy, sell: whatever was traded before, the program's own checks of the  *)
(* product, of the XNT raised and of the tokens sold refuse no purchase    *)
(* and no sale of what a wallet holds.                                     *)
THEOREM ChecksNeverRefuse == Spec => []TradesNeverFault
<1>1. MoneyInv => TradesNeverFault
  <2> SUFFICES ASSUME MoneyInv, status = "Trading"
               PROVE  /\ \A n \in XntIn : BuySound(BuyQuote(n))
                      /\ \A w \in Traders : \A n \in 1..position[w].balance :
                            /\ SellSound(SellQuote(n), n)
                            /\ SellQuote(n).gross \in 0..raised_xnt /\ n <= tokens_sold
    BY DEF TradesNeverFault
  <2>1. IInv
    BY DEF MoneyInv
  <2>2. \A n \in XntIn : BuySound(BuyQuote(n))
    BY <2>1, CurveAssumption, BuyQuoteSound
  <2>3. ASSUME NEW w \in Traders, NEW n \in 1..position[w].balance
        PROVE  /\ SellSound(SellQuote(n), n)
               /\ SellQuote(n).gross \in 0..raised_xnt /\ n <= tokens_sold
    <3>1. n \in Nat
      BY <2>1 DEF IInv, TypeInv
    <3> QED
      BY <2>1, <3>1, SellQuoteSound, SaleFits
  <2> QED
    BY <2>2, <2>3
<1> QED
  BY <1>1, AlwaysMoney, PTL

(* The state keeps its types: auth is never asked for more than it holds.  *)
THEOREM CurveTyped == Spec => []TypeOK
  BY AlwaysMoney, MoneyIsTyped, PTL

(* "Lamport accounting", deliver, refund, close_curve: whatever trades,    *)
(* graduation, deliveries, refunds and gifts come in whatever order, auth  *)
(* can pay for all that positions may still ask, positions hold what was   *)
(* sold and not delivered, and a curve ends with all of them settled and   *)
(* all of the supply minted or none of it.                                 *)
THEOREM AlwaysSettles == Spec => []PositionsSettle
<1>1. MoneyInv => PositionsSettle
  <2> SUFFICES ASSUME MoneyInv
               PROVE  PositionsSettle
    OBVIOUS
  <2>1. /\ Balances = FSum(BalanceOf, Traders) /\ Deposits = FSum(DepositOf, Traders)
        /\ Deposits = positions * AccountRent
    <3>1. DOMAIN BalanceOf = Traders /\ DOMAIN DepositOf = Traders
      BY DEF BalanceOf, DepositOf
    <3>2. Balances = SumOver(BalanceOf) /\ Deposits = SumOver(DepositOf)
      BY DEF Balances, Deposits, BalanceOf, DepositOf
    <3> QED
      BY <3>1, <3>2, SumOverIs DEF MoneyInv, Counted
  <2>2. SumOver(tokens) = FSum(tokens, Traders)
    <3>1. DOMAIN tokens = Traders
      BY DEF MoneyInv, AccountsTyped
    <3> QED
      BY <3>1, SumOverIs
  <2>3. AuthCovers
    BY <2>1 DEF MoneyInv, Covered, AuthCovers
  <2>4. PositionsAddUp
    BY <2>1 DEF MoneyInv, Counted, PositionsAddUp, Open
  <2>5. EndsClean
    <3>1. status \in {"Finished", "Closed"} => positions = 0 /\ Deposits = 0
      BY <2>1, Amounts DEF MoneyInv, Covered
    <3>2. status = "Finished" => minted = Supply /\ ~mintable /\ SumOver(tokens) = CurveTokens
      BY <2>2, Amounts DEF MoneyInv, Stages
    <3>3. status = "Closed" => minted = 0 /\ lp = "none"
      BY DEF MoneyInv, Stages
    <3> QED
      BY <3>1, <3>2, <3>3 DEF EndsClean
  <2> QED
    BY <2>3, <2>4, <2>5 DEF PositionsSettle
<1> QED
  BY <1>1, AlwaysMoney, PTL

(* refund_share: in whatever order positions are refunded, each gets its   *)
(* share of what was raised but for rounding, and the last one all the     *)
(* rest.                                                                   *)
THEOREM AlwaysFair == Spec => []RefundsFair
<1>1. MoneyInv => RefundsFair
  <2> SUFFICES ASSUME MoneyInv
               PROVE  RefundsFair
    OBVIOUS
  <2> DEFINE refunded == SumOver([w \in Traders |-> refunds[w].tokens])
             paid == SumOver([w \in Traders |-> refunds[w].xnt])
  <2>1. tokens_sold + refunded = SoldThen /\ raised_xnt + paid = RaisedThen
    <3>1. DOMAIN TokensBack = Traders /\ DOMAIN XntBack = Traders
      BY DEF TokensBack, XntBack
    <3>2. refunded = SumOver(TokensBack) /\ paid = SumOver(XntBack)
      BY DEF TokensBack, XntBack
    <3> HIDE DEF refunded, paid
    <3> QED
      BY <3>1, <3>2, SumOverIs DEF SoldThen, RaisedThen
  <2>2. \A w \in Traders :
          \/ refunds[w].xnt * SoldThen > RaisedThen * refunds[w].tokens - SoldThen
          \/ refunds[w].tokens = 0
    BY DEF MoneyInv, RefundsAgree
  <2>3. status = "Closed" => raised_xnt = 0 /\ tokens_sold = 0
    BY DEF MoneyInv, RefundsAgree
  <2>4. \A w \in Traders :
          \/ refunds[w].xnt * (tokens_sold + refunded)
               > (raised_xnt + paid) * refunds[w].tokens - (tokens_sold + refunded)
          \/ refunds[w].tokens = 0
    <3> HIDE DEF refunded, paid
    <3> QED
      BY <2>1, <2>2
  <2> QED
    BY <2>3, <2>4 DEF RefundsFair
<1> QED
  BY <1>1, AlwaysMoney, PTL
=============================================================================
