---------------------------- MODULE TaxVaultProofs ---------------------------
(***************************************************************************)
(* The tax_vault program for every rate, amount, cap and order of          *)
(* instructions.  TaxFlow: what a vault's accounts hold is what its        *)
(* counters say.  HolderPasses: what was allocated to passes is there,     *)
(* nobody is locked out by rounds, the passes indexed are in the tables,   *)
(* payments keep HolderPool's promise and moving tokens earns nothing.     *)
(***************************************************************************)
EXTENDS TaxFlow, HolderPasses, FiniteSums, SequenceTheorems, TLAPS

-----------------------------------------------------------------------------
(* TaxFlow.  Arithmetic.                                                   *)
LEMMA ProductTyped == ASSUME NEW a \in Nat, NEW b \in Nat PROVE a * b \in Nat
  OBVIOUS

(* Division.                                                               *)
LEMMA DivBounds ==
  ASSUME NEW n \in Nat, NEW c \in Nat \ {0}
  PROVE  n \div c \in Nat /\ (n \div c) * c <= n /\ n < (n \div c + 1) * c
  OBVIOUS

(* A common factor cancels.                                                *)
LEMMA FactorCancels ==
  ASSUME NEW a \in Int, NEW b \in Int, NEW c \in Nat \ {0}, a * c <= b * c
  PROVE  a <= b
  OBVIOUS

(* A share of an amount, in proportion of a part to a whole.               *)
LEMMA ShareFits ==
  ASSUME NEW a \in Nat, NEW x \in Nat, NEW c \in Nat \ {0}
  PROVE  (a * x) \div c \in Nat /\ ((a * x) \div c) * c <= a * x
<1> DEFINE n == a * x
<1>1. n \in Nat
  BY ProductTyped
<1> HIDE DEF n
<1>2. n \div c \in Nat /\ (n \div c) * c <= n
  BY <1>1, DivBounds
<1> QED
  BY <1>2 DEF n

(* Shares of an amount, in proportion to parts of a whole, fit in it.      *)
LEMMA SharesFit ==
  ASSUME NEW a \in Nat, NEW x \in Nat, NEW y \in Nat, NEW z \in Nat, NEW c \in Nat \ {0}, x + y + z <= c
  PROVE  (a * x) \div c + (a * y) \div c + (a * z) \div c <= a
<1> DEFINE p == (a * x) \div c  q == (a * y) \div c  r == (a * z) \div c
<1>1. p \in Nat /\ q \in Nat /\ r \in Nat /\ p * c <= a * x /\ q * c <= a * y /\ r * c <= a * z
  BY ShareFits
<1>2. a * x + a * y + a * z <= a * c
  <2>1. a * (x + y + z) <= a * c
    OBVIOUS
  <2>2. a * (x + y + z) = a * x + a * y + a * z
    OBVIOUS
  <2> QED
    BY <2>1, <2>2
<1> HIDE DEF p, q, r
<1>3. (p + q + r) * c = p * c + q * c + r * c
  BY <1>1
<1>4. (p + q + r) * c <= a * c
  <2>1. p * c \in Nat /\ q * c \in Nat /\ r * c \in Nat /\ a * x \in Nat /\ a * y \in Nat /\ a * z \in Nat /\ a * c \in Nat
    BY <1>1, ProductTyped
  <2> QED
    BY <1>1, <1>2, <1>3, <2>1
<1>5. p + q + r <= a
  BY <1>1, <1>4, FactorCancels
<1> QED
  BY <1>5 DEF p, q, r

(* Two shares fit the whole.                                               *)
LEMMA TwoSharesFit ==
  ASSUME NEW a \in Nat, NEW x \in Nat, NEW y \in Nat, NEW c \in Nat \ {0}, x + y <= c
  PROVE  /\ (a * x) \div c \in Nat /\ (a * y) \div c \in Nat
         /\ (a * x) \div c + (a * y) \div c <= a
<1> DEFINE p == (a * x) \div c  q == (a * y) \div c  r == (a * 0) \div c
<1>1. p \in Nat /\ q \in Nat /\ r \in Nat
  BY ShareFits
<1>2. x + y + 0 <= c
  OBVIOUS
<1>3. p + q + r <= a
  BY <1>2, SharesFit
<1> HIDE DEF p, q, r
<1>4. p + q <= a
  BY <1>1, <1>3
<1> QED
  BY <1>1, <1>4 DEF p, q

(* A share is within the whole.                                            *)
LEMMA ShareWithin ==
  ASSUME NEW a \in Nat, NEW x \in Nat, NEW c \in Nat \ {0}, x <= c
  PROVE  (a * x) \div c \in Nat /\ (a * x) \div c <= a
<1> DEFINE p == (a * x) \div c  q == (a * 0) \div c
<1>1. x + 0 <= c
  OBVIOUS
<1>2. p \in Nat /\ q \in Nat /\ p + q <= a
  BY <1>1, TwoSharesFit
<1> HIDE DEF p, q
<1>3. p <= a
  BY <1>2
<1> QED
  BY <1>2, <1>3 DEF p

(* The lesser of two.                                                      *)
LEMMA LeastIs ==
  ASSUME NEW a \in Int, NEW b \in Int
  PROVE  Least(a, b) \in {a, b} /\ Least(a, b) <= a /\ Least(a, b) <= b
  BY DEF Least

-----------------------------------------------------------------------------
(* collect's split is of all there is.                                     *)
LEMMA SplitAdds ==
  ASSUME NEW got \in Nat
  PROVE  LET s == Split(got)
         IN  /\ s.burn \in Nat /\ s.lp \in Nat /\ s.creator \in Nat /\ s.holders \in Nat
             /\ s.burn + s.lp + s.creator + s.holders = got
<1> DEFINE b == (got * burn_bps) \div PARTS
           l == (got * lp_bps) \div PARTS
           c == (got * CREATOR_BPS) \div PARTS
<1>1. Split(got) = [burn |-> b, lp |-> l, creator |-> c, holders |-> got - b - l - c]
  BY DEF Split
<1>2. b \in Nat /\ l \in Nat /\ c \in Nat /\ b + l + c <= got
  BY FlowAssumption, ShareFits, SharesFit
<1> HIDE DEF b, l, c
<1> QED
  BY <1>1, <1>2

(* What tax an amount bears is part of it, or none of the pool is moved.   *)
LEMMA TaxWithin ==
  ASSUME NEW amount \in Nat
  PROVE  TaxOn(amount) \in Nat /\ TaxOn(amount) <= amount /\ Quote(amount) \in Nat
<1> DEFINE m == amount * tax_bps + PARTS - 1
           t == m \div PARTS
<1>1. PARTS \in Nat \ {0} /\ tax_bps \in Nat /\ tax_bps <= PARTS /\ Price \in Nat
  BY FlowAssumption
<1>2. amount * tax_bps \in Nat /\ amount * tax_bps <= amount * PARTS
  BY <1>1
<1>3. m \in Nat
  BY <1>1, <1>2
<1>4. m < (amount + 1) * PARTS
  BY <1>1, <1>2
<1> HIDE DEF m
<1>5. t \in Nat /\ t * PARTS <= m
  BY <1>1, <1>3, DivBounds
<1> HIDE DEF t
<1>6. t <= amount
  <2> SUFFICES ASSUME amount + 1 <= t PROVE FALSE
    BY <1>5
  <2>1. (amount + 1) * PARTS <= t * PARTS
    BY <1>1, <1>5
  <2>2. (amount + 1) * PARTS \in Nat /\ t * PARTS \in Nat
    BY <1>1, <1>5, ProductTyped
  <2> QED
    BY <1>3, <1>4, <1>5, <2>1, <2>2
<1>7. TaxOn(amount) = t
  BY DEF TaxOn, Ceil, t, m
<1>8. (amount - t) * Price \in Nat
  BY <1>1, <1>5, <1>6, ProductTyped
<1> QED
  BY <1>5, <1>6, <1>7, <1>8 DEF Quote

(* The buckets' types.                                                     *)
Buckets == [lp_tokens : Nat, sell_lp : Nat, sell_creator : Nat, sell_holders : Nat,
            xnt_lp : Nat, xnt_creator : Nat, xnt_holders : Nat, owed : Nat]

(* A sale takes what it sells from the buckets, and from none more than it *)
(* holds.                                                                  *)
LEMMA TakeFits ==
  ASSUME NEW b \in Buckets, NEW amount \in Nat \ {0}, amount <= ToSell(b)
  PROVE  LET take == Take(amount, b)
         IN  /\ take.lp \in Nat /\ take.creator \in Nat /\ take.holders \in Nat
             /\ take.lp <= b.sell_lp /\ take.creator <= b.sell_creator /\ take.holders <= b.sell_holders
             /\ take.lp + take.creator + take.holders = amount
<1> DEFINE t == ToSell(b)
           lp == (amount * b.sell_lp) \div t
           creator == (amount * b.sell_creator) \div t
           holders == Least(amount - lp - creator, b.sell_holders)
           excess == amount - lp - creator - holders
           more == Least(excess, b.sell_lp - lp)
<1>1. /\ b.sell_lp \in Nat /\ b.sell_creator \in Nat /\ b.sell_holders \in Nat
      /\ t = b.sell_lp + b.sell_creator + b.sell_holders /\ t \in Nat \ {0} /\ amount <= t
  BY DEF Buckets, ToSell
<1>2. Take(amount, b) = [lp |-> lp + more, creator |-> creator + (excess - more), holders |-> holders]
  BY DEF Take
<1> HIDE DEF t
<1>3. lp \in Nat /\ creator \in Nat /\ lp + creator <= amount
  <2>1. b.sell_lp + b.sell_creator <= t
    BY <1>1
  <2> QED
    BY <1>1, <2>1, TwoSharesFit
<1>4. lp <= b.sell_lp /\ creator <= b.sell_creator
  <2>1. ASSUME NEW x \in Nat PROVE (amount * x) \div t <= x
    <3> DEFINE q == (amount * x) \div t
    <3>1. q \in Nat /\ q * t <= amount * x
      BY <1>1, ShareFits
    <3>2. amount * x <= x * t
      BY <1>1
    <3> HIDE DEF q
    <3>3. q * t \in Nat /\ amount * x \in Nat /\ x * t \in Nat
      BY <1>1, <3>1, ProductTyped
    <3>4. q <= x
      BY <1>1, <3>1, <3>2, <3>3, FactorCancels
    <3> QED
      BY <3>4 DEF q
  <2> QED
    BY <1>1, <2>1
<1> HIDE DEF lp, creator
<1>5. holders \in Nat /\ holders <= b.sell_holders /\ excess \in Nat
      /\ (excess = 0 \/ holders = b.sell_holders)
  BY <1>1, <1>3 DEF Least
<1> HIDE DEF holders
<1>6. more \in Nat /\ more <= excess /\ more <= b.sell_lp - lp /\ (more = excess \/ more = b.sell_lp - lp)
  <2> DEFINE gap == b.sell_lp - lp
  <2>1. gap \in Nat
    BY <1>1, <1>3, <1>4
  <2> HIDE DEF gap, excess
  <2>2. Least(excess, gap) \in {excess, gap} /\ Least(excess, gap) <= excess /\ Least(excess, gap) <= gap
    BY <1>5, <2>1, LeastIs
  <2>3. more = Least(excess, gap)
    BY DEF gap
  <2> HIDE DEF more
  <2>4. more \in Nat /\ more <= excess /\ more <= gap /\ (more = excess \/ more = gap)
    BY <1>5, <2>1, <2>2, <2>3
  <2> QED
    BY <2>4 DEF gap
<1>7. lp + creator + holders + excess = amount
  BY <1>1, <1>3, <1>5
<1> HIDE DEF more, excess
<1>8. creator + (excess - more) <= b.sell_creator
  <2>1. CASE more = excess
    BY <1>3, <1>4, <1>5, <2>1
  <2>2. CASE excess # 0 /\ more = b.sell_lp - lp
    BY <1>1, <1>3, <1>5, <1>6, <1>7, <2>2
  <2>3. CASE excess = 0
    BY <1>3, <1>4, <1>5, <1>6, <2>3
  <2> QED
    BY <1>6, <2>1, <2>2, <2>3
<1> QED
  BY <1>1, <1>2, <1>3, <1>4, <1>5, <1>6, <1>7, <1>8

(* The XNT a sale brings is shared out, and the crank's reward is part of  *)
(* the holders'.                                                           *)
LEMMA ProceedsAdd ==
  ASSUME NEW out \in Nat, NEW amount \in Nat \ {0},
         NEW take \in [lp : Nat, creator : Nat, holders : Nat],
         take.lp + take.creator <= amount
  PROVE  LET p == Proceeds(out, amount, take)
         IN  /\ p.lp \in Nat /\ p.creator \in Nat /\ p.holders \in Nat /\ p.reward \in Nat
             /\ p.lp + p.creator + p.holders = out /\ p.reward <= p.holders
<1> DEFINE lp == (out * take.lp) \div amount
           creator == (out * take.creator) \div amount
           holders == out - lp - creator
           share == (holders * CRANK_REWARD_BPS) \div PARTS
           reward == Least(share, CRANK_REWARD_CAP)
<1>1. Proceeds(out, amount, take) = [lp |-> lp, creator |-> creator, holders |-> holders, reward |-> reward]
  BY DEF Proceeds
<1>2. take.lp \in Nat /\ take.creator \in Nat
  OBVIOUS
<1>3. lp \in Nat /\ creator \in Nat /\ lp + creator <= out
  BY <1>2, TwoSharesFit
<1> HIDE DEF lp, creator
<1>4. holders \in Nat /\ lp + creator + holders = out
  BY <1>3
<1> HIDE DEF holders
<1>5. share \in Nat /\ share <= holders /\ CRANK_REWARD_CAP \in Nat
  BY <1>4, FlowAssumption, ShareWithin
<1> HIDE DEF share
<1>6. reward \in Nat /\ reward <= holders
  BY <1>4, <1>5, LeastIs
<1> QED
  BY <1>1, <1>3, <1>4, <1>6

-----------------------------------------------------------------------------
(* What the accounts hold, and the types it takes to say so.               *)
VaultTyped ==
  /\ kind \in {"xnt", "token", "shared"}
  /\ bucket \in Buckets
  /\ withheld \in Nat /\ auth_token \in Nat /\ auth_xnt \in Nat /\ auth_payout \in Nat
  /\ gifts \in [token : Nat, xnt : Nat, payout : Nat]
  /\ opened \in BOOLEAN /\ sold_slot \in BOOLEAN /\ swapped_slot \in BOOLEAN
(* What the accounts hold is booked, or was a gift.                        *)
Balanced ==
  /\ auth_token = Booked(bucket) + gifts.token
  /\ auth_xnt = Promised(bucket) + gifts.xnt
  /\ kind # "xnt" => auth_payout = bucket.owed + gifts.payout
(* The vault's part of EveryUnitBooked.                                    *)
VaultSound == VaultTyped /\ Balanced
(* The crank's part.                                                       *)
CrankTyped ==
  /\ taxed \in Nat /\ fails \in Nat
  /\ crank \in [at : {"collect", "sell", "selling", "liquidity", "creator", "holders"}, wanted : Nat]

(* The two are all of it.                                                  *)
LEMMA SoundIsBooked == EveryUnitBooked <=> VaultSound /\ CrankTyped
  BY DEF EveryUnitBooked, FlowTypeOK, VaultSound, VaultTyped, Balanced, CrankTyped, Buckets

(* Each step keeps it: collecting,                                         *)
LEMMA CollectKeeps ==
  ASSUME VaultSound, Collect, UNCHANGED gifts PROVE VaultSound'
<1> DEFINE s == Split(withheld)
<1>1. /\ withheld' = 0 /\ auth_token' = auth_token + withheld - s.burn
      /\ bucket' = [bucket EXCEPT !.lp_tokens = @ + s.lp \div 2,
                                  !.sell_lp = @ + (s.lp - s.lp \div 2),
                                  !.sell_creator = @ + s.creator, !.sell_holders = @ + s.holders]
      /\ UNCHANGED <<kind, auth_xnt, auth_payout, opened, slots, gifts>>
  BY DEF Collect
<1>2. /\ s.burn \in Nat /\ s.lp \in Nat /\ s.creator \in Nat /\ s.holders \in Nat
      /\ s.burn + s.lp + s.creator + s.holders = withheld
  BY SplitAdds DEF VaultSound, VaultTyped
<1> HIDE DEF s
<1> DEFINE half == s.lp \div 2
<1>3. half \in Nat /\ half <= s.lp
  BY <1>2
<1> HIDE DEF half
<1>4. VaultTyped'
  <2>1. bucket' \in Buckets
    <3> DEFINE lt == bucket.lp_tokens + half  sl == bucket.sell_lp + (s.lp - half)
               sc == bucket.sell_creator + s.creator  sh == bucket.sell_holders + s.holders
    <3>1. lt \in Nat /\ sl \in Nat /\ sc \in Nat /\ sh \in Nat /\ bucket \in Buckets
      BY <1>2, <1>3 DEF VaultSound, VaultTyped, Buckets
    <3>2. bucket' = [bucket EXCEPT !.lp_tokens = lt, !.sell_lp = sl, !.sell_creator = sc, !.sell_holders = sh]
      BY <1>1 DEF half
    <3> HIDE DEF lt, sl, sc, sh
    <3> QED
      BY <3>1, <3>2 DEF Buckets
  <2>2. auth_token' \in Nat
    BY <1>1, <1>2 DEF VaultSound, VaultTyped
  <2> QED
    BY <1>1, <2>1, <2>2 DEF VaultSound, VaultTyped, slots
<1>5. Balanced'
  <2>1. /\ bucket'.lp_tokens = bucket.lp_tokens + half /\ bucket'.sell_lp = bucket.sell_lp + (s.lp - half)
        /\ bucket'.sell_creator = bucket.sell_creator + s.creator
        /\ bucket'.sell_holders = bucket.sell_holders + s.holders
        /\ bucket'.xnt_lp = bucket.xnt_lp /\ bucket'.xnt_creator = bucket.xnt_creator
        /\ bucket'.xnt_holders = bucket.xnt_holders /\ bucket'.owed = bucket.owed
    BY <1>1 DEF VaultSound, VaultTyped, Buckets, half
  <2>2. /\ bucket.lp_tokens \in Nat /\ bucket.sell_lp \in Nat /\ bucket.sell_creator \in Nat
        /\ bucket.sell_holders \in Nat /\ gifts.token \in Nat
    BY DEF VaultSound, VaultTyped, Buckets
  <2>3. Booked(bucket') = Booked(bucket) + s.lp + s.creator + s.holders
    BY <1>2, <1>3, <2>1, <2>2 DEF Booked, ToSell
  <2>4. auth_token' = Booked(bucket') + gifts.token
    <3>1. Booked(bucket) \in Nat /\ auth_token = Booked(bucket) + gifts.token
      BY <2>2 DEF VaultSound, Balanced, Booked, ToSell
    <3> QED
      BY <1>1, <1>2, <2>2, <2>3, <3>1
  <2>5. Promised(bucket)' = Promised(bucket)
    BY <1>1, <2>1 DEF Promised
  <2>6. Booked(bucket)' = Booked(bucket')
    BY DEF Booked, ToSell
  <2> QED
    BY <1>1, <2>1, <2>4, <2>5, <2>6 DEF VaultSound, Balanced
<1> QED
  BY <1>4, <1>5 DEF VaultSound

(* A sale: the buckets lose what is sold, and gain what it brings.         *)
LEMMA SellKeeps ==
  ASSUME VaultSound, NEW wanted \in Nat, SellTax(wanted), UNCHANGED gifts PROVE VaultSound'
<1> DEFINE amount == SaleOf(wanted, bucket)
           q == Quote(amount)
           take == Take(amount, bucket)
           p == Proceeds(q, amount, take)
           toOwed == IF kind = "xnt" THEN p.holders - p.reward ELSE 0
           toSwap == IF kind = "xnt" THEN 0 ELSE p.holders - p.reward
<1>1. /\ CanSell(wanted)
      /\ auth_token' = auth_token - amount
      /\ withheld' = withheld + TaxOn(amount)
      /\ auth_xnt' = auth_xnt + q - p.reward
      /\ bucket' = [bucket EXCEPT !.sell_lp = @ - take.lp, !.sell_creator = @ - take.creator,
                                  !.sell_holders = @ - take.holders,
                                  !.xnt_lp = @ + p.lp, !.xnt_creator = @ + p.creator,
                                  !.owed = @ + toOwed, !.xnt_holders = @ + toSwap]
      /\ sold_slot' = TRUE
      /\ UNCHANGED <<kind, auth_payout, opened, swapped_slot, gifts>>
  BY DEF SellTax
<1>2. bucket \in Buckets /\ ToSell(bucket) \in Nat
  BY DEF VaultSound, VaultTyped, Buckets, ToSell
<1>3. amount \in Nat \ {0} /\ amount <= ToSell(bucket)
  <2>1. SellCap \in Nat /\ amount > 0
    BY <1>1, FlowAssumption DEF CanSell
  <2> QED
    BY <1>2, <2>1 DEF SaleOf, Least
<1> HIDE DEF amount
<1>4. TaxOn(amount) \in Nat /\ q \in Nat
  BY <1>3, TaxWithin
<1> HIDE DEF q
<1>5. /\ take.lp \in Nat /\ take.creator \in Nat /\ take.holders \in Nat
      /\ take.lp <= bucket.sell_lp /\ take.creator <= bucket.sell_creator /\ take.holders <= bucket.sell_holders
      /\ take.lp + take.creator + take.holders = amount
  BY <1>2, <1>3, TakeFits
<1>6. take \in [lp : Nat, creator : Nat, holders : Nat]
  BY <1>5 DEF Take
<1> HIDE DEF take
<1>7. /\ p.lp \in Nat /\ p.creator \in Nat /\ p.holders \in Nat /\ p.reward \in Nat
      /\ p.lp + p.creator + p.holders = q /\ p.reward <= p.holders
  <2>1. take.lp + take.creator <= amount
    BY <1>3, <1>5
  <2> QED
    BY <1>3, <1>4, <1>6, <2>1, ProceedsAdd
<1> HIDE DEF p
<1>8. /\ toOwed \in Nat /\ toSwap \in Nat
      /\ kind = "xnt" => toOwed = p.holders - p.reward
      /\ kind # "xnt" => toOwed = 0 /\ toSwap = p.holders - p.reward
  BY <1>7
<1> HIDE DEF toOwed, toSwap
<1> DEFINE sl == bucket.sell_lp - take.lp  sc == bucket.sell_creator - take.creator
           sh == bucket.sell_holders - take.holders
           xl == bucket.xnt_lp + p.lp  xc == bucket.xnt_creator + p.creator
           ow == bucket.owed + toOwed  xh == bucket.xnt_holders + toSwap
<1>9. /\ sl \in Nat /\ sc \in Nat /\ sh \in Nat /\ xl \in Nat /\ xc \in Nat /\ ow \in Nat /\ xh \in Nat
  BY <1>2, <1>5, <1>7, <1>8 DEF Buckets
<1>10. bucket' = [bucket EXCEPT !.sell_lp = sl, !.sell_creator = sc, !.sell_holders = sh,
                                !.xnt_lp = xl, !.xnt_creator = xc, !.owed = ow, !.xnt_holders = xh]
  BY <1>1
<1>11. Booked(bucket) = bucket.lp_tokens + bucket.sell_lp + bucket.sell_creator + bucket.sell_holders
  BY <1>2 DEF Booked, ToSell, Buckets
<1>12. bucket.lp_tokens + sl + sc + sh = Booked(bucket) - amount
  BY <1>2, <1>3, <1>5, <1>11 DEF Buckets
<1>13. xl + xc + (IF kind = "xnt" THEN ow ELSE xh) = Promised(bucket) + q - p.reward
  BY <1>2, <1>4, <1>7, <1>8 DEF Promised, Buckets
<1>14. kind # "xnt" => ow = bucket.owed
  BY <1>2, <1>8 DEF Buckets
<1> HIDE DEF sl, sc, sh, xl, xc, ow, xh
<1>15. /\ bucket' \in Buckets
       /\ Booked(bucket)' = bucket.lp_tokens + sl + sc + sh
       /\ Promised(bucket)' = xl + xc + (IF kind = "xnt" THEN ow ELSE xh)
       /\ bucket'.owed = ow
  <2>1. /\ bucket' \in Buckets
        /\ bucket'.lp_tokens = bucket.lp_tokens
        /\ bucket'.sell_lp = sl /\ bucket'.sell_creator = sc /\ bucket'.sell_holders = sh
        /\ bucket'.xnt_lp = xl /\ bucket'.xnt_creator = xc /\ bucket'.owed = ow /\ bucket'.xnt_holders = xh
    BY <1>2, <1>9, <1>10 DEF Buckets
  <2>2. bucket.lp_tokens \in Nat
    BY <1>2 DEF Buckets
  <2> QED
    BY <1>1, <1>9, <2>1, <2>2 DEF Booked, ToSell, Promised
<1>16. /\ auth_token' = Booked(bucket)' + gifts.token /\ auth_token' \in Nat
       /\ auth_xnt' = Promised(bucket)' + gifts.xnt /\ auth_xnt' \in Nat
  <2>1. /\ auth_token = Booked(bucket) + gifts.token /\ auth_xnt = Promised(bucket) + gifts.xnt
        /\ gifts.token \in Nat /\ gifts.xnt \in Nat
    BY DEF VaultSound, VaultTyped, Balanced
  <2>2. bucket.lp_tokens \in Nat /\ Booked(bucket) \in Nat /\ Promised(bucket) \in Nat
    BY <1>2 DEF Buckets, Booked, ToSell, Promised
  <2>3. auth_token' = Booked(bucket)' + gifts.token /\ auth_token' \in Nat
    BY <1>1, <1>3, <1>9, <1>12, <1>15, <2>1, <2>2
  <2>4. auth_xnt' = Promised(bucket)' + gifts.xnt
    BY <1>1, <1>4, <1>7, <1>13, <1>15, <2>1, <2>2
  <2>5. Promised(bucket)' \in Nat
    BY <1>9, <1>15
  <2> QED
    BY <2>1, <2>3, <2>4, <2>5
<1>17. VaultTyped'
  BY <1>1, <1>4, <1>15, <1>16 DEF VaultSound, VaultTyped
<1>18. Balanced'
  BY <1>1, <1>14, <1>15, <1>16 DEF VaultSound, Balanced
<1> QED
  BY <1>17, <1>18 DEF VaultSound

(* A deposit leaves the pool's side as it leaves the buckets.              *)
LEMMA AddLiquidityKeeps ==
  ASSUME VaultSound, AddLiquidity, UNCHANGED gifts PROVE VaultSound'
<1>1. PICK n \in Deposits(bucket) :
        /\ auth_token' = auth_token - (n + TaxOn(n))
        /\ withheld' = withheld + TaxOn(n)
        /\ auth_xnt' = auth_xnt - n
        /\ bucket' = [bucket EXCEPT !.lp_tokens = @ - (n + TaxOn(n)), !.xnt_lp = @ - n]
  BY DEF AddLiquidity
<1>2. UNCHANGED <<kind, auth_payout, opened, slots, gifts>>
  BY DEF AddLiquidity
<1>3. bucket \in Buckets
  BY DEF VaultSound, VaultTyped
<1>4. n \in Nat /\ n <= bucket.xnt_lp /\ n + TaxOn(n) <= bucket.lp_tokens
  BY <1>3 DEF Deposits, Buckets
<1>5. TaxOn(n) \in Nat
  BY <1>4, TaxWithin
<1> DEFINE lt == bucket.lp_tokens - (n + TaxOn(n))  xl == bucket.xnt_lp - n
<1>6. lt \in Nat /\ xl \in Nat
  BY <1>3, <1>4, <1>5 DEF Buckets
<1>7. bucket' = [bucket EXCEPT !.lp_tokens = lt, !.xnt_lp = xl]
  BY <1>1
<1> HIDE DEF lt, xl
<1>8. /\ bucket' \in Buckets
      /\ Booked(bucket)' = lt + ToSell(bucket) /\ bucket'.owed = bucket.owed
      /\ Promised(bucket)' = xl + bucket.xnt_creator + (IF kind = "xnt" THEN bucket.owed ELSE bucket.xnt_holders)
  BY <1>2, <1>3, <1>6, <1>7 DEF Buckets, Booked, ToSell, Promised
<1>9. /\ auth_token' = Booked(bucket)' + gifts.token /\ auth_token' \in Nat
      /\ auth_xnt' = Promised(bucket)' + gifts.xnt /\ auth_xnt' \in Nat
  <2>1. /\ auth_token = Booked(bucket) + gifts.token /\ auth_xnt = Promised(bucket) + gifts.xnt
        /\ gifts.token \in Nat /\ gifts.xnt \in Nat /\ ToSell(bucket) \in Nat
    BY <1>3 DEF VaultSound, VaultTyped, Balanced, Buckets, ToSell
  <2>2. Booked(bucket) = bucket.lp_tokens + ToSell(bucket) /\ bucket.lp_tokens \in Nat
    BY <1>3 DEF Booked, Buckets
  <2>3. auth_token' = Booked(bucket)' + gifts.token /\ auth_token' \in Nat
    BY <1>1, <1>4, <1>5, <1>6, <1>8, <2>1, <2>2 DEF lt
  <2>4. auth_xnt' = Promised(bucket)' + gifts.xnt
    BY <1>1, <1>3, <1>4, <1>6, <1>8, <2>1 DEF Promised, Buckets, xl
  <2>5. Promised(bucket)' \in Nat
    BY <1>3, <1>6, <1>8 DEF Buckets
  <2> QED
    BY <2>1, <2>3, <2>4, <2>5
<1>10. VaultTyped'
  BY <1>1, <1>2, <1>5, <1>8, <1>9 DEF VaultSound, VaultTyped, slots
<1>11. Balanced'
  BY <1>2, <1>8, <1>9 DEF VaultSound, Balanced
<1> QED
  BY <1>10, <1>11 DEF VaultSound

(* The creator's swap; a shared payout account keeps what holders are owed *)
(* and nothing else, and its rent comes out of the holders' XNT.           *)
LEMMA FundCreatorKeeps ==
  ASSUME VaultSound, FundCreator PROVE VaultSound'
<1> DEFINE xnt_in == Least(bucket.xnt_creator, SwapCap)
           opening == kind = "shared" /\ ~opened
           rent == IF opening THEN OpenRent ELSE 0
           xh == bucket.xnt_holders - rent
           xc == bucket.xnt_creator - xnt_in
<1>1. /\ CanFundCreator
      /\ auth_xnt' = auth_xnt - xnt_in - rent
      /\ bucket' = [RentFrom(opening, bucket) EXCEPT !.xnt_creator = @ - xnt_in]
      /\ auth_payout' = IF kind = "shared" THEN bucket.owed ELSE auth_payout
      /\ opened' = (opened \/ opening)
      /\ swapped_slot' = TRUE
      /\ gifts' = IF kind = "shared" THEN [gifts EXCEPT !.payout = 0] ELSE gifts
      /\ UNCHANGED <<kind, withheld, auth_token, sold_slot>>
  BY DEF FundCreator
<1>2. /\ bucket \in Buckets /\ gifts \in [token : Nat, xnt : Nat, payout : Nat]
      /\ bucket.xnt_creator \in Nat /\ bucket.xnt_holders \in Nat /\ bucket.xnt_lp \in Nat /\ bucket.owed \in Nat
      /\ OpenRent \in Nat /\ SwapCap \in Nat
  BY FlowAssumption DEF VaultSound, VaultTyped, Buckets
<1>3. xnt_in \in Nat /\ xnt_in <= bucket.xnt_creator
  BY <1>2 DEF Least
<1>4. rent \in Nat /\ rent <= bucket.xnt_holders /\ (kind = "xnt" => rent = 0)
  BY <1>1, <1>2 DEF CanFundCreator
<1>5. bucket' = [bucket EXCEPT !.xnt_holders = xh, !.xnt_creator = xc]
  BY <1>1, <1>2, <1>3 DEF RentFrom, Buckets
<1>6. opened' \in BOOLEAN
  BY <1>1 DEF VaultSound, VaultTyped
<1> HIDE DEF xnt_in, rent, opening
<1>7. xh \in Nat /\ xc \in Nat
  BY <1>2, <1>3, <1>4
<1>8. xh = bucket.xnt_holders - rent /\ xc = bucket.xnt_creator - xnt_in
  OBVIOUS
<1> HIDE DEF xh, xc
<1>9. /\ bucket' \in Buckets
      /\ Booked(bucket)' = Booked(bucket) /\ bucket'.owed = bucket.owed
      /\ Promised(bucket)' = bucket.xnt_lp + xc + (IF kind = "xnt" THEN bucket.owed ELSE xh)
  BY <1>1, <1>2, <1>5, <1>7 DEF Buckets, Booked, ToSell, Promised
<1>10. /\ gifts' \in [token : Nat, xnt : Nat, payout : Nat]
       /\ gifts'.token = gifts.token /\ gifts'.xnt = gifts.xnt
       /\ kind = "shared" => gifts'.payout = 0
       /\ kind # "shared" => gifts'.payout = gifts.payout
  BY <1>1, <1>2
<1>11. auth_xnt' = Promised(bucket)' + gifts'.xnt /\ auth_xnt' \in Nat
  <2>1. auth_xnt = Promised(bucket) + gifts.xnt /\ gifts.xnt \in Nat
    BY <1>2 DEF VaultSound, Balanced
  <2>2. Promised(bucket)' = Promised(bucket) - xnt_in - rent
    BY <1>2, <1>3, <1>4, <1>7, <1>8, <1>9 DEF Promised
  <2>3. Promised(bucket) \in Nat /\ Promised(bucket)' \in Nat
    BY <1>2, <1>7, <1>9 DEF Promised
  <2> QED
    BY <1>1, <1>3, <1>4, <1>10, <2>1, <2>2, <2>3
<1>12. auth_payout' \in Nat /\ (kind # "xnt" => auth_payout' = bucket.owed + gifts'.payout)
  BY <1>1, <1>2, <1>10 DEF VaultSound, VaultTyped, Balanced
<1>13. VaultTyped'
  BY <1>1, <1>6, <1>9, <1>10, <1>11, <1>12 DEF VaultSound, VaultTyped
<1>14. Balanced'
  BY <1>1, <1>9, <1>10, <1>11, <1>12 DEF VaultSound, Balanced
<1> QED
  BY <1>13, <1>14 DEF VaultSound

(* The holders' swap turns XNT they are promised into payout tokens they   *)
(* are owed.                                                               *)
LEMMA FundHoldersKeeps ==
  ASSUME VaultSound, FundHolders, UNCHANGED gifts PROVE VaultSound'
<1> DEFINE rent == IF opened THEN 0 ELSE OpenRent
           xnt_in == Least(bucket.xnt_holders - rent, SwapCap)
           xh == bucket.xnt_holders - xnt_in - rent
           ow == bucket.owed + xnt_in
<1>1. /\ kind # "xnt" /\ xnt_in > 0
      /\ auth_xnt' = auth_xnt - xnt_in - rent
      /\ auth_payout' = auth_payout + xnt_in
      /\ bucket' = [bucket EXCEPT !.xnt_holders = xh, !.owed = ow]
      /\ opened' = TRUE /\ swapped_slot' = TRUE
      /\ UNCHANGED <<kind, withheld, auth_token, sold_slot, gifts>>
  BY DEF FundHolders, Available
<1>2. /\ bucket \in Buckets /\ gifts.xnt \in Nat /\ gifts.payout \in Nat
      /\ bucket.xnt_creator \in Nat /\ bucket.xnt_holders \in Nat /\ bucket.xnt_lp \in Nat /\ bucket.owed \in Nat
      /\ OpenRent \in Nat /\ SwapCap \in Nat
  BY FlowAssumption DEF VaultSound, VaultTyped, Buckets
<1>3. rent \in Nat
  BY <1>2
<1> HIDE DEF rent
<1>4. xnt_in \in Nat /\ xnt_in + rent <= bucket.xnt_holders
  BY <1>1, <1>2, <1>3 DEF Least
<1> HIDE DEF xnt_in
<1>5. xh \in Nat /\ ow \in Nat /\ xh = bucket.xnt_holders - xnt_in - rent /\ ow = bucket.owed + xnt_in
  BY <1>2, <1>3, <1>4
<1> HIDE DEF xh, ow
<1>6. /\ bucket' \in Buckets
      /\ Booked(bucket)' = Booked(bucket) /\ bucket'.owed = ow
      /\ Promised(bucket)' = bucket.xnt_lp + bucket.xnt_creator + xh
  BY <1>1, <1>2, <1>5 DEF Buckets, Booked, ToSell, Promised
<1>7. /\ auth_xnt' = Promised(bucket)' + gifts.xnt /\ auth_xnt' \in Nat
      /\ auth_payout' = ow + gifts.payout /\ auth_payout' \in Nat
  BY <1>1, <1>2, <1>3, <1>4, <1>5, <1>6 DEF VaultSound, Balanced, Promised
<1>8. VaultTyped'
  BY <1>1, <1>6, <1>7 DEF VaultSound, VaultTyped
<1>9. Balanced'
  BY <1>1, <1>6, <1>7 DEF VaultSound, Balanced
<1> QED
  BY <1>8, <1>9 DEF VaultSound

(* paying,                                                                 *)
LEMMA PayKeeps ==
  ASSUME VaultSound, Pay, UNCHANGED gifts PROVE VaultSound'
<1>1. /\ bucket' = [bucket EXCEPT !.owed = 0]
      /\ auth_xnt' = (IF kind = "xnt" THEN auth_xnt - bucket.owed ELSE auth_xnt)
      /\ auth_payout' = (IF kind = "xnt" THEN auth_payout ELSE auth_payout - bucket.owed)
      /\ UNCHANGED <<kind, withheld, auth_token, opened, slots, gifts>>
  BY DEF Pay
<1>2. /\ bucket \in Buckets /\ gifts.xnt \in Nat /\ gifts.payout \in Nat
      /\ bucket.xnt_creator \in Nat /\ bucket.xnt_holders \in Nat /\ bucket.xnt_lp \in Nat /\ bucket.owed \in Nat
  BY DEF VaultSound, VaultTyped, Buckets
<1>3. /\ bucket' \in Buckets /\ Booked(bucket)' = Booked(bucket) /\ bucket'.owed = 0
      /\ Promised(bucket)' = bucket.xnt_lp + bucket.xnt_creator + (IF kind = "xnt" THEN 0 ELSE bucket.xnt_holders)
  BY <1>1, <1>2 DEF Buckets, Booked, ToSell, Promised
<1>4. /\ auth_xnt' = Promised(bucket)' + gifts.xnt /\ auth_xnt' \in Nat
      /\ auth_payout' \in Nat /\ (kind # "xnt" => auth_payout' = gifts.payout)
  BY <1>1, <1>2, <1>3 DEF VaultSound, VaultTyped, Balanced, Promised
<1>5. VaultTyped'
  BY <1>1, <1>3, <1>4 DEF VaultSound, VaultTyped, slots
<1>6. Balanced'
  BY <1>1, <1>2, <1>3, <1>4 DEF VaultSound, Balanced
<1> QED
  BY <1>5, <1>6 DEF VaultSound

(* gifts,                                                                  *)
LEMMA GiftKeeps ==
  ASSUME VaultSound, NEW what \in Given, Gift(what) PROVE VaultSound'
<1>1. /\ gifts' = [gifts EXCEPT ![what] = @ + 1]
      /\ auth_token' = auth_token + (IF what = "token" THEN 1 ELSE 0)
      /\ auth_xnt' = auth_xnt + (IF what = "xnt" THEN 1 ELSE 0)
      /\ auth_payout' = auth_payout + (IF what = "payout" THEN 1 ELSE 0)
      /\ UNCHANGED <<kind, withheld, bucket, opened, slots>>
  BY DEF Gift
<1>2. what \in {"token", "xnt", "payout"}
  BY FlowAssumption
<1>3. gifts \in [token : Nat, xnt : Nat, payout : Nat]
  BY DEF VaultSound, VaultTyped
<1>4. /\ gifts' \in [token : Nat, xnt : Nat, payout : Nat]
      /\ gifts'.token = gifts.token + (IF what = "token" THEN 1 ELSE 0)
      /\ gifts'.xnt = gifts.xnt + (IF what = "xnt" THEN 1 ELSE 0)
      /\ gifts'.payout = gifts.payout + (IF what = "payout" THEN 1 ELSE 0)
  <2>1. CASE what = "token"
    BY <1>1, <1>3, <2>1
  <2>2. CASE what = "xnt"
    BY <1>1, <1>3, <2>2
  <2>3. CASE what = "payout"
    BY <1>1, <1>3, <2>3
  <2> QED
    BY <1>2, <2>1, <2>2, <2>3
<1>5. VaultTyped'
  BY <1>1, <1>4 DEF VaultSound, VaultTyped, slots
<1>6. Booked(bucket)' = Booked(bucket) /\ Promised(bucket)' = Promised(bucket)
  BY <1>1 DEF Booked, ToSell, Promised
<1>7. /\ Booked(bucket) \in Nat /\ Promised(bucket) \in Nat /\ bucket.owed \in Nat
      /\ gifts.token \in Nat /\ gifts.xnt \in Nat /\ gifts.payout \in Nat
  BY <1>3 DEF VaultSound, VaultTyped, Buckets, Booked, ToSell, Promised
<1>8. Balanced'
  BY <1>1, <1>4, <1>6, <1>7 DEF VaultSound, Balanced
<1> QED
  BY <1>5, <1>8 DEF VaultSound

(* steps that move nothing,                                                *)
LEMMA NothingMovesKeeps ==
  ASSUME VaultSound, UNCHANGED <<vault, gifts>>, sold_slot' \in BOOLEAN, swapped_slot' \in BOOLEAN
  PROVE  VaultSound'
<1>1. VaultTyped'
  BY DEF VaultSound, VaultTyped, vault
<1>2. Balanced'
  BY DEF VaultSound, Balanced, Booked, ToSell, Promised, vault
<1> QED
  BY <1>1, <1>2 DEF VaultSound

-----------------------------------------------------------------------------
(* One lemma above for every instruction; the crank only sends them.       *)
LEMMA FlowInitSound == FlowInit => EveryUnitBooked
<1> SUFFICES ASSUME FlowInit PROVE VaultSound /\ CrankTyped
  BY SoundIsBooked
<1> USE FlowAssumption DEF FlowInit, Empty
<1>1. VaultTyped
  BY DEF VaultTyped, Buckets
<1>2. Balanced
  BY DEF Balanced, Booked, ToSell, Promised
<1>3. CrankTyped
  BY DEF CrankTyped
<1> QED
  BY <1>1, <1>2, <1>3 DEF VaultSound

(* the crank's own,                                                        *)
LEMMA CrankKeeps ==
  ASSUME VaultSound, CrankTyped, CrankStep PROVE VaultSound' /\ CrankTyped'
<1>1. ToSell(bucket) \in Nat /\ sold_slot \in BOOLEAN /\ swapped_slot \in BOOLEAN
  BY DEF VaultSound, VaultTyped, Buckets, ToSell
<1>2. ASSUME Idle PROVE VaultSound'
  BY <1>1, <1>2, NothingMovesKeeps DEF Idle, Kept, slots
<1>3. ASSUME NEW step, Goes(step), UNCHANGED <<taxed, fails>>,
             step \in {"collect", "sell", "selling", "liquidity", "creator", "holders"}
      PROVE  CrankTyped'
  BY <1>3 DEF CrankTyped, Goes
<1>4. CASE CrankCollect
  <2>1. (Idle \/ (Collect /\ Kept)) /\ Goes("sell") /\ UNCHANGED fails
    BY <1>4 DEF CrankCollect, At
  <2> QED
    BY <1>2, <1>3, <2>1, CollectKeeps DEF Idle, Kept
<1>5. CASE CrankSell
  <2>1. Idle /\ UNCHANGED fails /\ (Goes("liquidity") \/ crank' = [at |-> "selling", wanted |-> ToSell(bucket)])
    BY <1>5 DEF CrankSell, At
  <2>2. CrankTyped'
    BY <1>1, <2>1 DEF CrankTyped, Goes, Idle, Kept
  <2> QED
    BY <1>2, <2>1, <2>2
<1>6. CASE CrankSold
  <2>1. crank.wanted \in Nat
    BY DEF CrankTyped
  <2>2. (Idle \/ (SellTax(crank.wanted) /\ Kept)) /\ (Goes("sell") \/ Goes("liquidity")) /\ UNCHANGED fails
    BY <1>6 DEF CrankSold, At
  <2> QED
    BY <1>2, <1>3, <2>1, <2>2, SellKeeps DEF Idle, Kept
<1>7. CASE CrankLiquidity
  <2>1. (Idle \/ (AddLiquidity /\ Kept)) /\ Goes("creator") /\ UNCHANGED fails
    BY <1>7 DEF CrankLiquidity, At
  <2> QED
    BY <1>2, <1>3, <2>1, AddLiquidityKeeps DEF Idle, Kept
<1>8. CASE CrankCreator
  <2>1. (Idle \/ (FundCreator /\ UNCHANGED taxed)) /\ (Goes("creator") \/ Goes("holders")) /\ UNCHANGED fails
    BY <1>8 DEF CrankCreator, At
  <2> QED
    BY <1>2, <1>3, <2>1, FundCreatorKeeps DEF Idle, Kept
<1>9. CASE CrankHolders
  <2>1. (Idle \/ (FundHolders /\ Kept)) /\ (Goes("holders") \/ Goes("collect")) /\ UNCHANGED fails
    BY <1>9 DEF CrankHolders, At
  <2> QED
    BY <1>2, <1>3, <2>1, FundHoldersKeeps DEF Idle, Kept
<1> QED
  BY <1>4, <1>5, <1>6, <1>7, <1>8, <1>9 DEF CrankStep

(* anyone's,                                                               *)
LEMMA AnyoneKeeps ==
  ASSUME VaultSound, Anyone PROVE VaultSound'
<1>1. CASE FundCreator
  BY <1>1, FundCreatorKeeps
<1>2. CASE Instruction /\ Kept
  <2>1. ASSUME NEW wanted \in Asks, SellTax(wanted) PROVE VaultSound'
    <3>1. wanted \in Nat
      BY FlowAssumption
    <3> QED
      BY <1>2, <2>1, <3>1, SellKeeps DEF Kept
  <2> QED
    BY <1>2, <2>1, CollectKeeps, AddLiquidityKeeps, FundHoldersKeeps, PayKeeps DEF Instruction, Kept
<1> QED
  BY <1>1, <1>2 DEF Anyone

(* and so every step.                                                      *)
LEMMA FlowNextKeeps ==
  EveryUnitBooked /\ [FlowNext]_flowVars => EveryUnitBooked'
<1> SUFFICES ASSUME VaultSound, CrankTyped, [FlowNext]_flowVars PROVE VaultSound' /\ CrankTyped'
  BY SoundIsBooked DEF EveryUnitBooked, FlowTypeOK, VaultSound, VaultTyped, Balanced, CrankTyped, Buckets
<1>1. sold_slot \in BOOLEAN /\ swapped_slot \in BOOLEAN /\ taxed \in Nat /\ fails \in Nat
  BY DEF VaultSound, VaultTyped, CrankTyped
<1>2. CASE CrankStep
  BY <1>2, CrankKeeps
<1>3. CASE StepFails
  <2>1. fails' = fails + 1 /\ Idle /\ Goes(Following)
    BY <1>3 DEF StepFails
  <2>2. Following \in {"collect", "sell", "selling", "liquidity", "creator", "holders"}
    BY DEF Following, CrankTyped
  <2>3. CrankTyped'
    BY <1>1, <2>1, <2>2 DEF CrankTyped, Goes, Idle, Kept
  <2> QED
    BY <1>1, <2>1, <2>3, NothingMovesKeeps DEF Idle, Kept, slots
<1>4. CASE Anyone
  <2>1. UNCHANGED <<taxed, crank, fails>>
    BY <1>4 DEF Anyone, Kept
  <2> QED
    BY <1>4, <2>1, AnyoneKeeps DEF CrankTyped
<1>5. CASE NextSlot
  BY <1>5, NothingMovesKeeps DEF NextSlot, CrankTyped
<1>6. ASSUME NEW tax \in Withheld, TaxedTrade(tax) PROVE VaultSound' /\ CrankTyped'
  <2>1. tax \in Nat
    BY FlowAssumption
  <2>2. /\ taxed' = taxed + tax /\ withheld' = withheld + tax
        /\ UNCHANGED <<kind, bucket, auth_token, auth_xnt, auth_payout, opened, slots, crank, gifts, fails>>
    BY <1>6 DEF TaxedTrade
  <2>3. VaultTyped'
    BY <2>1, <2>2 DEF VaultSound, VaultTyped, slots
  <2>4. Balanced'
    BY <2>2 DEF VaultSound, Balanced, Booked, ToSell, Promised
  <2> QED
    BY <1>1, <2>1, <2>2, <2>3, <2>4 DEF VaultSound, CrankTyped
<1>7. ASSUME NEW what \in Given, Gift(what) PROVE VaultSound' /\ CrankTyped'
  <2>1. UNCHANGED <<taxed, crank, fails>>
    BY <1>7 DEF Gift
  <2> QED
    BY <1>7, <2>1, GiftKeeps DEF CrankTyped
<1>8. CASE UNCHANGED flowVars
  BY <1>1, <1>8, NothingMovesKeeps DEF flowVars, slots, CrankTyped
<1> QED
  BY <1>2, <1>3, <1>4, <1>5, <1>6, <1>7, <1>8 DEF FlowNext

(* Whatever is taxed, sold, swapped, deposited, paid or given, at any      *)
(* rates and caps and in any order, auth's accounts hold every token,      *)
(* lamport and payout token the counters promise and nothing more but      *)
(* gifts (check_tokens, check_solvent, check_payout_tokens).               *)
THEOREM AlwaysBooked == FlowSpec => []EveryUnitBooked
<1> QED
  BY FlowInitSound, FlowNextKeeps, PTL DEF FlowSpec

-----------------------------------------------------------------------------
(* HolderPasses.  The book and its money.                                  *)

(* What each entry is still to be paid, and what a round counted of it.    *)
Dues == [i \in 1..count |-> Unpaid(i)]
Weights == [i \in 1..count |-> book[i].weight]

(* What the program can rely on of the book, by account.                   *)
BookTyped ==
  /\ book \in Seq(PassEntryType) /\ count <= MAX_PASSES
  /\ pass \in [Wallets -> 0..MAX_PASSES]
RoundTyped ==
  round \in [open : BOOLEAN, start_slot : Nat, weight : Nat, next : 0..MAX_PASSES, last_at : Nat]
TablesTyped ==
  tables \in [exists : BOOLEAN, indexed : Nat, lens : Seq(1..LUT_CAPACITY), holds : SUBSET Wallets]
MoneyTyped ==
  /\ allocated \in Nat /\ holders_funded \in Nat /\ holders_paid \in Nat
  /\ lamports \in [Accounts -> Nat]
TradeTyped ==
  /\ tokens \in [Wallets -> Nat]
  /\ slot \in Nat /\ moves \in Nat /\ unlocked \in Nat
  /\ in_round \in [held : Nat, tax : Nat]

(* No entry is paid more than it is owed; the vault holds what it was      *)
(* given and has not paid, and all of what was allocated and not paid is   *)
(* due to an entry; while a round is open its weight is that of the        *)
(* entries it has read.                                                    *)
EntriesPaid == \A i \in 1..count : book[i].paid <= book[i].owed
MoneyThere ==
  /\ allocated <= holders_funded
  /\ holders_paid + FSum(Dues, 1..count) = allocated
  /\ lamports[Auth] = Rent + (holders_funded - holders_paid)
RoundCounted ==
  round.open => round.next <= count /\ round.weight = FSum(Weights, 1..round.next)

(* The inductive invariant: BookSound and EntitlementsAddUp, with the sum  *)
(* of the dues and of the weights and where the lamports are.              *)
PassesInv ==
  /\ BookTyped /\ RoundTyped /\ TablesTyped /\ MoneyTyped /\ TradeTyped
  /\ fault = FALSE /\ OnePassPerWallet
  /\ EntriesPaid /\ MoneyThere /\ RoundCounted

(* It says all that BookSound says.                                        *)
LEMMA InvIsSound == PassesInv => BookSound
BY DEF PassesInv, BookTyped, RoundTyped, TablesTyped, MoneyTyped, TradeTyped, BookSound, TypeOK, NoFault

(* A function on 1..n is a sequence.                                       *)
LEMMA FunIsSeq ==
  ASSUME NEW n \in Nat, NEW S, NEW f \in [1..n -> S]
  PROVE  f \in Seq(S) /\ Len(f) = n
OBVIOUS

(* What is known of an entry.                                              *)
LEMMA Entries ==
  ASSUME BookTyped
  PROVE  /\ count \in Nat /\ IsFiniteSet(1..count)
         /\ book \in [1..count -> PassEntryType] /\ DOMAIN book = 1..count
         /\ \A i \in 1..count : /\ book[i].wallet \in Wallets /\ book[i].weight \in Nat
                                /\ book[i].owed \in Nat /\ book[i].paid \in Nat
         /\ \A i \in 1..count : Dues[i] = book[i].owed - book[i].paid /\ Dues[i] \in Int
<1>1. book \in Seq(PassEntryType)
  BY DEF BookTyped
<1>2. count \in Nat /\ book \in [1..count -> PassEntryType] /\ DOMAIN book = 1..count
  BY <1>1, LenProperties DEF count
<1>3. IsFiniteSet(1..count)
  BY <1>2, FS_Interval
<1>4. \A i \in 1..count : /\ book[i].wallet \in Wallets /\ book[i].weight \in Nat
                          /\ book[i].owed \in Nat /\ book[i].paid \in Nat
  BY <1>2 DEF PassEntryType
<1> QED
  BY <1>2, <1>3, <1>4 DEF Dues, Unpaid

(* The model's sum is the lemmas' sum.                                     *)
LEMMA SumIsF ==
  ASSUME NEW S
  PROVE  /\ SumOver(S, Unpaid) = FSum([i \in S |-> Unpaid(i)], S)
         /\ SumOver(S, Weight) = FSum([i \in S |-> Weight(i)], S)
         /\ SumOver(S, Held) = FSum([i \in S |-> Held(i)], S)
BY DEF SumOver, FSum

(* So for what the entries are due.                                        *)
LEMMA DuesSum ==
  ASSUME BookTyped, NEW S \in SUBSET (1..count)
  PROVE  SumOver(S, Unpaid) = FSum(Dues, S)
<1>1. IsFiniteSet(S)
  BY Entries, FS_Subset
<1>2. \A i \in S : [j \in S |-> Unpaid(j)][i] = Dues[i]
  BY DEF Dues
<1> QED
  BY <1>1, <1>2, SumIsF, SumSame

(* An empty book.                                                          *)
LEMMA InitPasses == Init => PassesInv
<1> SUFFICES ASSUME Init PROVE PassesInv
  OBVIOUS
<1>1. BookTyped /\ count = 0
  BY AmountsAssumption DEF Init, BookTyped, count
<1>2. RoundTyped /\ RoundCounted
  BY AmountsAssumption DEF Init, RoundTyped, NoRound, RoundCounted
<1>3. TablesTyped
  BY AmountsAssumption DEF Init, TablesTyped, NoTables
<1>4. MoneyTyped /\ lamports[Auth] = Rent
  BY AmountsAssumption DEF Init, MoneyTyped, Accounts
<1>5. TradeTyped
  BY AmountsAssumption DEF Init, TradeTyped
<1>6. fault = FALSE /\ OnePassPerWallet /\ EntriesPaid
  BY <1>1 DEF Init, OnePassPerWallet, EntriesPaid
<1>7. FSum(Dues, 1..count) = 0
  BY <1>1, SumZero, FS_Interval
<1>8. MoneyThere
  BY <1>4, <1>7, AmountsAssumption DEF Init, MoneyThere
<1> QED
  BY <1>1, <1>2, <1>3, <1>4, <1>5, <1>6, <1>8 DEF PassesInv

(* Whatever is paid of what is due, the self-checks after it hold.         *)
LEMMA PaymentsSound ==
  ASSUME PassesInv, NEW S \in SUBSET (1..count)
  PROVE  /\ FSum(Dues, S) \in Nat /\ FSum(Dues, S) <= allocated - holders_paid
         /\ PaymentSound(FSum(Dues, S), allocated)
<1>1. \A i \in 1..count : Dues[i] \in Nat
  BY Entries DEF PassesInv, EntriesPaid
<1>2. IsFiniteSet(1..count) /\ IsFiniteSet(S)
  BY Entries, FS_Subset DEF PassesInv
<1>3. FSum(Dues, S) \in Nat
  BY <1>1, <1>2, SumNat
<1>4. FSum(Dues, S) <= FSum(Dues, 1..count)
  BY <1>1, <1>2, SumSubset
<1>5. FSum(Dues, 1..count) \in Nat
  BY <1>1, <1>2, SumNat
<1>6. /\ allocated \in Nat /\ holders_funded \in Nat /\ holders_paid \in Nat
      /\ allocated <= holders_funded
      /\ holders_paid + FSum(Dues, 1..count) = allocated
      /\ lamports[Auth] = Rent + (holders_funded - holders_paid)
      /\ Rent \in Nat
  BY AmountsAssumption DEF PassesInv, MoneyTyped, MoneyThere
<1>7. FSum(Dues, S) <= allocated - holders_paid
  BY <1>3, <1>4, <1>5, <1>6
<1> DEFINE d == FSum(Dues, S)
<1> HIDE DEF d
<1>8. d \in Nat /\ d <= allocated - holders_paid
  BY <1>3, <1>7 DEF d
<1>9. PaymentSound(d, allocated)
  BY <1>6, <1>8 DEF PaymentSound
<1> QED
  BY <1>3, <1>7, <1>9 DEF d

(* Steps that leave the book, the round and the money.                     *)
LEMMA BookStands ==
  ASSUME PassesInv, UNCHANGED <<book, pass, allocated, round, pool, fault>>, TablesTyped', TradeTyped'
  PROVE  PassesInv'
<1>1. count' = count /\ Dues' = Dues /\ Weights' = Weights
  BY DEF count, Dues, Unpaid, Weights
<1>2. UNCHANGED <<allocated, holders_funded, holders_paid, lamports, round, book, pass, fault>>
  BY DEF pool
<1>3. BookTyped' /\ RoundTyped' /\ MoneyTyped' /\ fault' = FALSE /\ OnePassPerWallet' /\ EntriesPaid'
  BY <1>1, <1>2 DEF PassesInv, BookTyped, RoundTyped, MoneyTyped, OnePassPerWallet, EntriesPaid
<1>4. MoneyThere' /\ RoundCounted'
  BY <1>1, <1>2 DEF PassesInv, MoneyThere, RoundCounted
<1> QED
  BY <1>3, <1>4 DEF PassesInv

(* The transfer fee is no more than what is sent.                          *)
LEMMA FeeIsPart ==
  ASSUME NEW a \in Nat
  PROVE  TransferFee(a) \in Nat /\ TransferFee(a) <= a
<1>1. BPS \in Nat \ {0} /\ TaxBps \in 0..BPS
  BY AmountsAssumption
<1>2. PICK x \in Nat : x = a * TaxBps
  BY <1>1
<1>3. x <= a * BPS
  BY <1>1, <1>2
<1>4. PICK q \in Nat : q = (x + BPS - 1) \div BPS
  BY <1>1, <1>2
<1>5. q * BPS <= x + BPS - 1
  BY <1>1, <1>2, <1>4
<1>6. q * BPS < (a + 1) * BPS
  BY <1>1, <1>2, <1>3, <1>5
<1>7. q <= a
  BY <1>1, <1>4, <1>6
<1> QED
  BY <1>2, <1>4, <1>7 DEF TransferFee, CeilDiv

(* A taxed transfer moves tokens, never XNT.                               *)
LEMMA TradeKeeps == PassesInv /\ Trade => PassesInv'
<1> SUFFICES ASSUME PassesInv, NEW w \in Wallets, NEW v \in Wallets, NEW a \in Moves,
                    Transfer(w, v, a) \/ Buy(w, a) \/ Sell(w, a)
             PROVE  PassesInv'
  BY DEF Trade
<1>1. a \in Nat /\ TransferFee(a) \in Nat /\ TransferFee(a) <= a
  BY FeeIsPart, AmountsAssumption
<1>2. tokens \in [Wallets -> Nat] /\ moves \in Nat /\ in_round \in [held : Nat, tax : Nat]
  BY DEF PassesInv, TradeTyped
<1>3. in_round' \in [held : Nat, tax : Nat] /\ moves' \in Nat
  BY <1>1, <1>2 DEF Transfer, Buy, Sell, PayTax
<1> DEFINE f == TransferFee(a)
<1> HIDE DEF f
<1>f. f \in Nat /\ f <= a
  BY <1>1 DEF f
<1>4. tokens' \in [Wallets -> Nat]
  <2>1. CASE Transfer(w, v, a)
    <3>1. /\ w # v /\ tokens[w] >= a
          /\ tokens' = [tokens EXCEPT ![w] = tokens[w] - a, ![v] = tokens[v] + a - f]
      BY <2>1 DEF Transfer, f
    <3> QED
      BY <1>1, <1>2, <1>f, <3>1
  <2>2. CASE Buy(w, a)
    <3>1. tokens' = [tokens EXCEPT ![w] = tokens[w] + a - f]
      BY <2>2 DEF Buy, f
    <3> QED
      BY <1>1, <1>2, <1>f, <3>1
  <2>3. CASE Sell(w, a)
    BY <1>1, <1>2, <2>3 DEF Sell
  <2> QED
    BY <2>1, <2>2, <2>3
<1>5. UNCHANGED <<book, pass, allocated, round, pool, fault, tables, slot, unlocked>>
  BY DEF Transfer, Buy, Sell
<1>6. TradeTyped' /\ TablesTyped'
  BY <1>3, <1>4, <1>5 DEF PassesInv, TradeTyped, TablesTyped
<1> QED
  BY <1>5, <1>6, BookStands

(* The clock.                                                              *)
LEMMA TickKeeps == PassesInv /\ Tick => PassesInv'
<1> SUFFICES ASSUME PassesInv, Tick PROVE PassesInv'
  OBVIOUS
<1>1. TradeTyped' /\ TablesTyped'
  BY DEF PassesInv, TradeTyped, TablesTyped, Tick
<1> QED
  BY <1>1, BookStands DEF Tick

(* The smaller of two.                                                     *)
LEMMA SmallerIs ==
  ASSUME NEW a \in Int, NEW b \in Int
  PROVE  /\ Smaller(a, b) \in Int /\ Smaller(a, b) <= a /\ Smaller(a, b) <= b /\ Smaller(a, b) \in {a, b}
         /\ Larger(a, b) \in Int /\ Larger(a, b) >= a /\ Larger(a, b) >= b /\ Larger(a, b) \in {a, b}
BY DEF Smaller, Larger

(* An interval of wallets' entries has as many.                            *)
LEMMA IntervalSize ==
  ASSUME NEW a \in Nat, NEW b \in Nat
  PROVE  Cardinality((a + 1)..b) = IF b > a THEN b - a ELSE 0
BY FS_Interval

(* Writing one more batch down keeps the record a sequence of lengths.     *)
LEMMA LensGrow ==
  ASSUME NEW C \in Nat, NEW s \in Seq(1..C), NEW a \in 1..C
  PROVE  /\ Append(s, a) \in Seq(1..C)
         /\ Len(s) # 0 /\ ~(s[Larger(Len(s), 1)] + a > C)
               => [s EXCEPT ![Len(s)] = s[Len(s)] + a] \in Seq(1..C)
<1>1. Append(s, a) \in Seq(1..C)
  BY AppendProperties
<1>2. ASSUME Len(s) # 0, ~(s[Larger(Len(s), 1)] + a > C)
      PROVE  [s EXCEPT ![Len(s)] = s[Len(s)] + a] \in Seq(1..C)
  <2>1. Len(s) \in Nat /\ Len(s) \in 1..Len(s) /\ s \in [1..Len(s) -> 1..C]
    BY <1>2, LenProperties
  <2>2. Larger(Len(s), 1) = Len(s)
    BY <2>1 DEF Larger
  <2>3. s[Len(s)] \in 1..C
    BY <2>1
  <2>4. s[Len(s)] + a \in 1..C
    BY <1>2, <2>2, <2>3
  <2> QED
    BY <2>1, <2>4, ExceptSeq
<1> QED
  BY <1>1, <1>2

(* index_passes: only the tables change.                                   *)
LEMMA IndexKeeps == PassesInv /\ Index => PassesInv'
<1> SUFFICES ASSUME PassesInv, NEW m \in 0..INDEX_BATCH, IndexPasses(m) PROVE PassesInv'
  BY DEF Index
<1> DEFINE batch == Smaller(Larger(m, 1), INDEX_BATCH)
           end   == Smaller(count, tables.indexed + batch)
           added == {book[i].wallet : i \in (tables.indexed + 1)..end}
           size  == Cardinality((tables.indexed + 1)..end)
           addrs == (IF tables.exists THEN 0 ELSE 3) + 2 * size
           n     == Len(tables.lens)
           grow  == n = 0 \/ tables.lens[Larger(n, 1)] + addrs > LUT_CAPACITY
           newlens == IF grow THEN Append(tables.lens, addrs) ELSE [tables.lens EXCEPT ![n] = tables.lens[n] + addrs]
<1>1. INDEX_BATCH \in Nat \ {0} /\ LUT_CAPACITY \in Nat /\ 3 + 2 * INDEX_BATCH <= LUT_CAPACITY
  BY AmountsAssumption
<1>2. /\ tables.exists \in BOOLEAN /\ tables.indexed \in Nat
      /\ tables.lens \in Seq(1..LUT_CAPACITY) /\ tables.holds \in SUBSET Wallets
  BY DEF PassesInv, TablesTyped
<1>3. count \in Nat /\ \A i \in 1..count : book[i].wallet \in Wallets
  BY Entries DEF PassesInv
<1>4. batch \in 1..INDEX_BATCH
  BY <1>1, SmallerIs DEF Smaller, Larger
<1> HIDE DEF batch
<1>5. end \in Int /\ end <= count /\ end <= tables.indexed + batch /\ end \in {count, tables.indexed + batch}
  <2>1. tables.indexed + batch \in Int /\ count \in Int
    BY <1>2, <1>3, <1>4
  <2> QED
    BY <2>1, SmallerIs
<1> HIDE DEF end
<1>6. end \in Nat
  BY <1>2, <1>3, <1>4, <1>5
<1>7. size \in 0..batch
  BY <1>2, <1>4, <1>5, <1>6, IntervalSize
<1> HIDE DEF size
<1>8. /\ addrs > 0 /\ (grow => n < MAX_PASS_TABLES)
      /\ tables' = [exists |-> TRUE, indexed |-> end, lens |-> newlens, holds |-> tables.holds \cup added]
      /\ UNCHANGED <<book, pass, allocated, round, pool, tokens, slot, fault, history>>
  BY DEF IndexPasses, batch, end, size
<1>9. addrs \in 1..LUT_CAPACITY
  BY <1>1, <1>2, <1>4, <1>7, <1>8
<1> HIDE DEF addrs
<1>10. newlens \in Seq(1..LUT_CAPACITY)
  <2>1. CASE grow
    BY <1>1, <1>2, <1>9, <2>1, LensGrow
  <2>2. CASE ~grow
    <3>1. Len(tables.lens) # 0 /\ ~(tables.lens[Larger(Len(tables.lens), 1)] + addrs > LUT_CAPACITY)
      BY <2>2
    <3>2. [tables.lens EXCEPT ![Len(tables.lens)] = tables.lens[Len(tables.lens)] + addrs] \in Seq(1..LUT_CAPACITY)
      BY <1>1, <1>2, <1>9, <3>1, LensGrow
    <3> QED
      BY <2>2, <3>2
  <2> QED
    BY <2>1, <2>2
<1>11. added \in SUBSET Wallets
  BY <1>2, <1>3, <1>5, <1>6
<1>12. TablesTyped'
  BY <1>2, <1>6, <1>8, <1>10, <1>11 DEF TablesTyped
<1>13. TradeTyped'
  BY <1>8 DEF PassesInv, TradeTyped, history
<1> QED
  BY <1>8, <1>12, <1>13, BookStands

(* A gift to the holders raises what is funded and what is there.          *)
LEMMA SponsorKeeps == PassesInv /\ Sponsor => PassesInv'
<1> SUFFICES ASSUME PassesInv, NEW a \in Gifts, SponsorHolders(a) PROVE PassesInv'
  BY DEF Sponsor
<1>1. count' = count /\ Dues' = Dues /\ Weights' = Weights
  BY DEF count, Dues, Unpaid, Weights, SponsorHolders
<1>2. BookTyped' /\ RoundTyped' /\ TablesTyped' /\ TradeTyped' /\ fault' = FALSE /\ OnePassPerWallet' /\ EntriesPaid' /\ RoundCounted'
  BY <1>1 DEF PassesInv, BookTyped, RoundTyped, TablesTyped, TradeTyped, OnePassPerWallet, EntriesPaid, RoundCounted, SponsorHolders, history
<1>3. a \in Nat /\ Auth \in Accounts /\ Rent \in Nat
  BY AmountsAssumption DEF Accounts
<1>4. /\ allocated \in Nat /\ holders_funded \in Nat /\ holders_paid \in Nat
      /\ lamports \in [Accounts -> Nat] /\ allocated <= holders_funded
      /\ lamports[Auth] = Rent + (holders_funded - holders_paid)
      /\ holders_paid + FSum(Dues, 1..count) = allocated
  BY DEF PassesInv, MoneyTyped, MoneyThere
<1>5. /\ holders_funded' = holders_funded + a /\ lamports' = [lamports EXCEPT ![Auth] = lamports[Auth] + a]
      /\ allocated' = allocated /\ holders_paid' = holders_paid
  BY DEF SponsorHolders
<1>6. MoneyTyped'
  BY <1>3, <1>4, <1>5 DEF MoneyTyped
<1>7. MoneyThere'
  <2>1. holders_paid' + FSum(Dues', 1..count') = allocated'
    BY <1>1, <1>4, <1>5
  <2> QED
    BY <1>3, <1>4, <1>5, <2>1 DEF MoneyThere
<1> QED
  BY <1>2, <1>6, <1>7 DEF PassesInv

(* A new entry.                                                            *)
LEMMA EntryTyped ==
  ASSUME NEW w \in Wallets
  PROVE  Entry(w) \in PassEntryType /\ Entry(w).wallet = w /\ Entry(w).owed = 0 /\ Entry(w).paid = 0
BY DEF Entry, PassEntryType

(* One more term, which is zero.                                           *)
LEMMA SumAppendZero ==
  ASSUME NEW n \in Nat, NEW f, NEW g,
         \A i \in 1..n : f[i] \in Int /\ g[i] = f[i], g[n + 1] = 0
  PROVE  FSum(g, 1..(n + 1)) = FSum(f, 1..n)
<1>1. IsFiniteSet(1..n) /\ 1..(n + 1) = (1..n) \cup {n + 1} /\ n + 1 \notin 1..n
  <2>1. IsFiniteSet(1..n)
    BY FS_Interval
  <2> QED
    BY <2>1
<1>2. \A i \in 1..n : g[i] \in Int
  OBVIOUS
<1>3. FSum(g, (1..n) \cup {n + 1}) = FSum(g, 1..n) + g[n + 1]
  <2> DEFINE S == 1..n
             y == n + 1
  <2>1. IsFiniteSet(S) /\ y \notin S /\ g[y] \in Int /\ \A i \in S : g[i] \in Int
    BY <1>1, <1>2
  <2> HIDE DEF S, y
  <2>2. FSum(g, S \cup {y}) = FSum(g, S) + g[y]
    BY <2>1, SumAdd
  <2> QED
    BY <2>2 DEF S, y
<1>4. FSum(g, 1..n) = FSum(f, 1..n)
  BY <1>1, SumSame
<1>5. FSum(g, 1..n) \in Int
  BY <1>1, <1>2, SumType
<1>6. FSum(g, (1..n) \cup {n + 1}) = FSum(g, 1..n)
  BY <1>3, <1>5
<1> QED
  BY <1>1, <1>4, <1>6

(* register_pass: a new entry owes nothing.                                *)
LEMMA RegisterKeeps == PassesInv /\ Register => PassesInv'
<1> SUFFICES ASSUME PassesInv, NEW w \in Wallets, RegisterPass(w) PROVE PassesInv'
  BY DEF Register
<1>1. /\ count \in Nat /\ IsFiniteSet(1..count) /\ book \in Seq(PassEntryType)
      /\ \A i \in 1..count : book[i] \in PassEntryType /\ book[i].wallet \in Wallets /\ Dues[i] \in Int
  BY Entries DEF PassesInv, BookTyped
<1>2. /\ pass[w] = 0 /\ count < MAX_PASSES /\ book' = Append(book, Entry(w))
      /\ pass' = [pass EXCEPT ![w] = count + 1]
      /\ UNCHANGED <<allocated, round, tables, pool, tokens, slot, fault, history>>
  BY DEF RegisterPass
<1>3. /\ book' \in Seq(PassEntryType) /\ count' = count + 1
      /\ \A i \in 1..count : book'[i] = book[i]
      /\ book'[count + 1] = Entry(w)
  BY <1>1, <1>2, EntryTyped, AppendProperties DEF count
<1>4. MAX_PASSES \in Nat /\ pass \in [Wallets -> 0..MAX_PASSES]
  BY AmountsAssumption DEF PassesInv, BookTyped
<1>5. BookTyped'
  BY <1>1, <1>2, <1>3, <1>4 DEF BookTyped
<1>6. \A i \in 1..count : pass[book[i].wallet] = i /\ book[i].wallet # w
  BY <1>1, <1>2 DEF PassesInv, OnePassPerWallet
<1>7. OnePassPerWallet'
  <2>1. ASSUME NEW i \in 1..count' PROVE pass'[book'[i].wallet] = i
    <3>1. CASE i = count + 1
      <4>1. book'[i].wallet = w
        BY <1>3, <3>1, EntryTyped
      <4> QED
        BY <1>2, <1>4, <3>1, <4>1
    <3>2. CASE i \in 1..count
      BY <1>1, <1>2, <1>3, <1>4, <1>6, <3>2
    <3> QED
      BY <1>1, <1>3, <3>1, <3>2
  <2>2. ASSUME NEW v \in Wallets, pass'[v] # 0 PROVE pass'[v] <= count' /\ book'[pass'[v]].wallet = v
    <3>1. CASE v = w
      <4>1. pass'[v] = count + 1
        BY <1>2, <1>4, <3>1
      <4>2. book'[count + 1].wallet = w
        BY <1>3, EntryTyped
      <4> QED
        BY <1>1, <1>3, <3>1, <4>1, <4>2
    <3>2. CASE v # w
      <4>1. pass'[v] = pass[v] /\ pass[v] # 0 /\ pass[v] \in 0..MAX_PASSES
        BY <1>2, <1>4, <2>2, <3>2
      <4>2. pass[v] <= count /\ book[pass[v]].wallet = v
        BY <4>1 DEF PassesInv, OnePassPerWallet
      <4>3. pass[v] \in 1..count
        BY <1>1, <1>4, <4>1, <4>2
      <4> QED
        BY <1>1, <1>3, <4>1, <4>2, <4>3
    <3> QED
      BY <3>1, <3>2
  <2> QED
    BY <2>1, <2>2 DEF OnePassPerWallet
<1>8. EntriesPaid'
  <2>1. ASSUME NEW i \in 1..count' PROVE book'[i].paid <= book'[i].owed
    <3>1. CASE i = count + 1
      BY <1>3, <3>1, EntryTyped
    <3>2. CASE i \in 1..count
      BY <1>3, <3>2 DEF PassesInv, EntriesPaid
    <3> QED
      BY <1>1, <1>3, <3>1, <3>2
  <2> QED
    BY <2>1 DEF EntriesPaid
<1>9. \A i \in 1..count : Dues'[i] = Dues[i] /\ Weights'[i] = Weights[i]
  <2>1. \A i \in 1..count : i \in 1..count'
    BY <1>1, <1>3
  <2> QED
    BY <1>3, <2>1 DEF Dues, Unpaid, Weights
<1>10. Dues'[count + 1] = 0
  BY <1>1, <1>3, EntryTyped DEF Dues, Unpaid
<1>11. FSum(Dues', 1..count') = FSum(Dues, 1..count)
  BY <1>1, <1>3, <1>9, <1>10, SumAppendZero
<1>12. UNCHANGED <<allocated, holders_funded, holders_paid, lamports, round>>
  BY <1>2 DEF pool
<1>13. MoneyThere'
  BY <1>11, <1>12 DEF PassesInv, MoneyThere
<1>14. RoundCounted'
  <2>1. SUFFICES ASSUME round.open PROVE round.next <= count' /\ round.weight = FSum(Weights', 1..round.next)
    BY <1>12 DEF RoundCounted
  <2>2. round.next \in Nat /\ round.next <= count /\ round.weight = FSum(Weights, 1..round.next)
    BY <2>1, <1>4 DEF PassesInv, RoundTyped, RoundCounted
  <2>3. \A i \in 1..round.next : Weights'[i] = Weights[i]
    BY <1>1, <1>9, <2>2
  <2>4. IsFiniteSet(1..round.next)
    BY <2>2, FS_Interval
  <2>5. FSum(Weights', 1..round.next) = FSum(Weights, 1..round.next)
    BY <2>3, <2>4, SumSame
  <2> QED
    BY <1>1, <1>3, <2>2, <2>5
<1>15. RoundTyped' /\ TablesTyped' /\ MoneyTyped' /\ TradeTyped' /\ fault' = FALSE
  BY <1>2, <1>12 DEF PassesInv, RoundTyped, TablesTyped, MoneyTyped, TradeTyped, history
<1> QED
  BY <1>5, <1>7, <1>8, <1>13, <1>14, <1>15 DEF PassesInv

(* What a wallet holds is a number of tokens.                              *)
LEMMA HoldingsTyped ==
  ASSUME PassesInv
  PROVE  \A i \in 1..count : Held(i) \in Nat /\ Weight(i) \in Nat
<1>1. \A i \in 1..count : book[i].wallet \in Wallets
  BY Entries DEF PassesInv
<1>2. tokens \in [Wallets -> Nat]
  BY DEF PassesInv, TradeTyped
<1>3. \A i \in 1..count : Held(i) \in Nat
  BY <1>1, <1>2 DEF Held
<1> QED
  BY <1>3 DEF Weight

(* Reading a batch: the weight counted is that of the entries read.        *)
LEMMA ReadKeeps ==
  ASSUME PassesInv, NEW start \in Nat, NEW n \in Nat, NEW s \in Nat,
         s = FSum(Weights, 1..start), ReadEntries(start, n, s), TradeTyped'
  PROVE  PassesInv'
<1> DEFINE S == (start + 1)..(start + n)
           W == [i \in S |-> Weight(i)]
<1>1. /\ count \in Nat /\ IsFiniteSet(1..count) /\ book \in Seq(PassEntryType)
      /\ book \in [1..count -> PassEntryType]
      /\ \A i \in 1..count : /\ book[i] \in PassEntryType /\ book[i].wallet \in Wallets
                             /\ Dues[i] \in Int /\ book[i].weight \in Nat
  BY Entries DEF PassesInv, BookTyped
<1>2. /\ n > 0 /\ start + n <= count
      /\ book' = [i \in 1..count |-> IF i \in S THEN [book[i] EXCEPT !.weight = Weight(i)]
                                                ELSE book[i]]
      /\ round' = [open |-> TRUE, start_slot |-> IF start = 0 THEN slot ELSE round.start_slot,
                   weight |-> s + SumOver(S, Weight), next |-> start + n,
                   last_at |-> round.last_at]
      /\ UNCHANGED <<pass, allocated, tables, pool, tokens, slot, fault, moves>>
  BY DEF ReadEntries
<1>3. /\ \A i \in 1..count : Weight(i) \in Nat
      /\ \A i \in S : i \in 1..count /\ W[i] \in Nat
  BY <1>1, <1>2, HoldingsTyped
<1>4. /\ \A i \in 1..count : /\ book'[i] \in PassEntryType
                             /\ book'[i].wallet = book[i].wallet
                             /\ book'[i].owed = book[i].owed /\ book'[i].paid = book[i].paid
                             /\ book'[i].weight = IF i \in S THEN Weight(i) ELSE book[i].weight
      /\ book' \in [1..count -> PassEntryType]
  <2>1. ASSUME NEW i \in 1..count
        PROVE  /\ book'[i] \in PassEntryType
               /\ book'[i].wallet = book[i].wallet
               /\ book'[i].owed = book[i].owed /\ book'[i].paid = book[i].paid
               /\ book'[i].weight = IF i \in S THEN Weight(i) ELSE book[i].weight
    <3>1. CASE i \in S
      <4>1. book'[i] = [book[i] EXCEPT !.weight = Weight(i)]
        BY <1>2, <3>1
      <4>2. book[i] \in [wallet : Wallets, weight : Nat, owed : Nat, paid : Nat] /\ Weight(i) \in Nat
        BY <1>1, <1>3 DEF PassEntryType
      <4> HIDE DEF S
      <4> QED
        BY <3>1, <4>1, <4>2 DEF PassEntryType
    <3>2. CASE i \notin S
      BY <1>1, <1>2, <3>2
    <3> QED
      BY <3>1, <3>2
  <2>2. book' = [i \in 1..count |-> book'[i]]
    BY <1>2
  <2> HIDE DEF S
  <2> QED
    BY <2>1, <2>2
<1>5. book' \in Seq(PassEntryType) /\ count' = count
  BY <1>1, <1>4, FunIsSeq DEF count
<1>6. BookTyped' /\ OnePassPerWallet' /\ EntriesPaid'
  BY <1>2, <1>4, <1>5 DEF PassesInv, BookTyped, OnePassPerWallet, EntriesPaid
<1>7. \A i \in 1..count : Dues'[i] = Dues[i]
  BY <1>4, <1>5 DEF Dues, Unpaid
<1>8. FSum(Dues', 1..count') = FSum(Dues, 1..count)
  BY <1>1, <1>5, <1>7, SumSame
<1>9. UNCHANGED <<allocated, holders_funded, holders_paid, lamports>>
  BY <1>2 DEF pool
<1>10. MoneyThere' /\ MoneyTyped'
  BY <1>8, <1>9 DEF PassesInv, MoneyThere, MoneyTyped
<1>11. SumOver(S, Weight) = FSum(W, S)
  BY SumIsF
<1>f. IsFiniteSet(S) /\ IsFiniteSet(1..start)
  BY FS_Interval
<1>12. FSum(W, S) \in Nat
  <2> HIDE DEF S, W
  <2> QED
    BY <1>3, <1>f, SumNat
<1>13. \A i \in 1..count : Weights'[i] = IF i \in S THEN W[i] ELSE Weights[i]
  BY <1>4, <1>5 DEF Weights
<1>14. FSum(Weights', 1..(start + n)) = s + FSum(W, S)
  <2>0. /\ \A i \in 1..start : i \in 1..count /\ i \notin S
        /\ \A i \in 1..(start + n) : i \in 1..count
    BY <1>1, <1>2
  <2>1. \A i \in 1..(start + n) : Weights'[i] \in Int
    <3>1. \A i \in 1..count : Weights[i] \in Int
      BY <1>1 DEF Weights
    <3> HIDE DEF S, W
    <3> QED
      BY <1>3, <1>13, <2>0, <3>1
  <2>2. FSum(Weights', 1..(start + n)) = FSum(Weights', 1..start) + FSum(Weights', S)
    <3> DEFINE f == Weights'
    <3>1. \A i \in 1..(start + n) : f[i] \in Int
      BY <2>1
    <3>2. S \cap 1..start = {} /\ (1..start) \cup S = 1..(start + n)
      OBVIOUS
    <3>3. \A i \in (1..start) \cup S : f[i] \in Int
      BY <3>1, <3>2
    <3> DEFINE R == 1..start
    <3> HIDE DEF f, S, R
    <3>4. FSum(f, R \cup S) = FSum(f, R) + FSum(f, S)
      <4>1. IsFiniteSet(R) /\ IsFiniteSet(S) /\ R \cap S = {} /\ \A i \in R \cup S : f[i] \in Int
        BY <1>f, <3>2, <3>3 DEF R
      <4> QED
        BY <4>1, SumUnion
    <3> QED
      BY <3>2, <3>4 DEF f, R
  <2>3. FSum(Weights', 1..start) = FSum(Weights, 1..start)
    <3>1. \A i \in 1..start : Weights'[i] = Weights[i]
      BY <1>13, <2>0
    <3> QED
      BY <1>f, <3>1, SumSame
  <2>4. FSum(Weights', S) = FSum(W, S)
    <3> HIDE DEF S, W
    <3>1. \A i \in S : Weights'[i] = W[i]
      BY <1>3, <1>13
    <3> QED
      BY <1>f, <3>1, SumSame
  <2> HIDE DEF S, W
  <2> QED
    BY <2>2, <2>3, <2>4
<1>15. RoundTyped' /\ RoundCounted'
  <2>1. round \in [open : BOOLEAN, start_slot : Nat, weight : Nat, next : 0..MAX_PASSES,
                   last_at : Nat] /\ slot \in Nat /\ count <= MAX_PASSES /\ MAX_PASSES \in Nat
    BY AmountsAssumption DEF PassesInv, RoundTyped, TradeTyped, BookTyped
  <2>2. s + SumOver(S, Weight) \in Nat /\ start + n \in 0..MAX_PASSES
    BY <1>1, <1>2, <1>11, <1>12, <2>1
  <2>3. /\ round'.next = start + n /\ round'.weight = s + SumOver(S, Weight)
        /\ round'.start_slot \in {slot, round.start_slot} /\ round'.open = TRUE
    BY <1>2
  <2> HIDE DEF S, W
  <2>4. RoundTyped'
    BY <1>2, <2>1, <2>2 DEF RoundTyped
  <2> QED
    BY <1>2, <1>5, <1>11, <1>14, <2>3, <2>4 DEF RoundCounted
<1> QED
  BY <1>2, <1>6, <1>10, <1>15 DEF PassesInv, TablesTyped

(* open_round reads its first batch.                                       *)
LEMMA OpenKeeps == PassesInv /\ Open => PassesInv'
<1> SUFFICES ASSUME PassesInv, NEW n \in 1..MAX_PASSES, OpenRound(n) PROVE PassesInv'
  BY DEF Open
<1>1. allocated <= holders_funded /\ allocated \in Nat /\ holders_funded \in Nat
  BY DEF PassesInv, MoneyThere, MoneyTyped
<1>2. ReadEntries(0, n, 0) /\ in_round' = [held |-> SumOver(1..count, Held), tax |-> 0] /\ unlocked' = 0
  BY <1>1 DEF OpenRound
<1>3. SumOver(1..count, Held) \in Nat
  <2>1. \A i \in 1..count : [j \in 1..count |-> Held(j)][i] \in Nat
    BY HoldingsTyped
  <2>2. IsFiniteSet(1..count)
    BY Entries DEF PassesInv
  <2> QED
    BY <2>1, <2>2, SumIsF, SumNat
<1>4. TradeTyped'
  BY <1>2, <1>3 DEF PassesInv, TradeTyped, ReadEntries
<1>5. FSum(Weights, 1..0) = 0
  BY FS_Interval, SumZero
<1> QED
  BY <1>2, <1>4, <1>5, ReadKeeps, AmountsAssumption

(* batch_round reads the next one.                                         *)
LEMMA BatchKeeps == PassesInv /\ Batch => PassesInv'
<1> SUFFICES ASSUME PassesInv, NEW start \in 1..MAX_PASSES, NEW n \in 1..MAX_PASSES, NextBatch(start, n)
             PROVE  PassesInv'
  BY DEF Batch
<1>1. /\ RoundLive /\ start = round.next /\ ReadEntries(start, n, round.weight)
      /\ UNCHANGED <<in_round, unlocked>>
  BY DEF NextBatch
<1>2. round.weight \in Nat /\ round.weight = FSum(Weights, 1..start)
  BY <1>1 DEF PassesInv, RoundTyped, RoundCounted, RoundLive
<1>3. TradeTyped'
  BY <1>1 DEF PassesInv, TradeTyped, ReadEntries
<1> QED
  BY <1>1, <1>2, <1>3, ReadKeeps, AmountsAssumption

(* One entry leaves a book, the last one takes its place.                  *)
LEMMA SumSwap ==
  ASSUME NEW n \in Nat \ {0}, NEW i \in 1..n, NEW f, NEW g,
         \A j \in 1..n : f[j] \in Int,
         \A j \in 1..(n - 1) : g[j] = IF j = i THEN f[n] ELSE f[j]
  PROVE  FSum(g, 1..(n - 1)) = FSum(f, 1..n) - f[i]
<1> DEFINE S == 1..n
           T == 1..(n - 1)
<1>1. IsFiniteSet(S) /\ IsFiniteSet(T)
  BY FS_Interval
<1>2. S \ {n} = T /\ n \in S /\ (i = n \/ i \in T) /\ f[n] \in Int /\ f[i] \in Int
  OBVIOUS
<1>3. \A j \in T : f[j] \in Int /\ g[j] \in Int
  OBVIOUS
<1>4. \A j \in S : f[j] \in Int
  OBVIOUS
<1>5. /\ \A j \in T : j # n
      /\ \A j \in T : g[j] = IF j = i THEN f[n] ELSE f[j]
  OBVIOUS
<1> HIDE DEF S, T
<1>6. FSum(f, S) = f[n] + FSum(f, T)
  BY <1>1, <1>2, <1>4, SumRemove
<1>7. FSum(f, T) \in Int
  BY <1>1, <1>3, SumType
<1>8. FSum(g, T) = FSum(f, S) - f[i]
  <2>1. CASE i = n
    <3>1. FSum(g, T) = FSum(f, T)
      BY <1>1, <1>5, <2>1, SumSame
    <3> QED
      BY <1>2, <1>6, <1>7, <2>1, <3>1
  <2>2. CASE i \in T
    <3>1. g[i] = f[n] /\ \A j \in T \ {i} : g[j] = f[j]
      BY <1>5, <2>2
    <3>2. FSum(g, T) = FSum(f, T) + (g[i] - f[i])
      <4> DEFINE y == i
      <4>1. y \in T /\ \A j \in T \ {y} : g[j] = f[j]
        BY <2>2, <3>1
      <4> HIDE DEF y
      <4>2. FSum(g, T) = FSum(f, T) + (g[y] - f[y])
        BY <1>1, <1>3, <4>1, SumUpdate
      <4> QED
        BY <4>2 DEF y
    <3> QED
      BY <1>2, <1>6, <1>7, <3>1, <3>2
  <2> QED
    BY <1>2, <2>1, <2>2
<1> QED
  BY <1>8 DEF S, T

(* pay_passes: what is paid leaves the dues and the account alike.         *)
LEMMA PaySomeKeeps == PassesInv /\ PaySome => PassesInv'
<1> SUFFICES ASSUME PassesInv, NEW S \in SUBSET (1..count), PayPasses(S) PROVE PassesInv'
  BY DEF PaySome
<1> DEFINE amount == FSum(Dues, S)
<1>1. /\ count \in Nat /\ IsFiniteSet(1..count) /\ book \in Seq(PassEntryType)
      /\ book \in [1..count -> PassEntryType]
      /\ \A i \in 1..count : /\ book[i] \in PassEntryType /\ book[i].wallet \in Wallets
                             /\ book[i].owed \in Nat /\ book[i].paid \in Nat
                             /\ Dues[i] \in Int /\ Dues[i] = book[i].owed - book[i].paid
  BY Entries DEF PassesInv, BookTyped
<1>2. SumOver(S, Unpaid) = amount
  BY DuesSum DEF PassesInv
<1>3. /\ amount \in Nat /\ amount <= allocated - holders_paid
      /\ PaymentSound(amount, allocated)
  BY PaymentsSound
<1> HIDE DEF amount
<1>4. /\ book' = [i \in 1..count |-> IF i \in S THEN [book[i] EXCEPT !.paid = book[i].owed] ELSE book[i]]
      /\ holders_paid' = holders_paid + amount
      /\ lamports' = [a \in Accounts |-> IF a = Auth THEN lamports[a] - amount
                        ELSE lamports[a] + SumOver({i \in S : book[i].wallet = a}, Unpaid)]
      /\ UNCHANGED <<pass, allocated, round, tables, holders_funded, tokens, slot, fault, history>>
  BY <1>2, <1>3 DEF PayPasses
<1>5. /\ \A i \in 1..count : /\ book'[i] \in PassEntryType
                             /\ book'[i].wallet = book[i].wallet /\ book'[i].weight = book[i].weight
                             /\ book'[i].owed = book[i].owed
                             /\ book'[i].paid = IF i \in S THEN book[i].owed ELSE book[i].paid
      /\ book' \in [1..count -> PassEntryType]
  <2>1. ASSUME NEW i \in 1..count
        PROVE  /\ book'[i] \in PassEntryType
               /\ book'[i].wallet = book[i].wallet /\ book'[i].weight = book[i].weight
               /\ book'[i].owed = book[i].owed
               /\ book'[i].paid = IF i \in S THEN book[i].owed ELSE book[i].paid
    <3>1. CASE i \in S
      <4>1. book'[i] = [book[i] EXCEPT !.paid = book[i].owed]
        BY <1>4, <3>1
      <4>2. book[i] \in [wallet : Wallets, weight : Nat, owed : Nat, paid : Nat] /\ book[i].owed \in Nat
        BY <1>1 DEF PassEntryType
      <4> QED
        BY <3>1, <4>1, <4>2 DEF PassEntryType
    <3>2. CASE i \notin S
      BY <1>1, <1>4, <3>2
    <3> QED
      BY <3>1, <3>2
  <2>2. book' = [i \in 1..count |-> book'[i]]
    BY <1>4
  <2> QED
    BY <2>1, <2>2
<1>6. book' \in Seq(PassEntryType) /\ count' = count
  BY <1>1, <1>5, FunIsSeq DEF count
<1>7. BookTyped' /\ OnePassPerWallet'
  BY <1>4, <1>5, <1>6 DEF PassesInv, BookTyped, OnePassPerWallet
<1>8. EntriesPaid'
  BY <1>1, <1>5, <1>6 DEF PassesInv, EntriesPaid
<1>9. \A i \in 1..count : Dues'[i] = IF i \in S THEN 0 ELSE Dues[i]
  <2>1. \A i \in 1..count : Dues'[i] = book'[i].owed - book'[i].paid
    BY <1>6 DEF Dues, Unpaid
  <2>2. ASSUME NEW i \in 1..count PROVE Dues'[i] = IF i \in S THEN 0 ELSE Dues[i]
    <3>1. CASE i \in S
      <4>1. book'[i].paid = book[i].owed /\ book'[i].owed = book[i].owed /\ book[i].owed \in Nat
        BY <1>1, <1>5, <3>1
      <4> QED
        BY <2>1, <3>1, <4>1
    <3>2. CASE i \notin S
      BY <1>1, <1>5, <2>1, <3>2
    <3> QED
      BY <3>1, <3>2
  <2> QED
    BY <2>2
<1>10. FSum(Dues', 1..count') = FSum(Dues, 1..count) - amount
  <2>1. \A i \in S : Dues'[i] = 0
    BY <1>9
  <2>2. \A i \in (1..count) \ S : Dues'[i] = Dues[i]
    BY <1>9
  <2>3. FSum(Dues', 1..count) = FSum(Dues, 1..count) - FSum(Dues, S)
    BY <1>1, <2>1, <2>2, SumDrop
  <2> QED
    BY <1>6, <2>3 DEF amount
<1>11. Weights' = Weights
  BY <1>5, <1>6 DEF Weights
<1>12. /\ allocated \in Nat /\ holders_funded \in Nat /\ holders_paid \in Nat
       /\ lamports \in [Accounts -> Nat] /\ allocated <= holders_funded
       /\ lamports[Auth] = Rent + (holders_funded - holders_paid)
       /\ holders_paid + FSum(Dues, 1..count) = allocated
       /\ Rent \in Nat /\ Auth \in Accounts
  BY AmountsAssumption DEF PassesInv, MoneyTyped, MoneyThere, Accounts
<1>13. FSum(Dues, 1..count) \in Int
  BY <1>1, SumType
<1>14. MoneyThere'
  <2>1. holders_paid' + FSum(Dues', 1..count') = allocated'
    BY <1>3, <1>4, <1>10, <1>12, <1>13
  <2>2. lamports'[Auth] = lamports[Auth] - amount
    BY <1>4, <1>12
  <2> QED
    BY <1>3, <1>4, <1>12, <2>1, <2>2 DEF MoneyThere
<1>15. \A a \in Accounts : lamports'[a] \in Nat
  <2>1. ASSUME NEW a \in Accounts PROVE lamports'[a] \in Nat
    <3>1. CASE a = Auth
      BY <1>3, <1>4, <1>12, <3>1
    <3>2. CASE a # Auth
      <4> DEFINE T == {i \in S : book[i].wallet = a}
      <4>1. T \in SUBSET (1..count)
        OBVIOUS
      <4>2. FSum(Dues, T) \in Nat
        BY <4>1, PaymentsSound
      <4>3. SumOver(T, Unpaid) = FSum(Dues, T)
        BY <4>1, DuesSum DEF PassesInv
      <4>4. lamports'[a] = lamports[a] + SumOver(T, Unpaid)
        BY <1>4, <3>2
      <4> HIDE DEF T
      <4> QED
        BY <1>12, <4>2, <4>3, <4>4
    <3> QED
      BY <3>1, <3>2
  <2> QED
    BY <2>1
<1>16. MoneyTyped'
  <2>1. lamports' = [a \in Accounts |-> lamports'[a]]
    BY <1>4
  <2>2. lamports' \in [Accounts -> Nat]
    BY <1>15, <2>1
  <2> QED
    BY <1>3, <1>4, <1>12, <2>2 DEF MoneyTyped
<1>17. RoundCounted' /\ RoundTyped' /\ TablesTyped' /\ TradeTyped' /\ fault' = FALSE
  BY <1>4, <1>6, <1>11 DEF PassesInv, RoundCounted, RoundTyped, TablesTyped, TradeTyped, history
<1> QED
  BY <1>7, <1>8, <1>14, <1>16, <1>17 DEF PassesInv

(* A share of a whole, rounded down, is no more than the whole.            *)
LEMMA PartOfWhole ==
  ASSUME NEW a \in Nat, NEW p \in Nat, NEW q \in Nat \ {0}, p <= q
  PROVE  (a * p) \div q \in Nat /\ (a * p) \div q <= a
<1>1. PICK x \in Nat : x = a * p
  OBVIOUS
<1>2. x <= a * q
  BY <1>1
<1>3. PICK y \in Nat : y = x \div q
  BY <1>1
<1>4. y * q <= x
  BY <1>1, <1>3
<1>5. y * q < (a + 1) * q
  BY <1>2, <1>4
<1>6. y <= a
  BY <1>3, <1>5
<1> QED
  BY <1>1, <1>3, <1>6

(* Division stays in the naturals.                                         *)
LEMMA DivIsNat ==
  ASSUME NEW a \in Nat, NEW q \in Nat \ {0}
  PROVE  a \div q \in Nat /\ (a \div q) * q <= a
OBVIOUS

(* What is allocated at a price is a natural, and no more than the pot.    *)
LEMMA AllocIs ==
  ASSUME NEW pot \in Nat, NEW w \in Nat, NEW r \in Nat
  PROVE  /\ RoundAlloc(pot, w, r) \in Nat /\ RoundAlloc(pot, w, r) <= pot
         /\ RoundReward(RoundAlloc(pot, w, r)) \in Nat
         /\ RoundReward(RoundAlloc(pot, w, r)) <= RoundAlloc(pot, w, r)
<1> DEFINE value == (w * r) \div ReserveToken
           fee == TransferFee(w)
           bps == PassCapBps(fee, w)
           cap == (value * bps) \div BPS
           alloc == RoundAlloc(pot, w, r)
<1>1. /\ BPS \in Nat \ {0} /\ ReserveToken \in Nat \ {0} /\ ROUND_REWARD_BPS \in Nat
      /\ ROUND_REWARD_BPS <= BPS /\ ROUND_REWARD_CAP \in Nat
      /\ POT_CAP_PCT_OF_TAX \in Nat
  BY AmountsAssumption
<1>2. value \in Nat
  <2>1. w * r \in Nat
    OBVIOUS
  <2> QED
    BY <1>1, <2>1, DivIsNat
<1>3. fee \in Nat
  BY FeeIsPart
<1>4. bps \in Nat
  <2>1. CASE w = 0
    BY <2>1 DEF PassCapBps
  <2>2. CASE w # 0
    <3> HIDE DEF fee
    <3>1. fee * BPS \in Nat
      BY <1>1, <1>3
    <3>2. (fee * BPS) \div w \in Nat
      BY <2>2, <3>1, DivIsNat
    <3>3. ((fee * BPS) \div w) * POT_CAP_PCT_OF_TAX \in Nat
      BY <1>1, <3>2
    <3>4. (((fee * BPS) \div w) * POT_CAP_PCT_OF_TAX) \div 100 \in Nat
      BY <3>3, DivIsNat
    <3> QED
      BY <2>2, <3>4 DEF PassCapBps
  <2> QED
    BY <2>1, <2>2
<1>5. cap \in Nat
  <2> HIDE DEF value, bps
  <2>1. value * bps \in Nat
    BY <1>2, <1>4
  <2> QED
    BY <1>1, <2>1, DivIsNat
<1>6. alloc = Smaller(pot, cap)
  BY DEF RoundAlloc
<1>7. alloc \in Nat /\ alloc <= pot
  <2> HIDE DEF cap, alloc
  <2> QED
    BY <1>5, <1>6 DEF Smaller
<1> HIDE DEF alloc
<1>8. (alloc * ROUND_REWARD_BPS) \div BPS \in Nat /\ (alloc * ROUND_REWARD_BPS) \div BPS <= alloc
  BY <1>1, <1>7, PartOfWhole
<1>9. RoundReward(alloc) \in Nat /\ RoundReward(alloc) <= alloc
  BY <1>1, <1>7, <1>8 DEF RoundReward, Smaller
<1> QED
  BY <1>7, <1>9 DEF alloc

(* What is shared out by weight is no more than there was to share.        *)
LEMMA WeightsFit ==
  ASSUME NEW S, IsFiniteSet(S), NEW w, NEW h, NEW a \in Nat, NEW total \in Nat \ {0},
         \A x \in S : w[x] \in Nat, total = FSum(w, S),
         \A x \in S : h[x] \in Nat /\ total * h[x] <= a * w[x]
  PROVE  FSum(h, S) \in Nat /\ FSum(h, S) <= a
<1> DEFINE p == [x \in S |-> total * h[x]]
           q == [x \in S |-> a * w[x]]
<1>1. /\ \A x \in S : p[x] \in Int /\ q[x] \in Int /\ p[x] <= q[x]
      /\ \A x \in S : h[x] \in Int /\ p[x] = total * h[x]
      /\ \A x \in S : w[x] \in Int /\ q[x] = a * w[x]
  OBVIOUS
<1> HIDE DEF p, q
<1>2. FSum(p, S) <= FSum(q, S)
  BY <1>1, SumMonotone
<1>3. FSum(p, S) = total * FSum(h, S)
  <2>1. total \in Int
    OBVIOUS
  <2> QED
    BY <1>1, <2>1, SumScale
<1>4. FSum(q, S) = a * FSum(w, S)
  <2>1. a \in Int
    OBVIOUS
  <2> QED
    BY <1>1, <2>1, SumScale
<1>5. FSum(h, S) \in Nat
  BY SumNat
<1>6. PICK m \in Nat : m = FSum(h, S)
  BY <1>5
<1>7. total * m <= a * total
  BY <1>2, <1>3, <1>4, <1>6
<1>8. m <= a
  <2>1. a * total = total * a
    OBVIOUS
  <2>2. CASE m > a
    <3>1. m >= a + 1
      BY <2>2
    <3>2. total * m >= total * (a + 1)
      BY <3>1
    <3>3. total * (a + 1) = total * a + total
      OBVIOUS
    <3> QED
      BY <1>7, <2>1, <3>2, <3>3
  <2> QED
    BY <2>2
<1> QED
  BY <1>6, <1>8

(* A pass's share is a natural.                                            *)
LEMMA ShareIs ==
  ASSUME NEW a \in Nat, NEW w \in Nat, NEW total \in Nat \ {0}
  PROVE  PassShare(a, w, total) \in Nat /\ total * PassShare(a, w, total) <= a * w
<1>1. PICK x \in Nat : x = a * w
  OBVIOUS
<1>2. x \div total \in Nat /\ (x \div total) * total <= x
  BY DivIsNat
<1>3. PICK y \in Nat : y = x \div total
  BY <1>2
<1> QED
  BY <1>1, <1>2, <1>3 DEF PassShare

(* What close_round allocates at the price r, to the caller and to each    *)
(* pass.                                                                   *)
CloseAlloc(r) == RoundAlloc(holders_funded - allocated, round.weight, r)
CloseReward(r) == IF round.weight > 0 THEN RoundReward(CloseAlloc(r)) ELSE 0
CloseShares(r) ==
  [i \in 1..count |-> IF round.weight > 0 /\ CloseAlloc(r) - CloseReward(r) > 0 /\ book[i].weight > 0
                      THEN PassShare(CloseAlloc(r) - CloseReward(r), book[i].weight, round.weight) ELSE 0]
CloseTotal(r) == FSum(CloseShares(r), 1..count)

(* The shares and the reward fit what was free, so the self-checks hold.   *)
LEMMA CloseFits ==
  ASSUME PassesInv, NEW r \in Nat, RoundLive, round.next = count
  PROVE  /\ CloseReward(r) \in Nat /\ CloseTotal(r) \in Nat
         /\ \A i \in 1..count : CloseShares(r)[i] \in Nat
         /\ CloseTotal(r) + CloseReward(r) <= CloseAlloc(r)
         /\ CloseTotal(r) + CloseReward(r) <= holders_funded - allocated
         /\ CloseAlloc(r) \in Nat
<1>1. /\ count \in Nat /\ IsFiniteSet(1..count)
      /\ \A i \in 1..count : book[i].weight \in Nat
  BY Entries DEF PassesInv
<1>2. /\ allocated \in Nat /\ holders_funded \in Nat /\ holders_funded - allocated \in Nat
  BY DEF PassesInv, MoneyTyped, MoneyThere
<1>3. round.weight \in Nat /\ round.weight = FSum(Weights, 1..count)
  BY DEF PassesInv, RoundTyped, RoundCounted, RoundLive
<1> DEFINE pot == holders_funded - allocated
           total == round.weight
           alloc0 == CloseAlloc(r)
           reward == CloseReward(r)
           alloc == alloc0 - reward
           h == CloseShares(r)
           S == 1..count
<1>4. alloc0 \in Nat /\ alloc0 <= pot /\ RoundReward(alloc0) \in Nat /\ RoundReward(alloc0) <= alloc0
  BY <1>2, <1>3, AllocIs DEF CloseAlloc
<1>5. reward \in Nat /\ reward <= alloc0
  BY <1>3, <1>4 DEF CloseReward
<1>6. \A i \in S : h[i] = IF total > 0 /\ alloc > 0 /\ book[i].weight > 0
                          THEN PassShare(alloc, book[i].weight, total) ELSE 0
  BY DEF CloseShares
<1>7. \A i \in S : Weights[i] = book[i].weight
  BY DEF Weights
<1>8. pot \in Nat /\ total \in Nat
  BY <1>2, <1>3
<1> HIDE DEF pot, total, alloc0, reward, h, S
<1>9. alloc \in Nat /\ alloc + reward <= pot /\ alloc + reward = alloc0
  BY <1>4, <1>5, <1>8
<1> HIDE DEF alloc
<1>10. IsFiniteSet(S) /\ \A i \in S : book[i].weight \in Nat
  BY <1>1 DEF S
<1>11. CASE total = 0
  <2>1. \A i \in S : h[i] = 0
    BY <1>6, <1>11
  <2>2. FSum(h, S) = 0
    BY <1>10, <2>1, SumZero
  <2> QED
    BY <1>4, <1>5, <1>8, <1>9, <2>1, <2>2 DEF h, S, reward, alloc0, pot, CloseTotal
<1>12. CASE total # 0
  <2>1. ASSUME NEW i \in S PROVE h[i] \in Nat /\ total * h[i] <= alloc * Weights[i]
    <3>1. book[i].weight \in Nat /\ Weights[i] = book[i].weight
      BY <1>7, <1>10
    <3>2. CASE alloc > 0 /\ book[i].weight > 0
      <4>1. h[i] = PassShare(alloc, book[i].weight, total) /\ total \in Nat \ {0}
        BY <1>6, <1>8, <1>12, <3>2
      <4>2. /\ PassShare(alloc, book[i].weight, total) \in Nat
            /\ total * PassShare(alloc, book[i].weight, total) <= alloc * book[i].weight
        BY <1>9, <3>1, <4>1, ShareIs
      <4> QED
        BY <3>1, <4>1, <4>2
    <3>3. CASE ~(alloc > 0 /\ book[i].weight > 0)
      <4>1. h[i] = 0
        BY <1>6, <3>3
      <4> QED
        BY <1>8, <1>9, <3>1, <4>1
    <3> QED
      BY <3>2, <3>3
  <2>2. total = FSum(Weights, S) /\ \A i \in S : Weights[i] \in Nat
    BY <1>3, <1>7, <1>10 DEF total, S
  <2>3. total \in Nat \ {0}
    BY <1>8, <1>12
  <2>4. FSum(h, S) \in Nat /\ FSum(h, S) <= alloc
    BY <1>9, <1>10, <2>1, <2>2, <2>3, WeightsFit
  <2>5. FSum(h, S) + reward <= pot /\ FSum(h, S) + reward <= alloc0
    <3> DEFINE s == FSum(h, S)
    <3> HIDE DEF s
    <3>1. s \in Nat /\ s <= alloc
      BY <2>4 DEF s
    <3>2. s + reward <= pot /\ s + reward <= alloc0
      BY <1>4, <1>5, <1>8, <1>9, <3>1
    <3> QED
      BY <3>2 DEF s
  <2>6. \A i \in S : h[i] \in Nat
    BY <2>1
  <2> QED
    BY <1>4, <1>5, <2>4, <2>5, <2>6 DEF h, S, reward, alloc0, pot, CloseTotal
<1> QED
  BY <1>11, <1>12

(* close_round, in these words.                                            *)
LEMMA CloseIs ==
  ASSUME PassesInv, NEW r \in Reserves, CloseRound(r)
  PROVE  /\ RoundLive /\ round.next = count
         /\ book' = [i \in 1..count |-> [book[i] EXCEPT !.owed = @ + CloseShares(r)[i]]]
         /\ allocated' = allocated + CloseTotal(r) + CloseReward(r)
         /\ round' = [round EXCEPT !.open = FALSE, !.last_at = slot]
         /\ holders_paid' = holders_paid + CloseReward(r)
         /\ lamports' = [lamports EXCEPT ![Auth] = lamports[Auth] - CloseReward(r),
                                         ![Caller] = lamports[Caller] + CloseReward(r)]
         /\ UNCHANGED <<pass, tables, holders_funded, tokens, slot, fault, history>>
<1> DEFINE share(i) == IF round.weight > 0 /\ CloseAlloc(r) - CloseReward(r) > 0 /\ book[i].weight > 0
                    THEN PassShare(CloseAlloc(r) - CloseReward(r), book[i].weight, round.weight) ELSE 0
           now == allocated + SumOver(1..count, share) + CloseReward(r)
<1>1. /\ RoundLive /\ round.next = count
      /\ IF holders_funded < allocated \/ ~PaymentSound(CloseReward(r), now) THEN Abort
         ELSE /\ book' = [i \in 1..count |-> [book[i] EXCEPT !.owed = @ + share(i)]]
              /\ allocated' = now
              /\ round' = [round EXCEPT !.open = FALSE, !.last_at = slot]
              /\ holders_paid' = holders_paid + CloseReward(r)
              /\ lamports' = [lamports EXCEPT ![Auth] = @ - CloseReward(r), ![Caller] = @ + CloseReward(r)]
              /\ UNCHANGED <<pass, tables, holders_funded, tokens, slot, fault, history>>
  BY DEF CloseRound, CloseAlloc, CloseReward
<1>2. \A i \in 1..count : share(i) = CloseShares(r)[i]
  BY DEF CloseShares
<1>3. SumOver(1..count, share) = CloseTotal(r)
  <2>1. CloseShares(r) = [i \in 1..count |-> share(i)]
    BY DEF CloseShares
  <2> HIDE DEF share
  <2> QED
    BY <2>1 DEF SumOver, CloseTotal, FSum
<1> HIDE DEF share
<1>4. now = allocated + CloseTotal(r) + CloseReward(r)
  BY <1>3
<1> HIDE DEF now
<1>5. /\ r \in Nat /\ Rent \in Nat /\ Auth # Caller /\ Auth \in Accounts /\ Caller \in Accounts
  BY AmountsAssumption, AccountsAssumption DEF Accounts
<1>6. /\ CloseReward(r) \in Nat /\ CloseTotal(r) \in Nat
      /\ CloseTotal(r) + CloseReward(r) <= holders_funded - allocated
  BY <1>1, <1>5, CloseFits
<1>7. /\ allocated \in Nat /\ holders_funded \in Nat /\ holders_paid \in Nat
      /\ lamports \in [Accounts -> Nat] /\ allocated <= holders_funded
      /\ lamports[Auth] = Rent + (holders_funded - holders_paid)
  BY DEF PassesInv, MoneyTyped, MoneyThere
<1>8. holders_paid <= allocated
  <2>1. FSum(Dues, {}) \in Nat /\ FSum(Dues, {}) <= allocated - holders_paid
    BY PaymentsSound
  <2> QED
    BY <1>7, <2>1
<1>9. PaymentSound(CloseReward(r), now)
  BY <1>4, <1>5, <1>6, <1>7, <1>8 DEF PaymentSound
<1>10. ~(holders_funded < allocated)
  BY <1>7
<1>11. book' = [i \in 1..count |-> [book[i] EXCEPT !.owed = @ + CloseShares(r)[i]]]
  BY <1>1, <1>2, <1>9, <1>10
<1> QED
  BY <1>1, <1>4, <1>5, <1>9, <1>10, <1>11

(* close_round: what is allocated is what the entries' dues grow by and    *)
(* what the caller is paid.                                                *)
LEMMA CloseKeeps == PassesInv /\ Close => PassesInv'
<1> SUFFICES ASSUME PassesInv, NEW r \in Reserves, CloseRound(r) PROVE PassesInv'
  BY DEF Close
<1> DEFINE h == CloseShares(r)
           s == CloseTotal(r)
           w == CloseReward(r)
<1>1. /\ count \in Nat /\ IsFiniteSet(1..count) /\ book \in Seq(PassEntryType)
      /\ book \in [1..count -> PassEntryType]
      /\ \A i \in 1..count : /\ book[i] \in PassEntryType /\ book[i].wallet \in Wallets
                             /\ book[i].owed \in Nat /\ book[i].paid \in Nat
                             /\ Dues[i] \in Int /\ Dues[i] = book[i].owed - book[i].paid
  BY Entries DEF PassesInv, BookTyped
<1>2. /\ RoundLive /\ round.next = count
      /\ book' = [i \in 1..count |-> [book[i] EXCEPT !.owed = @ + h[i]]]
      /\ allocated' = allocated + s + w
      /\ round' = [round EXCEPT !.open = FALSE, !.last_at = slot]
      /\ holders_paid' = holders_paid + w
      /\ lamports' = [lamports EXCEPT ![Auth] = lamports[Auth] - w, ![Caller] = lamports[Caller] + w]
      /\ UNCHANGED <<pass, tables, holders_funded, tokens, slot, fault, history>>
  BY CloseIs
<1>3. /\ r \in Nat /\ Rent \in Nat /\ Auth # Caller /\ Auth \in Accounts /\ Caller \in Accounts
  BY AmountsAssumption, AccountsAssumption DEF Accounts
<1>4. /\ w \in Nat /\ s \in Nat /\ s + w <= holders_funded - allocated
      /\ \A i \in 1..count : h[i] \in Nat
  BY <1>2, <1>3, CloseFits
<1>s. s = FSum(h, 1..count)
  BY DEF CloseTotal
<1> HIDE DEF h, s, w
<1>5. /\ \A i \in 1..count : /\ book'[i] \in PassEntryType
                             /\ book'[i].wallet = book[i].wallet
                             /\ book'[i].owed = book[i].owed + h[i]
                             /\ book'[i].paid = book[i].paid
      /\ book' \in [1..count -> PassEntryType]
  <2>1. ASSUME NEW i \in 1..count
        PROVE  /\ book'[i] \in PassEntryType
               /\ book'[i].wallet = book[i].wallet
               /\ book'[i].owed = book[i].owed + h[i] /\ book'[i].paid = book[i].paid
    <3>1. book'[i] = [book[i] EXCEPT !.owed = book[i].owed + h[i]]
      BY <1>2
    <3>2. book[i] \in [wallet : Wallets, weight : Nat, owed : Nat, paid : Nat]
      BY <1>1 DEF PassEntryType
    <3>3. book[i].owed + h[i] \in Nat
      BY <1>1, <1>4
    <3> QED
      BY <3>1, <3>2, <3>3 DEF PassEntryType
  <2>2. book' = [i \in 1..count |-> book'[i]]
    BY <1>2
  <2> QED
    BY <2>1, <2>2
<1>6. book' \in Seq(PassEntryType) /\ count' = count
  BY <1>1, <1>5, FunIsSeq DEF count
<1>7. BookTyped' /\ OnePassPerWallet'
  BY <1>2, <1>5, <1>6 DEF PassesInv, BookTyped, OnePassPerWallet
<1>8. EntriesPaid'
  <2>1. ASSUME NEW i \in 1..count PROVE book'[i].paid <= book'[i].owed
    <3>1. book[i].paid <= book[i].owed /\ book[i].paid \in Nat /\ book[i].owed \in Nat /\ h[i] \in Nat
      BY <1>1, <1>4 DEF PassesInv, EntriesPaid
    <3>2. book[i].paid <= book[i].owed + h[i]
      BY <3>1
    <3> QED
      BY <1>5, <3>2
  <2> QED
    BY <1>6, <2>1 DEF EntriesPaid
<1>9. \A i \in 1..count : Dues'[i] = Dues[i] + h[i]
  <2>1. \A i \in 1..count : Dues'[i] = book'[i].owed - book'[i].paid
    BY <1>6 DEF Dues, Unpaid
  <2> QED
    BY <1>1, <1>4, <1>5, <2>1
<1>10. FSum(Dues', 1..count') = FSum(Dues, 1..count) + s
  <2>1. \A i \in 1..count : Dues[i] \in Int /\ h[i] \in Int /\ Dues'[i] = Dues[i] + h[i]
    BY <1>1, <1>4, <1>9
  <2>2. FSum(Dues', 1..count) = FSum(Dues, 1..count) + FSum(h, 1..count)
    BY <1>1, <2>1, SumPlus
  <2> QED
    BY <1>6, <1>s, <2>2
<1>11. /\ allocated \in Nat /\ holders_funded \in Nat /\ holders_paid \in Nat
       /\ lamports \in [Accounts -> Nat] /\ allocated <= holders_funded
       /\ lamports[Auth] = Rent + (holders_funded - holders_paid)
       /\ holders_paid + FSum(Dues, 1..count) = allocated
  BY DEF PassesInv, MoneyTyped, MoneyThere
<1>12. FSum(Dues, 1..count) \in Nat /\ FSum(Dues, 1..count) <= allocated - holders_paid
  BY PaymentsSound
<1>13. lamports'[Auth] = lamports[Auth] - w
  BY <1>2, <1>3, <1>11
<1>14. MoneyThere'
  <2> DEFINE d == FSum(Dues, 1..count)
  <2>1. d \in Nat /\ holders_paid + d = allocated /\ FSum(Dues', 1..count') = d + s
    BY <1>10, <1>11, <1>12
  <2> HIDE DEF d
  <2>2. holders_paid' + FSum(Dues', 1..count') = allocated'
    BY <1>2, <1>4, <1>11, <2>1
  <2>3. allocated' <= holders_funded'
    BY <1>2, <1>4, <1>11
  <2>4. lamports'[Auth] = Rent + (holders_funded' - holders_paid')
    BY <1>2, <1>3, <1>4, <1>11, <1>13
  <2> QED
    BY <2>2, <2>3, <2>4 DEF MoneyThere
<1>15. MoneyTyped'
  <2>1. lamports[Auth] - w \in Nat /\ lamports[Caller] + w \in Nat
    BY <1>3, <1>4, <1>11, <1>12
  <2>2. lamports' \in [Accounts -> Nat]
    BY <1>2, <1>11, <2>1
  <2>3. allocated + s + w \in Nat /\ holders_paid + w \in Nat
    BY <1>4, <1>11
  <2>4. allocated' \in Nat /\ holders_funded' \in Nat /\ holders_paid' \in Nat
    BY <1>2, <1>11, <2>3
  <2> QED
    BY <2>2, <2>4 DEF MoneyTyped
<1>16. RoundTyped' /\ RoundCounted'
  <2>1. /\ round \in [open : BOOLEAN, start_slot : Nat, weight : Nat, next : 0..MAX_PASSES, last_at : Nat]
        /\ slot \in Nat
    BY DEF PassesInv, RoundTyped, TradeTyped
  <2> QED
    BY <1>2, <2>1 DEF RoundTyped, RoundCounted
<1>17. TablesTyped' /\ TradeTyped' /\ fault' = FALSE
  BY <1>2 DEF PassesInv, TablesTyped, TradeTyped, history
<1> QED
  BY <1>7, <1>8, <1>14, <1>15, <1>16, <1>17 DEF PassesInv

(* What an entry is due is a natural.                                      *)
LEMMA DuesAreNat ==
  ASSUME PassesInv
  PROVE  \A j \in 1..count : Dues[j] \in Nat
<1>1. \A j \in 1..count : /\ book[j].owed \in Nat /\ book[j].paid \in Nat
                           /\ Dues[j] = book[j].owed - book[j].paid
                           /\ book[j].paid <= book[j].owed
  BY Entries DEF PassesInv, EntriesPaid
<1>2. ASSUME NEW j \in 1..count PROVE Dues[j] \in Nat
  BY <1>1
<1> QED
  BY <1>2

(* pay_leaving_pass: the money is there whatever is left of the book.      *)
LEMMA LeavingPaid ==
  ASSUME PassesInv, NEW i \in 1..count, NEW w \in Wallets, PayLeaving(w, Unpaid(i)),
         allocated' = allocated, FSum(Dues', 1..count') = FSum(Dues, 1..count) - Dues[i]
  PROVE  MoneyTyped' /\ MoneyThere'
<1> DEFINE u == Dues[i]
           d == FSum(Dues, 1..count)
<1>1. Unpaid(i) = u
  BY DEF Dues
<1>2. /\ Rent \in Nat /\ Auth # w /\ Auth \in Accounts /\ w \in Accounts
  BY AmountsAssumption, AccountsAssumption DEF Accounts
<1>3. /\ allocated \in Nat /\ holders_funded \in Nat /\ holders_paid \in Nat
      /\ lamports \in [Accounts -> Nat] /\ allocated <= holders_funded
      /\ lamports[Auth] = Rent + (holders_funded - holders_paid)
      /\ holders_paid + d = allocated
  BY DEF PassesInv, MoneyTyped, MoneyThere
<1>4. u \in Nat /\ d \in Nat /\ u <= d /\ d <= allocated - holders_paid
  <2>1. \A j \in 1..count : Dues[j] \in Nat
    BY DuesAreNat
  <2>2. IsFiniteSet(1..count)
    BY Entries DEF PassesInv
  <2>3. d \in Nat /\ d <= allocated - holders_paid
    BY PaymentsSound
  <2>4. u <= d
    BY <2>1, <2>2, SumTerm
  <2> QED
    BY <2>1, <2>3, <2>4
<1>5. /\ holders_paid' = holders_paid + u /\ holders_funded' = holders_funded
      /\ lamports' = [lamports EXCEPT ![Auth] = lamports[Auth] - u, ![w] = lamports[w] + u]
  BY <1>1, <1>2 DEF PayLeaving
<1>6. FSum(Dues', 1..count') = d - u
  OBVIOUS
<1> HIDE DEF u, d
<1>7. lamports[Auth] - u \in Nat /\ lamports[w] + u \in Nat
  BY <1>2, <1>3, <1>4
<1>8. lamports' \in [Accounts -> Nat] /\ lamports'[Auth] = lamports[Auth] - u
  BY <1>2, <1>3, <1>5, <1>7
<1>9. holders_paid + u \in Nat /\ (holders_paid + u) + (d - u) = allocated
  BY <1>3, <1>4
<1>10. MoneyTyped'
  BY <1>3, <1>5, <1>8, <1>9 DEF MoneyTyped
<1>11. MoneyThere'
  <2>1. holders_paid' + FSum(Dues', 1..count') = allocated'
    BY <1>5, <1>6, <1>9
  <2>2. lamports'[Auth] = Rent + (holders_funded' - holders_paid')
    BY <1>2, <1>3, <1>4, <1>5, <1>8
  <2> QED
    BY <1>3, <1>5, <2>1, <2>2 DEF MoneyThere
<1> QED
  BY <1>10, <1>11

(* pay_leaving_pass: its self-checks hold of what one pass is due.         *)
LEMMA LeavingSound ==
  ASSUME PassesInv, NEW i \in 1..count
  PROVE  PaymentSound(Unpaid(i), allocated)
<1>1. Dues[i] \in Int /\ Dues[i] = Unpaid(i)
  BY Entries DEF PassesInv, Dues
<1>2. FSum(Dues, {i}) = Dues[i]
  BY <1>1, SumOne
<1>3. PaymentSound(FSum(Dues, {i}), allocated)
  BY PaymentsSound
<1> QED
  BY <1>1, <1>2, <1>3

(* remove_pass and register_pass_evict: the entry that fills the gap.      *)
LEMMA GapFilled ==
  ASSUME NEW T, NEW s \in Seq(T), NEW n \in Nat \ {0}, n = Len(s), NEW i \in 1..n
  PROVE  /\ SubSeq([s EXCEPT ![i] = s[n]], 1, n - 1) \in Seq(T)
         /\ Len(SubSeq([s EXCEPT ![i] = s[n]], 1, n - 1)) = n - 1
         /\ \A j \in 1..(n - 1) : SubSeq([s EXCEPT ![i] = s[n]], 1, n - 1)[j]
                                     = IF j = i THEN s[n] ELSE s[j]
<1> DEFINE c == [s EXCEPT ![i] = s[n]]
<1>1. s[n] \in T
  BY LenProperties
<1>2. c \in Seq(T) /\ Len(c) = n /\ \A j \in 1..n : c[j] = IF j = i THEN s[n] ELSE s[j]
  BY <1>1, ExceptSeq
<1> HIDE DEF c
<1>3. 1 \in Int /\ n - 1 \in Int
  OBVIOUS
<1>4. SubSeq(c, 1, n - 1) \in Seq(T) /\ Len(SubSeq(c, 1, n - 1)) = n - 1
  BY <1>2
<1>5. \A j \in 1..(n - 1) : SubSeq(c, 1, n - 1)[j] = c[j]
  BY <1>2
<1> QED
  BY <1>2, <1>4, <1>5 DEF c

(* remove_pass: the entry is paid its due before it leaves.                *)
LEMMA RemoveKeeps == PassesInv /\ Remove => PassesInv'
<1> SUFFICES ASSUME PassesInv, NEW w \in Wallets, NEW given \in BOOLEAN, RemovePass(w, given)
             PROVE  PassesInv'
  BY DEF Remove
<1> DEFINE i == pass[w]
           last == count
           moved == book[last].wallet
<1>1. /\ count \in Nat /\ IsFiniteSet(1..count) /\ book \in Seq(PassEntryType) /\ DOMAIN book = 1..count
      /\ \A j \in 1..count : /\ book[j] \in PassEntryType /\ book[j].wallet \in Wallets
                             /\ Dues[j] \in Int /\ Dues[j] = book[j].owed - book[j].paid
  BY Entries DEF PassesInv, BookTyped
<1>2. pass \in [Wallets -> 0..MAX_PASSES] /\ MAX_PASSES \in Nat /\ count <= MAX_PASSES
  BY AmountsAssumption DEF PassesInv, BookTyped
<1>3. i \in 1..count /\ book[i].wallet = w
  BY <1>1, <1>2 DEF RemovePass
<1>4. PaymentSound(Unpaid(i), allocated)
  BY <1>3, LeavingSound
<1>5. /\ round' = [round EXCEPT !.open = FALSE]
      /\ book' = SubSeq([book EXCEPT ![i] = book[last]], 1, last - 1)
      /\ pass' = [[pass EXCEPT ![moved] = i] EXCEPT ![w] = 0]
      /\ tables' = IF given THEN [tables EXCEPT !.indexed = IndexedAfterRemoval(i, last)] ELSE tables
      /\ PayLeaving(w, Unpaid(i))
      /\ UNCHANGED <<allocated, tokens, slot, fault, history>>
  BY <1>4 DEF RemovePass
<1> HIDE DEF i
<1>6. /\ book' \in Seq(PassEntryType) /\ count' = count - 1
      /\ \A j \in 1..(count - 1) : book'[j] = IF j = i THEN book[last] ELSE book[j]
  <2>1. count \in Nat \ {0} /\ count = Len(book)
    BY <1>1, <1>3 DEF count
  <2> QED
    BY <1>1, <1>3, <1>5, <2>1, GapFilled DEF count
<1>7. /\ last \in 1..count /\ moved \in Wallets /\ pass[moved] = last
      /\ \A j \in 1..count : pass[book[j].wallet] = j
  BY <1>1, <1>3 DEF PassesInv, OnePassPerWallet
<1>8. BookTyped'
  <2>1. pass' \in [Wallets -> 0..MAX_PASSES]
    BY <1>1, <1>2, <1>3, <1>5, <1>7
  <2> QED
    BY <1>1, <1>2, <1>6, <2>1 DEF BookTyped
<1>9. OnePassPerWallet'
  <2>1. \A v \in Wallets : pass'[v] = IF v = w THEN 0 ELSE IF v = moved THEN i ELSE pass[v]
    BY <1>2, <1>5, <1>7
  <2>2. ASSUME NEW j \in 1..(count - 1) PROVE pass'[book'[j].wallet] = j
    <3>1. CASE j = i
      <4>1. book'[j].wallet = moved /\ i # last /\ moved # w
        BY <1>1, <1>3, <1>6, <1>7, <3>1
      <4> QED
        BY <1>7, <2>1, <3>1, <4>1
    <3>2. CASE j # i
      <4>1. book'[j].wallet = book[j].wallet /\ j \in 1..count /\ j # last
        BY <1>1, <1>6, <3>2
      <4>2. pass[book[j].wallet] = j /\ book[j].wallet \in Wallets
        BY <1>1, <1>7, <4>1
      <4>3. book[j].wallet # w /\ book[j].wallet # moved
        BY <1>7, <3>2, <4>1, <4>2 DEF i
      <4> QED
        BY <2>1, <4>1, <4>2, <4>3
    <3> QED
      BY <3>1, <3>2
  <2>3. ASSUME NEW v \in Wallets, pass'[v] # 0
        PROVE  pass'[v] <= count' /\ book'[pass'[v]].wallet = v
    <3>1. v # w
      BY <2>1, <2>3
    <3>2. CASE v = moved
      <4>1. pass'[v] = i
        BY <2>1, <3>1, <3>2
      <4>2. i # last
        BY <1>3, <1>7, <3>1, <3>2
      <4>3. i \in 1..(count - 1)
        BY <1>1, <1>3, <4>2
      <4>4. book'[i] = book[last]
        BY <1>6, <4>3
      <4> QED
        BY <1>1, <1>6, <3>2, <4>1, <4>3, <4>4
    <3>3. CASE v # moved
      <4>1. pass'[v] = pass[v] /\ pass[v] # 0 /\ pass[v] \in 0..MAX_PASSES
        BY <1>2, <2>1, <2>3, <3>1, <3>3
      <4>2. pass[v] <= count /\ book[pass[v]].wallet = v
        BY <4>1 DEF PassesInv, OnePassPerWallet
      <4>3. pass[v] # last /\ pass[v] # i
        BY <1>3, <3>1, <3>3, <4>2
      <4>4. pass[v] \in 1..(count - 1)
        BY <1>1, <1>2, <4>1, <4>2, <4>3
      <4>5. book'[pass[v]] = book[pass[v]]
        BY <1>6, <4>3, <4>4
      <4> QED
        BY <1>1, <1>6, <4>1, <4>2, <4>4, <4>5
    <3> QED
      BY <3>2, <3>3
  <2> QED
    BY <1>6, <2>2, <2>3 DEF OnePassPerWallet
<1>10. /\ \A j \in 1..(count - 1) : j \in 1..count
       /\ \A j \in 1..(count - 1) : j \in 1..count'
  BY <1>1, <1>6
<1>11. EntriesPaid'
  <2>1. \A j \in 1..count : book[j].paid <= book[j].owed
    BY DEF PassesInv, EntriesPaid
  <2>2. \A j \in 1..(count - 1) : book'[j].paid <= book'[j].owed
    BY <1>6, <1>7, <1>10, <2>1
  <2> QED
    BY <1>6, <2>2 DEF EntriesPaid
<1>12. \A j \in 1..(count - 1) : Dues'[j] = IF j = i THEN Dues[last] ELSE Dues[j]
  <2>1. \A j \in 1..(count - 1) : Dues'[j] = book'[j].owed - book'[j].paid
    BY <1>10 DEF Dues, Unpaid
  <2> QED
    BY <1>1, <1>6, <1>7, <1>10, <2>1
<1>13. FSum(Dues', 1..count') = FSum(Dues, 1..count) - Dues[i]
  <2>1. count \in Nat \ {0} /\ \A j \in 1..count : Dues[j] \in Int
    BY <1>1, <1>3
  <2>2. FSum(Dues', 1..(count - 1)) = FSum(Dues, 1..count) - Dues[i]
    BY <1>3, <1>12, <2>1, SumSwap
  <2> QED
    BY <1>6, <2>2
<1>14. MoneyTyped' /\ MoneyThere'
  BY <1>3, <1>5, <1>13, LeavingPaid
<1>15. RoundTyped' /\ RoundCounted'
  BY <1>5 DEF PassesInv, RoundTyped, RoundCounted
<1>16. TablesTyped'
  <2>1. tables.indexed \in Nat
    BY DEF PassesInv, TablesTyped
  <2>2. IndexedAfterRemoval(i, last) \in Nat
    <3>1. i \in Nat /\ i >= 1 /\ last \in Nat /\ last >= 1
      BY <1>1, <1>3
    <3> HIDE DEF last
    <3> QED
      BY <2>1, <3>1 DEF IndexedAfterRemoval, Smaller
  <2> QED
    BY <1>5, <2>2 DEF PassesInv, TablesTyped
<1>17. TradeTyped' /\ fault' = FALSE
  BY <1>5 DEF PassesInv, TradeTyped, history
<1> QED
  BY <1>8, <1>9, <1>11, <1>14, <1>15, <1>16, <1>17 DEF PassesInv

(* register_pass_evict: the entry is paid its due before it is taken over. *)
LEMMA EvictKeeps == PassesInv /\ Evict => PassesInv'
<1> SUFFICES ASSUME PassesInv, NEW w \in Wallets, NEW e \in Wallets, NEW given \in BOOLEAN,
                    RegisterPassEvict(w, e, given)
             PROVE  PassesInv'
  BY DEF Evict
<1> DEFINE i == pass[e]
<1>1. /\ count \in Nat /\ IsFiniteSet(1..count) /\ book \in Seq(PassEntryType) /\ DOMAIN book = 1..count
      /\ \A j \in 1..count : /\ book[j] \in PassEntryType /\ book[j].wallet \in Wallets
                             /\ Dues[j] \in Int /\ Dues[j] = book[j].owed - book[j].paid
  BY Entries DEF PassesInv, BookTyped
<1>2. pass \in [Wallets -> 0..MAX_PASSES] /\ MAX_PASSES \in Nat /\ count <= MAX_PASSES
  BY AmountsAssumption DEF PassesInv, BookTyped
<1>3. pass[w] = 0 /\ i \in 1..count /\ book[i].wallet = e /\ w # e
  BY <1>1, <1>2 DEF RegisterPassEvict
<1>4. PaymentSound(Unpaid(i), allocated)
  BY <1>3, LeavingSound
<1>5. /\ round' = [round EXCEPT !.open = FALSE]
      /\ book' = [book EXCEPT ![i] = Entry(w)]
      /\ pass' = [pass EXCEPT ![e] = 0, ![w] = i]
      /\ tables' = IF given THEN [tables EXCEPT !.indexed = Smaller(tables.indexed, i - 1)] ELSE tables
      /\ PayLeaving(e, Unpaid(i))
      /\ UNCHANGED <<allocated, tokens, slot, fault, history>>
  BY <1>4 DEF RegisterPassEvict
<1> HIDE DEF i
<1>6. /\ book' \in Seq(PassEntryType) /\ count' = count
      /\ \A j \in 1..count : book'[j] = IF j = i THEN Entry(w) ELSE book[j]
  <2>1. Entry(w) \in PassEntryType /\ i \in 1..Len(book)
    BY <1>3, EntryTyped DEF count
  <2> QED
    BY <1>1, <1>5, <2>1, ExceptSeq DEF count
<1>7. Entry(w).wallet = w /\ Entry(w).owed = 0 /\ Entry(w).paid = 0
  BY EntryTyped
<1>8. \A j \in 1..count : pass[book[j].wallet] = j /\ book[j].wallet # w
  BY <1>1, <1>3 DEF PassesInv, OnePassPerWallet
<1>9. \A v \in Wallets : pass'[v] = IF v = w THEN i ELSE IF v = e THEN 0 ELSE pass[v]
  BY <1>2, <1>3, <1>5
<1>10. BookTyped'
  <2>1. pass' \in [Wallets -> 0..MAX_PASSES]
    BY <1>1, <1>2, <1>3, <1>5
  <2> QED
    BY <1>2, <1>6, <2>1 DEF BookTyped
<1>11. OnePassPerWallet'
  <2>1. ASSUME NEW j \in 1..count PROVE pass'[book'[j].wallet] = j
    <3>1. CASE j = i
      BY <1>6, <1>7, <1>9, <3>1
    <3>2. CASE j # i
      <4>1. book'[j].wallet = book[j].wallet /\ book[j].wallet \in Wallets
        BY <1>1, <1>6, <3>2
      <4>2. book[j].wallet # e /\ book[j].wallet # w /\ pass[book[j].wallet] = j
        BY <1>8, <3>2 DEF i
      <4> QED
        BY <1>9, <4>1, <4>2
    <3> QED
      BY <3>1, <3>2
  <2>2. ASSUME NEW v \in Wallets, pass'[v] # 0
        PROVE  pass'[v] <= count' /\ book'[pass'[v]].wallet = v
    <3>1. CASE v = w
      <4>1. pass'[v] = i /\ book'[i] = Entry(w)
        BY <1>3, <1>6, <1>9, <3>1
      <4> QED
        BY <1>1, <1>3, <1>6, <1>7, <3>1, <4>1
    <3>2. CASE v # w
      <4>1. pass'[v] = pass[v] /\ pass[v] # 0 /\ pass[v] \in 0..MAX_PASSES /\ v # e
        BY <1>2, <1>9, <2>2, <3>2
      <4>2. pass[v] <= count /\ book[pass[v]].wallet = v
        BY <4>1 DEF PassesInv, OnePassPerWallet
      <4>3. pass[v] \in 1..count /\ pass[v] # i
        BY <1>1, <1>2, <1>3, <4>1, <4>2
      <4>4. book'[pass[v]] = book[pass[v]]
        BY <1>6, <4>3
      <4> QED
        BY <1>6, <4>1, <4>2, <4>4
    <3> QED
      BY <3>1, <3>2
  <2> QED
    BY <1>6, <2>1, <2>2 DEF OnePassPerWallet
<1>12. EntriesPaid'
  <2>1. \A j \in 1..count : book[j].paid <= book[j].owed
    BY DEF PassesInv, EntriesPaid
  <2>2. \A j \in 1..count : book'[j].paid <= book'[j].owed
    BY <1>6, <1>7, <2>1
  <2> QED
    BY <1>6, <2>2 DEF EntriesPaid
<1>13. \A j \in 1..count : Dues'[j] = IF j = i THEN 0 ELSE Dues[j]
  <2>1. \A j \in 1..count : Dues'[j] = book'[j].owed - book'[j].paid
    BY <1>6 DEF Dues, Unpaid
  <2> QED
    BY <1>1, <1>6, <1>7, <2>1
<1>14. FSum(Dues', 1..count') = FSum(Dues, 1..count) - Dues[i]
  <2>1. \A j \in {i} : Dues'[j] = 0
    BY <1>3, <1>13
  <2>2. \A j \in (1..count) \ {i} : Dues'[j] = Dues[j]
    BY <1>13
  <2>3. {i} \in SUBSET (1..count) /\ \A j \in 1..count : Dues[j] \in Int
    BY <1>1, <1>3
  <2>4. FSum(Dues', 1..count) = FSum(Dues, 1..count) - FSum(Dues, {i})
    <3> DEFINE S == 1..count
               T == {i}
    <3>1. /\ IsFiniteSet(S) /\ T \in SUBSET S /\ \A x \in S : Dues[x] \in Int
          /\ \A x \in T : Dues'[x] = 0
          /\ \A x \in S \ T : Dues'[x] = Dues[x]
      BY <1>1, <2>1, <2>2, <2>3
    <3> HIDE DEF S, T
    <3>2. FSum(Dues', S) = FSum(Dues, S) - FSum(Dues, T)
      BY <3>1, SumDrop
    <3> QED
      BY <3>2 DEF S, T
  <2>5. FSum(Dues, {i}) = Dues[i]
    BY <1>3, <2>3, SumOne
  <2> QED
    BY <1>6, <2>4, <2>5
<1>15. MoneyTyped' /\ MoneyThere'
  BY <1>3, <1>5, <1>14, LeavingPaid
<1>16. RoundTyped' /\ RoundCounted'
  BY <1>5 DEF PassesInv, RoundTyped, RoundCounted
<1>17. TablesTyped'
  <2>1. tables.indexed \in Nat
    BY DEF PassesInv, TablesTyped
  <2>2. Smaller(tables.indexed, i - 1) \in Nat
    BY <1>1, <1>3, <2>1 DEF Smaller
  <2> QED
    BY <1>5, <2>2 DEF PassesInv, TablesTyped
<1>18. TradeTyped' /\ fault' = FALSE
  BY <1>5 DEF PassesInv, TradeTyped, history
<1> QED
  BY <1>10, <1>11, <1>12, <1>15, <1>16, <1>17, <1>18 DEF PassesInv

(* Every step keeps the invariant.                                         *)
LEMMA PassesStep == PassesInv /\ [Next]_vars => PassesInv'
<1> SUFFICES ASSUME PassesInv, [Next]_vars PROVE PassesInv'
  OBVIOUS
<1>1. CASE UNCHANGED vars
  <2>1. TablesTyped' /\ TradeTyped'
    BY <1>1 DEF PassesInv, TablesTyped, TradeTyped, vars, history
  <2> QED
    BY <1>1, <2>1, BookStands DEF vars
<1>2. CASE Next
  BY <1>2, RegisterKeeps, OpenKeeps, BatchKeeps, CloseKeeps, PaySomeKeeps, RemoveKeeps, EvictKeeps,
     IndexKeeps, SponsorKeeps, TradeKeeps, TickKeeps DEF Next
<1> QED
  BY <1>1, <1>2

(* Whatever rounds, payments, registrations, removals and evictions come   *)
(* in whatever order, no self-check of close_round, pay_passes or          *)
(* pay_leaving_pass ever stops an instruction, the book is sound, and what *)
(* the entries are still owed is all of what was allocated and not paid:   *)
(* the vault can always pay it.                                            *)
THEOREM BookAlwaysSound == Spec => [](BookSound /\ EntitlementsAddUp)
<1>1. PassesInv => BookSound /\ EntitlementsAddUp
  <2> SUFFICES ASSUME PassesInv PROVE BookSound /\ EntitlementsAddUp
    OBVIOUS
  <2>1. SumOver(1..count, Unpaid) = FSum(Dues, 1..count)
    BY DuesSum DEF PassesInv
  <2> QED
    BY <2>1, InvIsSound DEF PassesInv, MoneyThere, EntitlementsAddUp
<1> QED
  BY InitPasses, PassesStep, <1>1, PTL DEF Spec

-----------------------------------------------------------------------------
(* The cooldown.                                                           *)

(* How long the clock has run past the last round: the window and the      *)
(* slots since without a live round.                                       *)
SlotsCounted ==
  round.start_slot # 0 => slot <= round.start_slot + unlocked + MAX_BATCH_SLOTS + 1

(* check_round_open: whatever the callers do, registering, leaving and     *)
(* evicting are free again as soon as the slots of a round's window are    *)
(* over, for the rest of the cooldown.                                     *)
THEOREM NeverLockedOut == Spec => NoLockout
<1> DEFINE A == round'.start_slot # round.start_slot /\ round.start_slot # 0 =>
                  unlocked + MAX_BATCH_SLOTS + 1 >= ROUND_COOLDOWN_SLOTS
<1>1. Init => SlotsCounted
  BY DEF Init, NoRound, SlotsCounted
<1>2. PassesInv /\ SlotsCounted /\ [Next]_vars => SlotsCounted' /\ A
  <2> SUFFICES ASSUME PassesInv, SlotsCounted, [Next]_vars PROVE SlotsCounted' /\ A
    OBVIOUS
  <2>1. /\ MAX_BATCH_SLOTS \in Nat /\ ROUND_COOLDOWN_SLOTS \in Nat
        /\ round.start_slot \in Nat /\ slot \in Nat /\ unlocked \in Nat
        /\ round \in [open : BOOLEAN, start_slot : Nat, weight : Nat, next : 0..MAX_PASSES, last_at : Nat]
    BY WindowAssumption DEF PassesInv, RoundTyped, TradeTyped
  <2>2. CASE round'.start_slot = round.start_slot /\ slot' = slot /\ unlocked' = unlocked
    BY <2>2 DEF SlotsCounted
  <2>3. CASE Tick
    <3>1. round' = round /\ slot' = slot + 1 /\ unlocked' = IF RoundLive THEN unlocked ELSE unlocked + 1
      BY <2>3 DEF Tick
    <3>2. CASE RoundLive
      BY <2>1, <3>1, <3>2 DEF SlotsCounted, RoundLive
    <3>3. CASE ~RoundLive
      BY <2>1, <3>1, <3>3 DEF SlotsCounted
    <3> QED
      BY <3>2, <3>3
  <2>4. CASE Open
    <3>1. PICK n \in 1..MAX_PASSES : OpenRound(n)
      BY <2>4 DEF Open
    <3>2. ~(holders_funded < allocated)
      BY DEF PassesInv, MoneyThere, MoneyTyped
    <3>3. CheckRoundOpen /\ ReadEntries(0, n, 0) /\ unlocked' = 0
      BY <3>1, <3>2 DEF OpenRound
    <3>4. round'.start_slot = slot /\ slot' = slot
      BY <3>3 DEF ReadEntries
    <3>5. SlotsCounted'
      BY <2>1, <3>3, <3>4 DEF SlotsCounted
    <3>6. A
      <4> SUFFICES ASSUME round.start_slot # 0 PROVE unlocked + MAX_BATCH_SLOTS + 1 >= ROUND_COOLDOWN_SLOTS
        OBVIOUS
      <4>1. slot >= round.start_slot + ROUND_COOLDOWN_SLOTS /\ slot <= round.start_slot + unlocked + MAX_BATCH_SLOTS + 1
        BY <3>3 DEF CheckRoundOpen, SlotsCounted
      <4> QED
        BY <2>1, <4>1
    <3> QED
      BY <3>5, <3>6
  <2>5. CASE Batch
    BY <2>1, <2>2, <2>5 DEF Batch, NextBatch, ReadEntries
  <2>6. CASE Close
    BY <2>1, <2>2, <2>6 DEF Close, CloseRound, Abort, history
  <2>7. CASE Remove
    BY <2>1, <2>2, <2>7 DEF Remove, RemovePass, Abort, history
  <2>8. CASE Evict
    BY <2>1, <2>2, <2>8 DEF Evict, RegisterPassEvict, Abort, history
  <2>9. CASE UNCHANGED vars \/ Register \/ Index \/ Sponsor
    BY <2>2, <2>9 DEF vars, history, Register, RegisterPass, Index, IndexPasses, Sponsor, SponsorHolders
  <2>10. CASE PaySome \/ Trade
    BY <2>2, <2>10 DEF history, PaySome, PayPasses, Abort, Trade, Transfer, Buy, Sell
  <2> QED
    BY <2>3, <2>4, <2>5, <2>6, <2>7, <2>8, <2>9, <2>10 DEF Next
<1>3. PassesInv /\ SlotsCounted /\ [Next]_vars => [A]_vars
  BY <1>2
<1> QED
  BY <1>1, <1>2, <1>3, InitPasses, PassesStep, PTL DEF Spec, NoLockout

-----------------------------------------------------------------------------
(* The lookup tables.                                                      *)

(* Every entry up to `indexed` is in the tables, and until there are       *)
(* tables nothing is.                                                      *)
TablesCover == IndexedCovers /\ (tables.exists \/ tables.indexed = 0)

(* Steps that keep who is where in the book.                               *)
PlacesKept ==
  /\ count' \in {count, count + 1} /\ UNCHANGED tables
  /\ \A i \in 1..count : book'[i].wallet = book[i].wallet

(* A step that keeps who is where and leaves the tables keeps the cover.   *)
LEMMA CoverStands ==
  ASSUME PassesInv, TablesCover, PlacesKept
  PROVE  TablesCover'
<1>1. tables.indexed \in Nat /\ count \in Nat
  BY Entries DEF PassesInv, TablesTyped
<1>2. tables.indexed <= count'
  BY <1>1 DEF TablesCover, IndexedCovers, PlacesKept
<1>3. \A i \in 1..tables.indexed : i \in 1..count
  BY <1>1 DEF TablesCover, IndexedCovers
<1> QED
  BY <1>2, <1>3 DEF TablesCover, IndexedCovers, PlacesKept

(* The length of a function on 1..n.                                       *)
LEMMA FunLength ==
  ASSUME NEW n \in Nat, NEW f, f = [i \in 1..n |-> f[i]]
  PROVE  Len(f) = n
<1>1. f \in [1..n -> {f[i] : i \in 1..n}]
  OBVIOUS
<1> QED
  BY <1>1, FunIsSeq

(* Entries may change as long as their wallets stay.                       *)
LEMMA SamePlaces ==
  ASSUME BookTyped, book' = [i \in 1..count |-> book'[i]],
         \A i \in 1..count : book'[i].wallet = book[i].wallet, UNCHANGED tables
  PROVE  PlacesKept
<1>1. count \in Nat
  BY Entries
<1>2. count' = count
  BY <1>1, FunLength DEF count
<1> QED
  BY <1>2 DEF PlacesKept

(* remove_pass: the indexed prefix is cut back before the gap it leaves.   *)
LEMMA RemoveCovers ==
  ASSUME PassesInv, TablesCover, ~OmitTables, NEW w \in Wallets, NEW given \in BOOLEAN,
         RemovePass(w, given)
  PROVE  TablesCover'
<1> DEFINE i == pass[w]
           last == count
           m == tables.indexed
           m2 == IndexedAfterRemoval(i, last)
<1>1. /\ count \in Nat /\ book \in Seq(PassEntryType)
      /\ \A j \in 1..count : book[j] \in PassEntryType
  BY Entries DEF PassesInv, BookTyped
<1>2. pass \in [Wallets -> 0..MAX_PASSES] /\ MAX_PASSES \in Nat /\ count <= MAX_PASSES
  BY AmountsAssumption DEF PassesInv, BookTyped
<1>3. i \in 1..count /\ book[i].wallet = w
  BY <1>1, <1>2 DEF RemovePass
<1>4. PaymentSound(Unpaid(i), allocated)
  BY <1>3, LeavingSound
<1>5. /\ book' = SubSeq([book EXCEPT ![i] = book[last]], 1, last - 1)
      /\ tables' = IF given THEN [tables EXCEPT !.indexed = m2] ELSE tables
      /\ given \in TablesGiven
  BY <1>4 DEF RemovePass
<1>6. m \in Nat /\ m <= count /\ tables.exists \in BOOLEAN
      /\ tables \in [exists : BOOLEAN, indexed : Nat, lens : Seq(1..LUT_CAPACITY), holds : SUBSET Wallets]
  BY DEF PassesInv, TablesTyped, TablesCover, IndexedCovers
<1> HIDE DEF i
<1>7. /\ book' \in Seq(PassEntryType) /\ count' = count - 1
      /\ \A j \in 1..(count - 1) : book'[j] = IF j = i THEN book[last] ELSE book[j]
  <2>1. count \in Nat \ {0} /\ count = Len(book)
    BY <1>1, <1>3 DEF count
  <2>2. book' = SubSeq([book EXCEPT ![i] = book[count]], 1, count - 1)
    BY <1>5
  <2> DEFINE n == count
  <2>3. n \in Nat \ {0} /\ n = Len(book) /\ i \in 1..n /\ book \in Seq(PassEntryType)
    BY <1>1, <1>3, <2>1
  <2> HIDE DEF n
  <2>4. /\ SubSeq([book EXCEPT ![i] = book[n]], 1, n - 1) \in Seq(PassEntryType)
        /\ Len(SubSeq([book EXCEPT ![i] = book[n]], 1, n - 1)) = n - 1
        /\ \A j \in 1..(n - 1) : SubSeq([book EXCEPT ![i] = book[n]], 1, n - 1)[j]
                                   = IF j = i THEN book[n] ELSE book[j]
    BY <2>3, GapFilled
  <2>5. count' = Len(book')
    BY DEF count
  <2> QED
    BY <2>2, <2>4, <2>5 DEF n
<1>8. CASE given
  <2>1. /\ tables'.indexed = m2 /\ tables'.exists = tables.exists /\ tables'.holds = tables.holds
        /\ tables.exists
    BY <1>5, <1>6, <1>8 DEF TablesGiven
  <2>2. /\ m2 \in Nat /\ m2 <= last - 1 /\ m2 <= m
        /\ (i <= m2 => last <= m)
    BY <1>1, <1>3, <1>6 DEF IndexedAfterRemoval, Smaller
  <2>3. ASSUME NEW j \in 1..m2 PROVE book'[j].wallet \in tables.holds
    <3>1. j \in 1..(count - 1) /\ j \in 1..m
      BY <1>1, <1>6, <2>2
    <3>2. CASE j = i
      <4>1. last \in 1..m
        BY <1>1, <1>3, <2>2, <3>2
      <4> QED
        BY <1>7, <3>1, <3>2, <4>1 DEF TablesCover, IndexedCovers
    <3>3. CASE j # i
      BY <1>7, <3>1, <3>3 DEF TablesCover, IndexedCovers
    <3> QED
      BY <3>2, <3>3
  <2> HIDE DEF m2, m, last
  <2> QED
    BY <1>7, <2>1, <2>2, <2>3 DEF TablesCover, IndexedCovers, last
<1>9. CASE ~given
  <2>1. ~tables.exists
    BY <1>5, <1>9 DEF TablesGiven
  <2>2. m = 0 /\ tables' = tables
    BY <1>5, <1>9, <2>1 DEF TablesCover
  <2> QED
    BY <1>1, <1>3, <1>7, <2>2 DEF TablesCover, IndexedCovers
<1> QED
  BY <1>8, <1>9

(* register_pass_evict: the same, for an entry taken over.                 *)
LEMMA EvictCovers ==
  ASSUME PassesInv, TablesCover, ~OmitTables, NEW w \in Wallets, NEW e \in Wallets,
         NEW given \in BOOLEAN, RegisterPassEvict(w, e, given)
  PROVE  TablesCover'
<1> DEFINE i == pass[e]
           m == tables.indexed
           m2 == Smaller(m, i - 1)
<1>1. count \in Nat /\ book \in Seq(PassEntryType)
  BY Entries DEF PassesInv, BookTyped
<1>2. pass \in [Wallets -> 0..MAX_PASSES] /\ MAX_PASSES \in Nat /\ count <= MAX_PASSES
  BY AmountsAssumption DEF PassesInv, BookTyped
<1>3. i \in 1..count /\ book[i].wallet = e
  BY <1>1, <1>2 DEF RegisterPassEvict
<1>4. PaymentSound(Unpaid(i), allocated)
  BY <1>3, LeavingSound
<1>5. /\ book' = [book EXCEPT ![i] = Entry(w)]
      /\ tables' = IF given THEN [tables EXCEPT !.indexed = m2] ELSE tables
      /\ given \in TablesGiven
  BY <1>4 DEF RegisterPassEvict
<1>6. m \in Nat /\ m <= count /\ tables.exists \in BOOLEAN
      /\ tables \in [exists : BOOLEAN, indexed : Nat, lens : Seq(1..LUT_CAPACITY), holds : SUBSET Wallets]
  BY DEF PassesInv, TablesTyped, TablesCover, IndexedCovers
<1> HIDE DEF i
<1>7. count' = count /\ \A j \in 1..count : j # i => book'[j] = book[j]
  <2>1. Entry(w) \in PassEntryType /\ i \in 1..Len(book)
    BY <1>3, EntryTyped DEF count
  <2> QED
    BY <1>1, <1>5, <2>1, ExceptSeq DEF count
<1>8. CASE given
  <2>1. /\ tables'.indexed = m2 /\ tables'.exists = tables.exists /\ tables'.holds = tables.holds
        /\ tables.exists
    BY <1>5, <1>6, <1>8 DEF TablesGiven
  <2>2. m2 \in Nat /\ m2 < i /\ m2 <= m
    BY <1>1, <1>3, <1>6 DEF Smaller
  <2>3. \A j \in 1..m2 : j \in 1..m /\ j \in 1..count /\ j # i
    BY <1>1, <1>3, <1>6, <2>2
  <2>4. m2 <= count
    BY <1>1, <1>6, <2>2
  <2> HIDE DEF m2
  <2> QED
    BY <1>7, <2>1, <2>3, <2>4 DEF TablesCover, IndexedCovers
<1>9. CASE ~given
  <2>1. ~tables.exists
    BY <1>5, <1>9 DEF TablesGiven
  <2>2. m = 0 /\ tables' = tables
    BY <1>5, <1>9, <2>1 DEF TablesCover
  <2> QED
    BY <1>1, <1>3, <1>7, <2>2 DEF TablesCover, IndexedCovers
<1> QED
  BY <1>8, <1>9

(* index_passes: the next entries are put into the tables.                 *)
LEMMA IndexCovers ==
  ASSUME PassesInv, TablesCover, NEW n \in 0..INDEX_BATCH, IndexPasses(n)
  PROVE  TablesCover'
<1> DEFINE batch == Smaller(Larger(n, 1), INDEX_BATCH)
           end   == Smaller(count, tables.indexed + batch)
           added == {book[i].wallet : i \in (tables.indexed + 1)..end}
<1>1. /\ tables'.exists = TRUE /\ tables'.indexed = end /\ tables'.holds = tables.holds \cup added
      /\ UNCHANGED book
  BY DEF IndexPasses
<1>2. count' = count /\ count \in Nat
  BY <1>1, Entries DEF PassesInv, count
<1>3. tables.indexed \in Nat /\ tables.indexed <= count
  BY DEF PassesInv, TablesTyped, TablesCover, IndexedCovers
<1>4. batch \in Nat
  BY AmountsAssumption DEF Smaller, Larger
<1> HIDE DEF batch
<1>5. end \in Nat /\ end <= count
  BY <1>2, <1>3, <1>4 DEF Smaller
<1> HIDE DEF end
<1>6. ASSUME NEW i \in 1..end PROVE book[i].wallet \in tables.holds \cup added
  <2>1. i \in 1..tables.indexed \/ i \in (tables.indexed + 1)..end
    BY <1>3, <1>5
  <2> QED
    BY <2>1 DEF TablesCover, IndexedCovers
<1> HIDE DEF added
<1> QED
  BY <1>1, <1>2, <1>5, <1>6 DEF TablesCover, IndexedCovers

(* Every step keeps the cover.                                             *)
LEMMA CoverStep == ~OmitTables /\ PassesInv /\ TablesCover /\ [Next]_vars => TablesCover'
<1> SUFFICES ASSUME ~OmitTables, PassesInv, TablesCover, [Next]_vars PROVE TablesCover'
  OBVIOUS
<1>1. /\ BookTyped /\ count \in Nat /\ book \in [1..count -> PassEntryType]
      /\ \A i \in 1..count : book[i] \in [wallet : Wallets, weight : Nat, owed : Nat, paid : Nat]
  BY Entries DEF PassesInv, PassEntryType
<1>2. CASE UNCHANGED <<book, tables>>
  <2>1. count' = count
    BY <1>2 DEF count
  <2> QED
    BY <1>2, <2>1, CoverStands DEF PlacesKept
<1>3. CASE Register
  <2>1. PICK w \in Wallets : book' = Append(book, Entry(w)) /\ UNCHANGED tables
    BY <1>3 DEF Register, RegisterPass
  <2>2. count' = count + 1 /\ \A i \in 1..count : book'[i] = book[i]
    BY <1>1, <2>1, EntryTyped, AppendProperties DEF BookTyped, count
  <2> QED
    BY <2>1, <2>2, CoverStands DEF PlacesKept
<1>4. ASSUME NEW start, NEW n, NEW s, ReadEntries(start, n, s)
      PROVE  TablesCover'
  <2>1. /\ book' = [i \in 1..count |-> IF i \in (start + 1)..(start + n)
                                       THEN [book[i] EXCEPT !.weight = Weight(i)] ELSE book[i]]
        /\ UNCHANGED tables
    BY <1>4 DEF ReadEntries
  <2>2. ASSUME NEW i \in 1..count PROVE book'[i].wallet = book[i].wallet
    <3>1. book'[i] = [book[i] EXCEPT !.weight = Weight(i)] \/ book'[i] = book[i]
      BY <2>1
    <3> QED
      BY <1>1, <3>1
  <2>3. book' = [i \in 1..count |-> book'[i]]
    BY <2>1
  <2> QED
    BY <1>1, <2>1, <2>2, <2>3, SamePlaces, CoverStands
<1>5. CASE Close
  <2>1. PICK r \in Reserves : CloseRound(r)
    BY <1>5 DEF Close
  <2>2. /\ book' = [i \in 1..count |-> [book[i] EXCEPT !.owed = @ + CloseShares(r)[i]]]
        /\ UNCHANGED tables
    BY <2>1, CloseIs
  <2>3. ASSUME NEW i \in 1..count PROVE book'[i].wallet = book[i].wallet
    <3>1. book'[i] = [book[i] EXCEPT !.owed = @ + CloseShares(r)[i]]
      BY <2>2
    <3> QED
      BY <1>1, <3>1
  <2>4. book' = [i \in 1..count |-> book'[i]]
    BY <2>2
  <2> QED
    BY <1>1, <2>2, <2>3, <2>4, SamePlaces, CoverStands
<1>6. CASE PaySome
  <2>1. PICK S \in SUBSET (1..count) : PayPasses(S)
    BY <1>6 DEF PaySome
  <2>2. PaymentSound(SumOver(S, Unpaid), allocated)
    BY PaymentsSound, DuesSum DEF PassesInv
  <2>3. /\ book' = [i \in 1..count |-> IF i \in S THEN [book[i] EXCEPT !.paid = book[i].owed] ELSE book[i]]
        /\ UNCHANGED tables
    BY <2>1, <2>2 DEF PayPasses
  <2>4. ASSUME NEW i \in 1..count PROVE book'[i].wallet = book[i].wallet
    <3>1. book'[i] = [book[i] EXCEPT !.paid = book[i].owed] \/ book'[i] = book[i]
      BY <2>3
    <3> QED
      BY <1>1, <3>1
  <2>5. book' = [i \in 1..count |-> book'[i]]
    BY <2>3
  <2> QED
    BY <1>1, <2>3, <2>4, <2>5, SamePlaces, CoverStands
<1>7. CASE Open
  <2>1. ~(holders_funded < allocated)
    BY DEF PassesInv, MoneyThere, MoneyTyped
  <2>2. \E n : ReadEntries(0, n, 0)
    BY <1>7, <2>1 DEF Open, OpenRound
  <2> QED
    BY <1>4, <2>2
<1>8. CASE Batch
  BY <1>4, <1>8 DEF Batch, NextBatch
<1>9. CASE Remove \/ Evict \/ Index
  BY <1>9, RemoveCovers, EvictCovers, IndexCovers DEF Remove, Evict, Index
<1>10. CASE UNCHANGED vars \/ Sponsor \/ Trade \/ Tick
  BY <1>2, <1>10 DEF vars, Sponsor, SponsorHolders, Trade, Transfer, Buy, Sell, Tick
<1> QED
  BY <1>3, <1>5, <1>6, <1>7, <1>8, <1>9, <1>10 DEF Next

(* When every caller of remove_pass and register_pass_evict passes the     *)
(* tables account, every entry that counts as indexed is in the lookup     *)
(* tables, whatever passes leave, fill gaps or are evicted meanwhile.      *)
THEOREM IndexedAlwaysCovered ==
  ASSUME ~OmitTables
  PROVE  Spec => []IndexedCovers
<1>0. PassesInv /\ TablesCover /\ [Next]_vars => TablesCover'
  BY CoverStep
<1>1. Init => TablesCover
  BY DEF Init, NoTables, TablesCover, IndexedCovers, count
<1>2. TablesCover => IndexedCovers
  BY DEF TablesCover
<1> QED
  BY <1>0, <1>1, <1>2, InitPasses, PassesStep, PTL DEF Spec

-----------------------------------------------------------------------------
(* The promise of HolderPool.                                              *)

(* What HolderPool calls `received`.                                       *)
Payees == Wallets \cup {Caller}
Received == [a \in Payees |-> lamports[a]]

(* The payees are finitely many.                                           *)
LEMMA PayeesFinite ==
  /\ IsFiniteSet(Payees) /\ Auth \notin Payees /\ Payees \subseteq Accounts
BY AmountsAssumption, AccountsAssumption, FS_AddElement DEF Payees, Accounts

(* A payment to one payee is a step of the promise.                        *)
LEMMA OnePaid ==
  ASSUME PassesInv, NEW p \in Payees, NEW u \in Nat, u <= holders_funded - holders_paid,
         holders_paid' = holders_paid + u, holders_funded' = holders_funded,
         lamports' = [lamports EXCEPT ![Auth] = lamports[Auth] - u, ![p] = lamports[p] + u]
  PROVE  Pool!PoolNext \/ UNCHANGED <<holders_funded, holders_paid, Received>>
<1>1. /\ allocated \in Nat /\ holders_funded \in Nat /\ holders_paid \in Nat
      /\ lamports \in [Accounts -> Nat] /\ allocated <= holders_funded
  BY DEF PassesInv, MoneyTyped, MoneyThere
<1>2. \A a \in Payees : lamports'[a] = IF a = p THEN lamports[a] + u ELSE lamports[a]
  BY <1>1, PayeesFinite
<1>3. Received' = [Received EXCEPT ![p] = lamports[p] + u]
  BY <1>2 DEF Received
<1>4. CASE u = 0
  <2>1. \A a \in Payees : lamports'[a] = lamports[a]
    BY <1>1, <1>2, <1>4, PayeesFinite
  <2>2. Received' = Received
    BY <2>1 DEF Received
  <2> QED
    BY <1>1, <1>4, <2>2
<1>5. CASE u # 0
  <2>1. holders_paid' \in Nat /\ holders_paid < holders_paid' /\ holders_paid' <= holders_funded
        /\ holders_paid' - holders_paid = u
    BY <1>1, <1>5
  <2>2. Received[p] = lamports[p]
    BY DEF Received
  <2>3. Received' = [Received EXCEPT ![p] = @ + (holders_paid' - holders_paid)]
    BY <1>3, <2>1, <2>2
  <2>4. Pool!PayOne(p)
    BY <2>1, <2>3 DEF Pool!PayOne, Received, Payees
  <2> QED
    BY <2>4 DEF Pool!PoolNext, Payees
<1> QED
  BY <1>4, <1>5

(* Paying one that leaves is a payment to one payee.                       *)
LEMMA LeavingOne ==
  ASSUME PassesInv, NEW i \in 1..count, NEW w \in Wallets, PayLeaving(w, Unpaid(i))
  PROVE  Pool!PoolNext \/ UNCHANGED <<holders_funded, holders_paid, Received>>
<1>1. Dues[i] = Unpaid(i) /\ Dues[i] \in Int
  BY Entries DEF PassesInv, Dues
<1>2. FSum(Dues, {i}) = Dues[i]
  BY <1>1, SumOne
<1>3. Unpaid(i) \in Nat /\ Unpaid(i) <= allocated - holders_paid
  BY <1>1, <1>2, PaymentsSound
<1>4. Unpaid(i) <= holders_funded - holders_paid
  BY <1>3 DEF PassesInv, MoneyTyped, MoneyThere
<1>5. /\ holders_paid' = holders_paid + Unpaid(i) /\ holders_funded' = holders_funded
      /\ lamports' = [lamports EXCEPT ![Auth] = lamports[Auth] - Unpaid(i),
                                      ![w] = lamports[w] + Unpaid(i)]
  BY AccountsAssumption DEF PayLeaving
<1>6. w \in Payees
  BY DEF Payees
<1> HIDE DEF Unpaid
<1> QED
  BY <1>3, <1>4, <1>5, <1>6, OnePaid

(* HolderPool's total is the lemmas' sum.                                  *)
LEMMA TotalIsF ==
  ASSUME NEW f
  PROVE  Pool!Total(f) = FSum(f, DOMAIN f)
BY DEF Pool!Total, Pool!FoldFunction, Pool!FoldFunctionOnSet, FoldFunctionOnSet, FSum,
       Pool!MapThenFoldSet, MapThenFoldSet

(* Payments to several payees are a step of the promise.                   *)
LEMMA ManyPaid ==
  ASSUME PassesInv, NEW S \in SUBSET (1..count), PayPasses(S)
  PROVE  Pool!PoolNext \/ UNCHANGED <<holders_funded, holders_paid, Received>>
<1> DEFINE amount == FSum(Dues, S)
           T(a) == {i \in S : book[i].wallet = a}
           K == [a \in Payees |-> FSum(Dues, {i \in S : book[i].wallet = a})]
<1>1. /\ allocated \in Nat /\ holders_funded \in Nat /\ holders_paid \in Nat
      /\ lamports \in [Accounts -> Nat] /\ allocated <= holders_funded
  BY DEF PassesInv, MoneyTyped, MoneyThere
<1>2. SumOver(S, Unpaid) = amount
  BY DuesSum DEF PassesInv
<1>3. amount \in Nat /\ amount <= allocated - holders_paid /\ PaymentSound(amount, allocated)
  BY PaymentsSound
<1>4. \A a \in Payees : /\ K[a] \in Nat /\ K[a] = SumOver(T(a), Unpaid)
  <2>1. ASSUME NEW a \in Payees PROVE K[a] \in Nat /\ K[a] = SumOver(T(a), Unpaid)
    <3>1. T(a) \in SUBSET (1..count) /\ K[a] = FSum(Dues, T(a))
      OBVIOUS
    <3> HIDE DEF T, K
    <3> QED
      BY <3>1, PaymentsSound, DuesSum DEF PassesInv
  <2> QED
    BY <2>1
<1>5. FSum(K, Payees) = amount
  <2> DEFINE g == [i \in 1..count |-> book[i].wallet]
             Part == [a \in Payees |-> T(a)]
  <2>1. \A i \in S : g[i] \in Payees /\ Dues[i] \in Int
    BY Entries DEF PassesInv, Payees
  <2>2. IsFiniteSet(S)
    BY Entries, FS_Subset DEF PassesInv
  <2>3. \A a \in Payees : \A i : i \in Part[a] <=> i \in S /\ g[i] = a
    OBVIOUS
  <2>4. \A a \in Payees : K[a] = FSum(Dues, Part[a])
    OBVIOUS
  <2> DEFINE P == Payees
             f == Dues
             R == S
  <2>5. IsFiniteSet(P) /\ IsFiniteSet(R)
    BY <2>2, PayeesFinite
  <2>6. \A x \in R : g[x] \in P /\ f[x] \in Int
    BY <2>1
  <2>7. \A p \in P : \A x : x \in Part[p] <=> x \in R /\ g[x] = p
    BY <2>3
  <2>8. \A p \in P : K[p] = FSum(f, Part[p])
    BY <2>4
  <2>9. FSum(K, P) = FSum(f, R)
    <3> HIDE DEF g, K, Part, P, f, R
    <3> QED
      BY <2>5, <2>6, <2>7, <2>8, SumByKey
  <2> QED
    BY <2>9
<1>6. /\ holders_paid' = holders_paid + amount /\ holders_funded' = holders_funded
      /\ lamports' = [a \in Accounts |-> IF a = Auth THEN lamports[a] - amount
                        ELSE lamports[a] + SumOver({i \in S : book[i].wallet = a}, Unpaid)]
  BY <1>2, <1>3 DEF PayPasses
<1>7. \A a \in Payees : lamports'[a] = lamports[a] + K[a] /\ lamports[a] \in Nat
  BY <1>1, <1>4, <1>6, PayeesFinite
<1> HIDE DEF amount, T, K
<1>8. \A a \in Payees : Received'[a] = Received[a] + K[a] /\ Received[a] \in Nat
  BY <1>7 DEF Received
<1>9. CASE amount = 0
  <2>1. \A a \in Payees : K[a] = 0
    <3>1. \A a \in Payees : K[a] <= FSum(K, Payees)
      BY <1>4, PayeesFinite, SumTerm
    <3> QED
      BY <1>4, <1>5, <1>9, <3>1
  <2>2. \A a \in Payees : Received'[a] = Received[a]
    BY <1>8, <2>1
  <2>3. Received' = Received
    BY <2>2 DEF Received
  <2> QED
    BY <1>1, <1>6, <1>9, <2>3
<1>10. CASE amount # 0
  <2>1. \A a \in Payees : Received[a] \in Int /\ K[a] \in Int
    BY <1>4, <1>8
  <2>2. FSum(Received', Payees) = FSum(Received, Payees) + FSum(K, Payees)
    BY <1>8, <2>1, PayeesFinite, SumPlus
  <2>3. FSum(Received, Payees) \in Int
    BY <2>1, PayeesFinite, SumType
  <2>4. Pool!Total(Received') = FSum(Received', Payees) /\ Pool!Total(Received) = FSum(Received, Payees)
    <3>1. DOMAIN Received = Payees /\ DOMAIN Received' = Payees
      BY DEF Received
    <3> QED
      BY <3>1, TotalIsF
  <2>5. holders_paid' \in Nat /\ holders_paid < holders_paid' /\ holders_paid' <= holders_funded
        /\ holders_paid' - holders_paid = amount
    BY <1>1, <1>3, <1>6, <1>10
  <2>6. Pool!Total(Received') - Pool!Total(Received) = holders_paid' - holders_paid
    BY <1>3, <1>5, <2>2, <2>3, <2>4, <2>5
  <2>7. \A a \in Payees : Received'[a] >= Received[a]
    BY <1>4, <1>8
  <2>8. Pool!PayMany
    BY <1>6, <2>5, <2>6, <2>7 DEF Pool!PayMany, Received, Payees
  <2> QED
    BY <2>8 DEF Pool!PoolNext
<1> QED
  BY <1>9, <1>10

(* Every instruction of the passes is, for what was given and what was     *)
(* received, a step of HolderPool: what came in for holders is what is     *)
(* left and what payees received, and nobody is ever paid more than there  *)
(* was.                                                                    *)
THEOREM PassesKeepPromise == Spec => KeepsPromise
<1>1. Init => Pool!PoolInit
  <2> SUFFICES ASSUME Init PROVE Pool!PoolInit
    OBVIOUS
  <2>1. \A a \in Payees : lamports[a] = 0
    BY PayeesFinite DEF Init
  <2> QED
    BY <2>1 DEF Init, Pool!PoolInit, Payees
<1>2. PassesInv /\ [Next]_vars => [Pool!PoolNext]_(Pool!pool)
  <2> SUFFICES ASSUME PassesInv, [Next]_vars
               PROVE  Pool!PoolNext \/ UNCHANGED <<holders_funded, holders_paid, Received>>
    BY DEF Pool!pool, Received, Payees
  <2>1. CASE UNCHANGED pool
    BY <2>1 DEF pool, Received
  <2>2. CASE PaySome
    BY <2>2, ManyPaid DEF PaySome
  <2>3. CASE Close
    <3>1. PICK r \in Reserves : CloseRound(r)
      BY <2>3 DEF Close
    <3>2. /\ RoundLive /\ round.next = count /\ holders_paid' = holders_paid + CloseReward(r)
          /\ lamports' = [lamports EXCEPT ![Auth] = lamports[Auth] - CloseReward(r),
                                          ![Caller] = lamports[Caller] + CloseReward(r)]
          /\ UNCHANGED holders_funded
      BY <3>1, CloseIs
    <3>3. /\ CloseReward(r) \in Nat
          /\ CloseReward(r) <= holders_funded - allocated
      <4>1. r \in Nat
        BY AmountsAssumption
      <4>2. /\ CloseReward(r) \in Nat /\ CloseTotal(r) \in Nat
            /\ CloseTotal(r) + CloseReward(r) <= holders_funded - allocated
            /\ holders_funded \in Nat /\ allocated \in Nat
        BY <3>2, <4>1, CloseFits DEF PassesInv, MoneyTyped
      <4> QED
        BY <4>2
    <3>4. CloseReward(r) <= holders_funded - holders_paid
      <4>1. FSum(Dues, {}) \in Nat /\ FSum(Dues, {}) <= allocated - holders_paid
        BY PaymentsSound
      <4>2. holders_funded \in Nat /\ allocated \in Nat /\ holders_paid \in Nat
        BY DEF PassesInv, MoneyTyped
      <4> QED
        BY <3>3, <4>1, <4>2
    <3> QED
      BY <3>2, <3>3, <3>4, OnePaid DEF Payees
  <2>4. CASE Remove
    <3>1. PICK w \in Wallets, given \in BOOLEAN : RemovePass(w, given)
      BY <2>4 DEF Remove
    <3>2. pass[w] \in 1..count
      <4>1. count \in Nat /\ pass[w] \in 0..MAX_PASSES /\ MAX_PASSES \in Nat
        BY Entries, AmountsAssumption DEF PassesInv, BookTyped
      <4>2. pass[w] # 0 /\ pass[w] <= count
        BY <3>1 DEF RemovePass
      <4> QED
        BY <4>1, <4>2
    <3>3. PayLeaving(w, Unpaid(pass[w]))
      BY <3>1, <3>2, LeavingSound DEF RemovePass
    <3> QED
      BY <3>2, <3>3, LeavingOne
  <2>5. CASE Evict
    <3>1. PICK w \in Wallets, e \in Wallets, given \in BOOLEAN : RegisterPassEvict(w, e, given)
      BY <2>5 DEF Evict
    <3>2. pass[e] \in 1..count
      <4>1. count \in Nat /\ pass[e] \in 0..MAX_PASSES /\ MAX_PASSES \in Nat
        BY Entries, AmountsAssumption DEF PassesInv, BookTyped
      <4>2. pass[e] # 0 /\ pass[e] <= count
        BY <3>1 DEF RegisterPassEvict
      <4> QED
        BY <4>1, <4>2
    <3>3. PayLeaving(e, Unpaid(pass[e]))
      BY <3>1, <3>2, LeavingSound DEF RegisterPassEvict
    <3> QED
      BY <3>2, <3>3, LeavingOne
  <2>6. CASE Sponsor
    <3>1. PICK a \in Gifts : SponsorHolders(a)
      BY <2>6 DEF Sponsor
    <3>2. a \in Nat /\ holders_funded \in Nat /\ lamports \in [Accounts -> Nat]
      BY AmountsAssumption DEF PassesInv, MoneyTyped
    <3>3. /\ holders_funded' = holders_funded + a /\ holders_paid' = holders_paid
          /\ lamports' = [lamports EXCEPT ![Auth] = @ + a]
      BY <3>1 DEF SponsorHolders
    <3>4. Received' = Received
      BY <3>2, <3>3, PayeesFinite DEF Received
    <3>5. CASE a = 0
      BY <3>2, <3>3, <3>4, <3>5
    <3>6. CASE a # 0
      <4>1. holders_funded' \in Nat /\ holders_funded' > holders_funded
        BY <3>2, <3>3, <3>6
      <4>2. Pool!Fund
        BY <3>3, <3>4, <4>1 DEF Pool!Fund, Received, Payees
      <4> QED
        BY <4>2 DEF Pool!PoolNext
    <3> QED
      BY <3>5, <3>6
  <2>7. CASE Open
    <3>1. ~(holders_funded < allocated)
      BY DEF PassesInv, MoneyThere, MoneyTyped
    <3>2. UNCHANGED pool
      BY <2>7, <3>1 DEF Open, OpenRound, ReadEntries
    <3> QED
      BY <2>1, <3>2
  <2>8. CASE UNCHANGED vars \/ Register \/ Batch \/ Index \/ Trade \/ Tick
    BY <2>1, <2>8 DEF vars, Register, RegisterPass, Batch, NextBatch, ReadEntries, Index, IndexPasses,
       Trade, Transfer, Buy, Sell, Tick
  <2> QED
    BY <2>2, <2>3, <2>4, <2>5, <2>6, <2>7, <2>8 DEF Next
<1> QED
  BY <1>1, <1>2, InitPasses, PassesStep, PTL DEF Spec, KeepsPromise, Pool!PoolSpec

-----------------------------------------------------------------------------
(* Moving tokens during a round.                                           *)

(* The transfer fee is rounded up, by less than one.                       *)
LEMMA FeeCovers ==
  ASSUME NEW a \in Nat
  PROVE  /\ TransferFee(a) \in Nat
         /\ a * TaxBps <= TransferFee(a) * BPS
         /\ TransferFee(a) * BPS <= a * TaxBps + BPS
<1>1. BPS \in Nat \ {0} /\ TaxBps \in Nat
  BY AmountsAssumption
<1>2. PICK x \in Nat : x = a * TaxBps
  BY <1>1
<1>3. PICK q \in Nat : q = (x + BPS - 1) \div BPS
  BY <1>1, <1>2
<1>4. q * BPS <= x + BPS - 1 /\ x + BPS - 1 < q * BPS + BPS
  BY <1>1, <1>2, <1>3
<1>5. q * BPS \in Nat
  BY <1>1, <1>3
<1>6. x <= q * BPS /\ q * BPS <= x + BPS
  <2> DEFINE y == q * BPS
  <2>1. y \in Nat /\ y <= x + BPS - 1 /\ x + BPS - 1 < y + BPS
    BY <1>4, <1>5
  <2> HIDE DEF y
  <2>2. x <= y /\ y <= x + BPS
    BY <1>1, <1>2, <2>1
  <2> QED
    BY <2>2 DEF y
<1>7. TransferFee(a) = q
  BY <1>2, <1>3 DEF TransferFee, CeilDiv
<1> QED
  BY <1>2, <1>3, <1>6, <1>7

(* A product of naturals is no less than with smaller factors.             *)
LEMMA TimesMono ==
  ASSUME NEW a \in Nat, NEW b \in Nat, NEW c \in Nat, a <= b
  PROVE  a * c <= b * c /\ c * a <= c * b /\ a * c \in Nat /\ b * c \in Nat
OBVIOUS

(* A common factor cancels.                                                *)
LEMMA TimesCancel ==
  ASSUME NEW a \in Int, NEW b \in Int, NEW c \in Nat \ {0}, a * c <= b * c
  PROVE  a <= b
<1> SUFFICES ASSUME a > b PROVE FALSE
  OBVIOUS
<1>1. a >= b + 1
  OBVIOUS
<1>2. a * c >= (b + 1) * c
  BY <1>1
<1>3. (b + 1) * c = b * c + c
  OBVIOUS
<1>4. b * c \in Int /\ a * c \in Int
  OBVIOUS
<1> QED
  BY <1>2, <1>3, <1>4

(* No counted holding is so small that the rounding of the transfer fee,   *)
(* which is up, is worth more than what the cap leaves of the tax.         *)
(* init_passes does not bound min_holding, so it is a hypothesis; a vault  *)
(* of the repository's defaults satisfies it by far.                       *)
DustFree == POT_CAP_PCT_OF_TAX * BPS <= (100 - POT_CAP_PCT_OF_TAX) * TaxBps * min_holding

(* The cap of a round's pot is no more than the tax rate.                  *)
LEMMA CapIsTax ==
  ASSUME DustFree, NEW w \in Nat \ {0}, w >= min_holding
  PROVE  PassCapBps(TransferFee(w), w) \in Nat /\ PassCapBps(TransferFee(w), w) <= TaxBps
<1>1. /\ BPS \in Nat \ {0} /\ TaxBps \in Nat /\ min_holding \in Nat
      /\ POT_CAP_PCT_OF_TAX \in Nat /\ 100 - POT_CAP_PCT_OF_TAX \in Nat
  BY AmountsAssumption
<1> DEFINE pct == POT_CAP_PCT_OF_TAX
           rest == 100 - pct
           fb == TransferFee(w) * BPS
           tw == w * TaxBps
<1>2. fb \in Nat /\ fb <= tw + BPS /\ tw \in Nat
  BY <1>1, FeeCovers
<1>3. pct \in Nat /\ rest \in Nat /\ rest = 100 - pct
  BY <1>1
<1>4. PassCapBps(TransferFee(w), w) = ((fb \div w) * pct) \div 100
  BY DEF PassCapBps
<1>5. pct * BPS <= rest * tw
  <2>1. rest * TaxBps \in Nat
    BY <1>1
  <2>2. (rest * TaxBps) * min_holding <= (rest * TaxBps) * w
    BY <1>1, <2>1, TimesMono
  <2>3. (rest * TaxBps) * w = rest * tw
    BY <1>1
  <2>4. pct * BPS <= (rest * TaxBps) * min_holding
    BY DEF DustFree
  <2>5. pct * BPS \in Nat /\ (rest * TaxBps) * min_holding \in Nat /\ (rest * TaxBps) * w \in Nat
    BY <1>1, <2>1
  <2> HIDE DEF pct, rest, tw
  <2> QED
    BY <2>2, <2>3, <2>4, <2>5
<1> HIDE DEF pct, rest, fb
<1>6. PICK q \in Nat : q = fb \div w /\ q * w <= fb
  BY <1>2, DivIsNat
<1>7. q * pct \in Nat
  BY <1>3
<1>8. PICK c \in Nat : c = (q * pct) \div 100 /\ c * 100 <= q * pct
  BY <1>7, DivIsNat
<1>9. (c * 100) * w <= (q * pct) * w
  BY <1>7, <1>8, TimesMono
<1>10. (q * pct) * w = (q * w) * pct
  BY <1>3
<1>11. (q * w) * pct <= (tw + BPS) * pct
  <2>1. q * w \in Nat /\ tw + BPS \in Nat /\ q * w <= tw + BPS
    BY <1>1, <1>2, <1>6
  <2> QED
    BY <1>3, <2>1, TimesMono
<1>12. (tw + BPS) * pct = tw * pct + pct * BPS
  BY <1>1, <1>2, <1>3
<1>13. tw * pct + rest * tw = 100 * tw
  BY <1>2, <1>3
<1>14. (c * 100) * w <= 100 * tw
  <2> DEFINE a1 == (c * 100) * w
             a2 == (q * pct) * w
             a3 == (tw + BPS) * pct
             a4 == tw * pct
             a5 == pct * BPS
             a6 == rest * tw
             a7 == 100 * tw
  <2>1. a1 \in Nat /\ a2 \in Nat /\ a3 \in Nat /\ a4 \in Nat /\ a5 \in Nat /\ a6 \in Nat /\ a7 \in Nat
    BY <1>1, <1>2, <1>3, <1>7
  <2>2. a1 <= a2 /\ a2 <= a3 /\ a3 = a4 + a5 /\ a5 <= a6 /\ a4 + a6 = a7
    BY <1>5, <1>9, <1>10, <1>11, <1>12, <1>13
  <2> HIDE DEF a1, a2, a3, a4, a5, a6, a7
  <2>3. a1 <= a7
    BY <2>1, <2>2
  <2> QED
    BY <2>3 DEF a1, a7
<1>15. c * (100 * w) <= TaxBps * (100 * w)
  <2>1. (c * 100) * w = c * (100 * w) /\ 100 * tw = TaxBps * (100 * w)
    BY <1>1
  <2> HIDE DEF tw
  <2> QED
    BY <1>14, <2>1
<1>16. c <= TaxBps
  <2>1. 100 * w \in Nat \ {0}
    OBVIOUS
  <2> QED
    BY <1>1, <1>15, <2>1, TimesCancel
<1> QED
  BY <1>4, <1>6, <1>8, <1>16

(* What a round allocates, at the price it is closed at, is worth no more  *)
(* than the tax on what was counted.                                       *)
LEMMA AllocIsTaxed ==
  ASSUME DustFree, NEW w \in Nat \ {0}, w >= min_holding, NEW pot \in Nat, NEW r \in Nat
  PROVE  (RoundAlloc(pot, w, r) * ReserveToken) * BPS <= (w * r) * TaxBps
<1> DEFINE value == (w * r) \div ReserveToken
           cap == PassCapBps(TransferFee(w), w)
           most == (value * cap) \div BPS
           alloc == RoundAlloc(pot, w, r)
<1>1. BPS \in Nat \ {0} /\ ReserveToken \in Nat \ {0} /\ TaxBps \in Nat
  BY AmountsAssumption
<1>2. cap \in Nat /\ cap <= TaxBps
  BY CapIsTax
<1>3. w * r \in Nat
  OBVIOUS
<1>4. value \in Nat /\ value * ReserveToken <= w * r
  BY <1>1, <1>3, DivIsNat
<1>5. alloc = Smaller(pot, most)
  BY DEF RoundAlloc
<1> HIDE DEF value, cap
<1>6. value * cap \in Nat
  BY <1>2, <1>4
<1>7. most \in Nat /\ most * BPS <= value * cap
  BY <1>1, <1>6, DivIsNat
<1> HIDE DEF most, alloc
<1>8. alloc \in Nat /\ alloc <= most
  BY <1>5, <1>7 DEF Smaller
<1>9. alloc * BPS <= most * BPS
  BY <1>1, <1>7, <1>8, TimesMono
<1>10. value * cap <= value * TaxBps
  BY <1>1, <1>2, <1>4, TimesMono
<1>11. alloc * BPS <= value * TaxBps
  <2>1. alloc * BPS \in Nat /\ most * BPS \in Nat /\ value * TaxBps \in Nat
    BY <1>1, <1>4, <1>7, <1>8
  <2> DEFINE a == alloc * BPS
             b == most * BPS
             c == value * cap
             d == value * TaxBps
  <2>2. a \in Nat /\ b \in Nat /\ c \in Nat /\ d \in Nat /\ a <= b /\ b <= c /\ c <= d
    BY <1>6, <1>7, <1>9, <1>10, <2>1
  <2> HIDE DEF a, b, c, d
  <2>3. a <= d
    BY <2>2
  <2> QED
    BY <2>3 DEF a, d
<1>12. (alloc * BPS) * ReserveToken <= (value * TaxBps) * ReserveToken
  <2>1. alloc * BPS \in Nat /\ value * TaxBps \in Nat
    BY <1>1, <1>4, <1>8
  <2> QED
    BY <1>1, <1>11, <2>1, TimesMono
<1>13. (value * ReserveToken) * TaxBps <= (w * r) * TaxBps
  <2>1. value * ReserveToken \in Nat
    BY <1>1, <1>4
  <2> QED
    BY <1>1, <1>3, <1>4, <2>1, TimesMono
<1>14. (alloc * BPS) * ReserveToken = (alloc * ReserveToken) * BPS
  BY <1>1, <1>8
<1>15. (value * TaxBps) * ReserveToken = (value * ReserveToken) * TaxBps
  BY <1>1, <1>4
<1>16. (alloc * ReserveToken) * BPS <= (w * r) * TaxBps
  <2> DEFINE a == (alloc * ReserveToken) * BPS
             b == (value * ReserveToken) * TaxBps
             c == (w * r) * TaxBps
  <2>1. a \in Nat /\ b \in Nat /\ c \in Nat
    BY <1>1, <1>3, <1>4, <1>8
  <2>2. a <= b /\ b <= c
    BY <1>12, <1>13, <1>14, <1>15
  <2> HIDE DEF a, b, c
  <2>3. a <= c
    BY <2>1, <2>2
  <2> QED
    BY <2>3 DEF a, c
<1> QED
  BY <1>16 DEF alloc

(* What each entry's wallet holds, and the entries the round is still to   *)
(* read.                                                                   *)
HeldF == [i \in 1..count |-> Held(i)]
Unread == (round.next + 1)..count

(* While a round is live: what was counted and what is still to be read    *)
(* exceeds what the passes held at the start by no more than the tax paid  *)
(* since covers, and a counted weight is at least one counted holding.     *)
TaxCovers ==
  RoundLive => TaxBps * (round.weight + FSum(HeldF, Unread) - in_round.held)
                 <= in_round.tax * (BPS - TaxBps)
WeightCounts == round.weight = 0 \/ round.weight >= min_holding

(* Each entry's wallet holds a natural number of tokens.                   *)
LEMMA HeldTyped ==
  ASSUME PassesInv
  PROVE  /\ \A i \in 1..count : HeldF[i] = tokens[book[i].wallet] /\ HeldF[i] \in Nat
         /\ round.open => Unread \in SUBSET (1..count)
         /\ IsFiniteSet(Unread) /\ IsFiniteSet(1..count)
         /\ FSum(HeldF, 1..count) \in Nat
<1>1. \A i \in 1..count : HeldF[i] = tokens[book[i].wallet] /\ HeldF[i] \in Nat
  BY HoldingsTyped DEF HeldF, Held
<1>2. count \in Nat /\ IsFiniteSet(1..count) /\ round.next \in Nat
  BY Entries, AmountsAssumption DEF PassesInv, RoundTyped
<1>3. round.open => Unread \in SUBSET (1..count)
  BY <1>2 DEF Unread
<1>4. IsFiniteSet(Unread)
  BY <1>2, FS_Interval DEF Unread
<1>5. FSum(HeldF, 1..count) \in Nat
  BY <1>1, <1>2, SumNat
<1> QED
  BY <1>1, <1>2, <1>3, <1>4, <1>5

(* What comes in to one wallet raises the passes' holdings by no more.     *)
LEMMA MovedIn ==
  ASSUME PassesInv, PassesInv', UNCHANGED book, NEW v \in Wallets, NEW b \in Nat,
         \A x \in Wallets : tokens'[x] <= tokens[x] + (IF x = v THEN b ELSE 0),
         NEW U \in SUBSET (1..count)
  PROVE  /\ FSum(HeldF', U) <= FSum(HeldF, U) + b
         /\ FSum(HeldF', U) \in Nat /\ FSum(HeldF, U) \in Nat
<1>1. /\ \A i \in 1..count : /\ HeldF[i] = tokens[book[i].wallet] /\ HeldF[i] \in Nat
                             /\ book[i].wallet \in Wallets
      /\ IsFiniteSet(1..count) /\ IsFiniteSet(U)
  BY HeldTyped, Entries, FS_Subset DEF PassesInv
<1>2. count' = count /\ tokens' \in [Wallets -> Nat]
  BY DEF count, PassesInv, TradeTyped
<1>3. \A i \in 1..count : HeldF'[i] = tokens'[book[i].wallet] /\ HeldF'[i] \in Nat
  BY <1>1, <1>2 DEF HeldF, Held
<1> DEFINE g == [i \in U |-> IF book[i].wallet = v THEN HeldF[i] + b ELSE HeldF[i]]
<1>4. \A i \in U : g[i] \in Int /\ HeldF'[i] \in Int /\ HeldF'[i] <= g[i]
  BY <1>1, <1>3
<1>5. FSum(HeldF', U) <= FSum(g, U)
  <2> HIDE DEF g
  <2> QED
    BY <1>1, <1>4, SumMonotone
<1>6. FSum(HeldF', U) \in Nat /\ FSum(HeldF, U) \in Nat
  BY <1>1, <1>3, SumNat
<1>7. FSum(g, U) <= FSum(HeldF, U) + b
  <2>1. CASE \E i \in U : book[i].wallet = v
    <3>1. PICK y \in U : book[y].wallet = v
      BY <2>1
    <3>2. \A i \in U : book[i].wallet = v => i = y
      BY <3>1 DEF PassesInv, OnePassPerWallet
    <3>3. g[y] = HeldF[y] + b /\ \A i \in U \ {y} : g[i] = HeldF[i]
      BY <3>1, <3>2
    <3>4. \A i \in U : HeldF[i] \in Int
      <4>1. \A i \in U : HeldF[i] \in Nat
        BY <1>1
      <4> QED
        BY <4>1
    <3>5. FSum(g, U) = FSum(HeldF, U) + b
      <4> HIDE DEF g
      <4> DEFINE R == U
                 z == y
                 f == HeldF
      <4>1. /\ IsFiniteSet(R) /\ z \in R /\ \A i \in R : f[i] \in Int
            /\ g[z] = f[z] + b /\ \A i \in R \ {z} : g[i] = f[i]
            /\ b \in Int
        BY <1>1, <3>3, <3>4
      <4> HIDE DEF R, z, f
      <4>2. FSum(g, R) = FSum(f, R) + b
        BY <4>1, SumGrows
      <4> QED
        BY <4>2 DEF R, f
    <3> HIDE DEF g
    <3> QED
      BY <1>6, <3>5
  <2>2. CASE ~\E i \in U : book[i].wallet = v
    <3>1. \A i \in U : g[i] = HeldF[i]
      BY <2>2
    <3> HIDE DEF g
    <3>2. FSum(g, U) = FSum(HeldF, U)
      BY <1>1, <3>1, SumSame
    <3> QED
      BY <1>6, <3>2
  <2> QED
    BY <2>1, <2>2
<1>8. FSum(g, U) \in Int
  <2> HIDE DEF g
  <2> QED
    BY <1>1, <1>4, SumType
<1> HIDE DEF g
<1> QED
  BY <1>5, <1>6, <1>7, <1>8

(* The arithmetic of a taxed transfer of `a` during a round.               *)
LEMMA TaxedMove ==
  ASSUME NEW a \in Nat, NEW h \in Int, NEW h2 \in Int, NEW tax \in Nat,
         h2 <= h + (a - TransferFee(a)), TaxBps * h <= tax * (BPS - TaxBps)
  PROVE  TaxBps * h2 <= (tax + TransferFee(a)) * (BPS - TaxBps)
<1>1. BPS \in Nat /\ TaxBps \in Nat /\ BPS - TaxBps \in Nat
  BY AmountsAssumption
<1>2. PICK f \in Nat : f = TransferFee(a) /\ a * TaxBps <= f * BPS
  BY FeeCovers
<1>3. TaxBps * h2 <= TaxBps * (h + (a - f))
  <2>1. h2 <= h + (a - f) /\ h + (a - f) \in Int
    BY <1>2
  <2>2. PICK k \in Nat : h + (a - f) = h2 + k
    <3>1. (h + (a - f)) - h2 \in Nat
      BY <1>2, <2>1
    <3> QED
      BY <3>1
  <2>3. TaxBps * (h2 + k) = TaxBps * h2 + TaxBps * k /\ TaxBps * k \in Nat /\ TaxBps * h2 \in Int
    BY <1>1, <2>2
  <2> QED
    BY <2>2, <2>3
<1>4. TaxBps * (h + (a - f)) = TaxBps * h + (a * TaxBps - f * TaxBps)
  BY <1>1
<1>5. (tax + f) * (BPS - TaxBps) = tax * (BPS - TaxBps) + (f * BPS - f * TaxBps)
  BY <1>1
<1> DEFINE p == TaxBps * h2
           q == TaxBps * h
           s == a * TaxBps
           t == f * TaxBps
           u == f * BPS
           w == tax * (BPS - TaxBps)
<1>6. p \in Int /\ q \in Int /\ s \in Int /\ t \in Int /\ u \in Int /\ w \in Int
  BY <1>1
<1>7. p <= q + (s - t) /\ q <= w /\ s <= u /\ (tax + f) * (BPS - TaxBps) = w + (u - t)
  BY <1>2, <1>3, <1>4, <1>5
<1> HIDE DEF p, q, s, t, u, w
<1>8. p <= w + (u - t)
  BY <1>6, <1>7
<1> QED
  BY <1>2, <1>7, <1>8 DEF p

(* A taxed transfer during a round: what a pass gains that is read later   *)
(* was sent by another, and taxed.                                         *)
LEMMA TradeCovers ==
  ASSUME PassesInv, PassesInv', TaxCovers, Trade
  PROVE  TaxCovers'
<1> SUFFICES ASSUME RoundLive' PROVE TaxBps * (round'.weight + FSum(HeldF', Unread') - in_round'.held)
                                       <= in_round'.tax * (BPS - TaxBps)
  BY DEF TaxCovers
<1>1. PICK w \in Wallets, v \in Wallets, a \in Moves : Transfer(w, v, a) \/ Buy(w, a) \/ Sell(w, a)
  BY DEF Trade
<1>2. /\ UNCHANGED <<book, round, slot>> /\ PayTax(a)
  BY <1>1 DEF Transfer, Buy, Sell
<1>3. RoundLive /\ count' = count /\ Unread' = Unread
  BY <1>2 DEF RoundLive, count, Unread
<1>4. /\ a \in Nat /\ TransferFee(a) \in Nat /\ TransferFee(a) <= a
  BY FeeIsPart, AmountsAssumption
<1>5. /\ in_round \in [held : Nat, tax : Nat] /\ round.weight \in Nat /\ tokens \in [Wallets -> Nat]
  BY DEF PassesInv, TradeTyped, RoundTyped
<1>6. in_round'.held = in_round.held /\ in_round'.tax = in_round.tax + TransferFee(a)
  BY <1>2, <1>3, <1>5 DEF PayTax
<1> DEFINE f == TransferFee(a)
           b == a - f
           H == FSum(HeldF, Unread)
           H2 == FSum(HeldF', Unread)
<1> HIDE DEF f
<1>f. f \in Nat /\ f <= a /\ f = TransferFee(a) /\ b \in Nat
  BY <1>4 DEF f
<1>7. Unread \in SUBSET (1..count)
  BY <1>3, HeldTyped DEF RoundLive
<1>8. \E x \in Wallets : \A y \in Wallets : tokens'[y] <= tokens[y] + (IF y = x THEN b ELSE 0)
  <2>1. CASE Transfer(w, v, a)
    <3>1. w # v /\ tokens' = [tokens EXCEPT ![w] = tokens[w] - a, ![v] = tokens[v] + a - f]
      BY <2>1, <1>f DEF Transfer
    <3>2. \A y \in Wallets : tokens'[y] <= tokens[y] + (IF y = v THEN b ELSE 0)
      BY <1>4, <1>5, <1>f, <3>1
    <3> QED
      BY <3>2
  <2>2. CASE Buy(w, a)
    <3>1. tokens' = [tokens EXCEPT ![w] = tokens[w] + a - f]
      BY <2>2, <1>f DEF Buy
    <3>2. \A y \in Wallets : tokens'[y] <= tokens[y] + (IF y = w THEN b ELSE 0)
      BY <1>4, <1>5, <1>f, <3>1
    <3> QED
      BY <3>2
  <2>3. CASE Sell(w, a)
    <3>1. tokens' = [tokens EXCEPT ![w] = tokens[w] - a]
      BY <2>3 DEF Sell
    <3>2. \A y \in Wallets : tokens'[y] <= tokens[y] + (IF y = w THEN b ELSE 0)
      BY <1>4, <1>5, <1>f, <3>1
    <3> QED
      BY <3>2
  <2> QED
    BY <1>1, <2>1, <2>2, <2>3
<1>9. H2 <= H + b /\ H2 \in Nat /\ H \in Nat
  BY <1>2, <1>f, <1>7, <1>8, MovedIn
<1>10. TaxBps * (round.weight + H - in_round.held) <= in_round.tax * (BPS - TaxBps)
  BY <1>3 DEF TaxCovers
<1> HIDE DEF H, H2
<1> DEFINE h == round.weight + H - in_round.held
           h2 == round.weight + H2 - in_round.held
<1>11. h \in Int /\ h2 \in Int /\ h2 <= h + (a - TransferFee(a)) /\ in_round.tax \in Nat
  BY <1>5, <1>9, <1>f
<1> HIDE DEF h, h2
<1>12. TaxBps * h2 <= (in_round.tax + TransferFee(a)) * (BPS - TaxBps)
  BY <1>4, <1>10, <1>11, TaxedMove DEF h
<1> QED
  BY <1>2, <1>3, <1>6, <1>12 DEF h2, H2

(* A batch counts no more than the passes it reads hold.                   *)
LEMMA ReadCovers ==
  ASSUME PassesInv, NEW start \in Nat, NEW n \in Nat, NEW s \in Nat, ReadEntries(start, n, s)
  PROVE  /\ round'.weight + FSum(HeldF', Unread') <= s + FSum(HeldF, (start + 1)..count)
         /\ s \in {0} \cup {x \in Nat : x >= min_holding} =>
               round'.weight = 0 \/ round'.weight >= min_holding
         /\ FSum(HeldF, (start + 1)..count) \in Nat /\ FSum(HeldF', Unread') \in Nat
         /\ round'.weight \in Nat
<1> DEFINE S == (start + 1)..(start + n)
           U == (start + n + 1)..count
           W == [i \in S |-> Weight(i)]
<1>1. /\ count \in Nat /\ book \in [1..count -> PassEntryType]
      /\ \A i \in 1..count : book[i] \in [wallet : Wallets, weight : Nat, owed : Nat, paid : Nat]
  BY Entries DEF PassesInv, PassEntryType
<1>2. /\ n > 0 /\ start + n <= count
      /\ book' = [i \in 1..count |-> IF i \in S THEN [book[i] EXCEPT !.weight = Weight(i)]
                                                ELSE book[i]]
      /\ round'.weight = s + SumOver(S, Weight) /\ round'.next = start + n
      /\ UNCHANGED <<tables, tokens>>
  BY DEF ReadEntries
<1>3. ASSUME NEW i \in 1..count PROVE book'[i].wallet = book[i].wallet
  <2>1. book'[i] = [book[i] EXCEPT !.weight = Weight(i)] \/ book'[i] = book[i]
    BY <1>2
  <2> QED
    BY <1>1, <2>1
<1>4. count' = count
  <2>1. book' = [i \in 1..count |-> book'[i]]
    BY <1>2
  <2> QED
    BY <1>1, <2>1, FunLength DEF count
<1>5. HeldF' = HeldF
  BY <1>2, <1>3, <1>4 DEF HeldF, Held
<1>6. Unread' = U
  BY <1>2, <1>4 DEF Unread
<1>7. /\ IsFiniteSet(S) /\ IsFiniteSet(U) /\ S \cap U = {} /\ S \cup U = (start + 1)..count
      /\ \A i \in S \cup U : i \in 1..count
  <2>1. IsFiniteSet(S) /\ IsFiniteSet(U)
    BY FS_Interval, <1>1
  <2> QED
    BY <1>1, <1>2, <2>1
<1>8. \A i \in 1..count : HeldF[i] \in Nat /\ Weight(i) \in Nat /\ Weight(i) <= HeldF[i]
  <2>1. \A i \in 1..count : HeldF[i] = Held(i) /\ Held(i) \in Nat /\ Weight(i) \in Nat
    BY HoldingsTyped DEF HeldF
  <2> QED
    BY <2>1 DEF Weight
<1>w. \A i \in S : W[i] = Weight(i)
  OBVIOUS
<1>9. SumOver(S, Weight) = FSum(W, S)
  BY SumIsF
<1> HIDE DEF S, U, W
<1>10. \A i \in S : W[i] \in Nat /\ W[i] \in Int /\ HeldF[i] \in Int /\ W[i] <= HeldF[i]
  BY <1>7, <1>8, <1>w
<1>11. FSum(W, S) <= FSum(HeldF, S)
  BY <1>7, <1>10, SumMonotone
<1>12. \A i \in S \cup U : HeldF[i] \in Int /\ HeldF[i] \in Nat
  BY <1>7, <1>8
<1>13. FSum(HeldF, S \cup U) = FSum(HeldF, S) + FSum(HeldF, U)
  BY <1>7, <1>12, SumUnion
<1>14. FSum(W, S) \in Nat /\ FSum(HeldF, S) \in Nat /\ FSum(HeldF, U) \in Nat
  BY <1>7, <1>10, <1>12, SumNat
<1>e. /\ round'.weight = s + FSum(W, S) /\ FSum(HeldF', Unread') = FSum(HeldF, U)
      /\ FSum(HeldF, (start + 1)..count) = FSum(HeldF, S) + FSum(HeldF, U)
  <2>1. round'.weight = s + FSum(W, S)
    BY <1>2, <1>9
  <2>2. FSum(HeldF', Unread') = FSum(HeldF, U)
    BY <1>5, <1>6
  <2>3. FSum(HeldF, (start + 1)..count) = FSum(HeldF, S) + FSum(HeldF, U)
    BY <1>7, <1>13
  <2> QED
    BY <2>1, <2>2, <2>3
<1>15. round'.weight + FSum(HeldF', Unread') <= s + FSum(HeldF, (start + 1)..count)
  BY <1>11, <1>14, <1>e
<1>16. FSum(W, S) = 0 \/ FSum(W, S) >= min_holding
  <2>1. CASE \A i \in S : W[i] = 0
    BY <1>7, <2>1, SumZero
  <2>2. CASE ~\A i \in S : W[i] = 0
    <3>1. PICK i \in S : W[i] # 0
      BY <2>2
    <3>2. W[i] >= min_holding
      BY <1>w, <3>1 DEF Weight
    <3>3. W[i] <= FSum(W, S) /\ W[i] \in Nat
      BY <1>7, <1>10, SumTerm
    <3> QED
      BY <1>14, <3>2, <3>3, AmountsAssumption
  <2> QED
    BY <2>1, <2>2
<1>17. s \in {0} \cup {x \in Nat : x >= min_holding} =>
         round'.weight = 0 \/ round'.weight >= min_holding
  <2>1. min_holding \in Nat
    BY AmountsAssumption
  <2> QED
    BY <1>2, <1>9, <1>14, <1>16, <2>1
<1> QED
  BY <1>14, <1>15, <1>17, <1>e

(* A round starts with nothing counted and no tax.                         *)
LEMMA OpenCovers ==
  ASSUME PassesInv, PassesInv', Open
  PROVE  TaxCovers' /\ WeightCounts'
<1>1. PICK n \in 1..MAX_PASSES : OpenRound(n)
  BY DEF Open
<1>2. ~(holders_funded < allocated)
  BY DEF PassesInv, MoneyThere, MoneyTyped
<1>3. ReadEntries(0, n, 0) /\ in_round' = [held |-> SumOver(1..count, Held), tax |-> 0]
  BY <1>1, <1>2 DEF OpenRound
<1>4. n \in Nat /\ BPS \in Nat /\ TaxBps \in Nat
  BY AmountsAssumption
<1>5. SumOver(1..count, Held) = FSum(HeldF, 1..count)
  BY SumIsF DEF HeldF
<1>6. /\ round'.weight + FSum(HeldF', Unread') <= FSum(HeldF, 1..count)
      /\ round'.weight = 0 \/ round'.weight >= min_holding
      /\ FSum(HeldF, 1..count) \in Nat /\ FSum(HeldF', Unread') \in Nat /\ round'.weight \in Nat
  <2>1. 0 \in Nat /\ 0 \in {0} \cup {x \in Nat : x >= min_holding} /\ (0 + 1)..count = 1..count
    OBVIOUS
  <2> QED
    BY <1>3, <1>4, <2>1, ReadCovers
<1>7. TaxBps * (round'.weight + FSum(HeldF', Unread') - in_round'.held) <= in_round'.tax * (BPS - TaxBps)
  <2> DEFINE h == FSum(HeldF, 1..count)
             g == round'.weight + FSum(HeldF', Unread')
  <2>1. g \in Int /\ h \in Int /\ g <= h
    BY <1>6
  <2>2. in_round'.held = h /\ in_round'.tax = 0
    BY <1>3, <1>5
  <2> HIDE DEF h, g
  <2>3. g - h <= 0 /\ g - h \in Int
    BY <2>1
  <2>4. TaxBps * (g - h) <= 0
    BY <1>4, <2>3
  <2>5. 0 * (BPS - TaxBps) = 0
    BY <1>4
  <2> QED
    <3> DEFINE k == g - in_round'.held
    <3>1. TaxBps * k <= in_round'.tax * (BPS - TaxBps)
      BY <2>2, <2>4, <2>5
    <3>2. k = round'.weight + FSum(HeldF', Unread') - in_round'.held
      BY <1>6, <2>1, <2>2 DEF g
    <3> HIDE DEF k
    <3> QED
      BY <3>1, <3>2
<1> QED
  BY <1>6, <1>7 DEF TaxCovers, WeightCounts

(* A batch counts what it reads.                                           *)
LEMMA BatchCovers ==
  ASSUME PassesInv, PassesInv', TaxCovers, WeightCounts, Batch
  PROVE  TaxCovers' /\ WeightCounts'
<1>1. PICK start \in 1..MAX_PASSES, n \in 1..MAX_PASSES : NextBatch(start, n)
  BY DEF Batch
<1>2. /\ RoundLive /\ start = round.next /\ ReadEntries(start, n, round.weight)
      /\ UNCHANGED in_round
  BY <1>1 DEF NextBatch
<1>3. n \in Nat /\ start \in Nat /\ BPS \in Nat /\ TaxBps \in Nat
  BY AmountsAssumption
<1>4. round.weight \in Nat /\ in_round \in [held : Nat, tax : Nat]
  BY DEF PassesInv, RoundTyped, TradeTyped
<1>5. Unread = (start + 1)..count
  BY <1>2 DEF Unread
<1>6. /\ round'.weight + FSum(HeldF', Unread') <= round.weight + FSum(HeldF, Unread)
      /\ round'.weight = 0 \/ round'.weight >= min_holding
      /\ FSum(HeldF, Unread) \in Nat /\ FSum(HeldF', Unread') \in Nat /\ round'.weight \in Nat
  <2>1. round.weight \in {0} \cup {x \in Nat : x >= min_holding}
    BY <1>4 DEF WeightCounts
  <2> QED
    BY <1>2, <1>3, <1>4, <1>5, <2>1, ReadCovers
<1>7. TaxBps * (round'.weight + FSum(HeldF', Unread') - in_round'.held) <= in_round'.tax * (BPS - TaxBps)
  <2> DEFINE h == round.weight + FSum(HeldF, Unread) - in_round.held
             g == round'.weight + FSum(HeldF', Unread') - in_round.held
  <2>1. g \in Int /\ h \in Int /\ g <= h
    BY <1>4, <1>6
  <2>2. TaxBps * h <= in_round.tax * (BPS - TaxBps)
    BY <1>2 DEF TaxCovers
  <2> HIDE DEF h, g
  <2>3. PICK k \in Nat : h = g + k
    <3>1. h - g \in Nat
      BY <2>1
    <3> QED
      BY <2>1, <3>1
  <2>4. TaxBps * (g + k) = TaxBps * g + TaxBps * k /\ TaxBps * k \in Nat /\ TaxBps * g \in Int
    BY <1>3, <2>1
  <2>5. in_round.tax * (BPS - TaxBps) \in Int
    BY <1>3, <1>4
  <2>6. TaxBps * g <= in_round.tax * (BPS - TaxBps)
    BY <2>2, <2>3, <2>4, <2>5
  <2> QED
    BY <1>2, <2>6 DEF g
<1> QED
  BY <1>6, <1>7 DEF TaxCovers, WeightCounts

(* Every other step leaves the live round, or ends it.                     *)
LEMMA CoversKept ==
  PassesInv /\ PassesInv' /\ TaxCovers /\ WeightCounts /\ [Next]_vars => TaxCovers' /\ WeightCounts'
<1> SUFFICES ASSUME PassesInv, PassesInv', TaxCovers, WeightCounts, [Next]_vars
             PROVE  TaxCovers' /\ WeightCounts'
  OBVIOUS
<1>1. CASE UNCHANGED <<book, round, tokens, in_round, slot>>
  <2>1. HeldF' = HeldF /\ Unread' = Unread /\ RoundLive' = RoundLive
    BY <1>1 DEF HeldF, Held, count, Unread, RoundLive
  <2> QED
    BY <1>1, <2>1 DEF TaxCovers, WeightCounts
<1>2. CASE UNCHANGED round /\ ~RoundLive /\ UNCHANGED slot
  BY <1>2 DEF TaxCovers, WeightCounts, RoundLive
<1>3. CASE Tick
  <2>1. HeldF' = HeldF /\ Unread' = Unread /\ UNCHANGED <<round, in_round>> /\ slot' = slot + 1
    BY <1>3 DEF HeldF, Held, count, Unread, Tick
  <2>2. slot \in Nat /\ round.start_slot \in Nat /\ MAX_BATCH_SLOTS \in Nat
    BY WindowAssumption DEF PassesInv, TradeTyped, RoundTyped
  <2>3. RoundLive' => RoundLive
    BY <2>1, <2>2 DEF RoundLive
  <2> QED
    BY <2>1, <2>3 DEF TaxCovers, WeightCounts
<1>4. CASE Close \/ Remove \/ Evict
  <2>1. round'.weight = round.weight /\ ~round'.open
    <3>1. round \in [open : BOOLEAN, start_slot : Nat, weight : Nat, next : 0..MAX_PASSES, last_at : Nat]
      BY DEF PassesInv, RoundTyped
    <3>2. fault = FALSE /\ fault' = FALSE
      BY DEF PassesInv
    <3>3. CASE Close
      BY <3>1, <3>2, <3>3 DEF Close, CloseRound, Abort
    <3>4. CASE Remove
      BY <3>1, <3>2, <3>4 DEF Remove, RemovePass, Abort
    <3>5. CASE Evict
      BY <3>1, <3>2, <3>5 DEF Evict, RegisterPassEvict, Abort
    <3> QED
      BY <1>4, <3>3, <3>4, <3>5
  <2> QED
    BY <2>1 DEF TaxCovers, WeightCounts, RoundLive
<1>5. CASE PaySome
  <2>1. PICK S \in SUBSET (1..count) : PayPasses(S)
    BY <1>5 DEF PaySome
  <2>2. fault = FALSE /\ fault' = FALSE
    BY DEF PassesInv
  <2>3. /\ book' = [i \in 1..count |-> IF i \in S THEN [book[i] EXCEPT !.paid = book[i].owed] ELSE book[i]]
        /\ UNCHANGED <<round, tokens, in_round, slot>>
    BY <2>1, <2>2 DEF PayPasses, Abort, history
  <2>4. /\ count \in Nat
        /\ \A i \in 1..count : book[i] \in [wallet : Wallets, weight : Nat, owed : Nat, paid : Nat]
    BY Entries DEF PassesInv, PassEntryType
  <2>5. ASSUME NEW i \in 1..count PROVE book'[i].wallet = book[i].wallet
    <3>1. book'[i] = [book[i] EXCEPT !.paid = book[i].owed] \/ book'[i] = book[i]
      BY <2>3
    <3> QED
      BY <2>4, <3>1
  <2>6. count' = count
    <3>1. book' = [i \in 1..count |-> book'[i]]
      BY <2>3
    <3> QED
      BY <2>4, <3>1, FunLength DEF count
  <2>7. HeldF' = HeldF /\ Unread' = Unread /\ RoundLive' = RoundLive
    BY <2>3, <2>5, <2>6 DEF HeldF, Held, Unread, RoundLive
  <2> QED
    BY <2>3, <2>7 DEF TaxCovers, WeightCounts
<1>6. CASE Register
  BY <1>2, <1>6 DEF Register, RegisterPass
<1>7. CASE Trade
  <2>1. round' = round
    BY <1>7 DEF Trade, Transfer, Buy, Sell
  <2> QED
    BY <1>7, <2>1, TradeCovers DEF WeightCounts
<1>8. CASE UNCHANGED vars \/ Index \/ Sponsor
  BY <1>1, <1>8 DEF vars, history, Index, IndexPasses, Sponsor, SponsorHolders
<1> QED
  BY <1>3, <1>4, <1>5, <1>6, <1>7, <1>8, OpenCovers, BatchCovers DEF Next

(* close_round: at the price the round is closed at.                       *)
LEMMA ClosePaysLess ==
  ASSUME DustFree, PassesInv, TaxCovers, WeightCounts, NEW r \in Reserves, CloseRound(r)
  PROVE  (allocated' - allocated) * (round.weight - in_round.held) * ReserveToken
           <= in_round.tax * r * round.weight
<1> DEFINE d == CloseTotal(r) + CloseReward(r)
           w == round.weight
           x == round.weight - in_round.held
           tax == in_round.tax
           al == CloseAlloc(r)
<1>1. /\ BPS \in Nat \ {0} /\ ReserveToken \in Nat \ {0} /\ TaxBps \in Nat /\ BPS - TaxBps \in Nat
      /\ r \in Nat
  BY AmountsAssumption
<1>2. /\ w \in Nat /\ x \in Int /\ tax \in Nat /\ allocated \in Nat /\ holders_funded \in Nat
      /\ allocated <= holders_funded
  BY DEF PassesInv, RoundTyped, TradeTyped, MoneyTyped, MoneyThere
<1>3. RoundLive /\ round.next = count /\ allocated' = allocated + CloseTotal(r) + CloseReward(r)
  BY CloseIs
<1>4. CloseReward(r) \in Nat /\ CloseTotal(r) \in Nat /\ d \in Nat /\ al \in Nat /\ d <= al
  <2>1. /\ CloseReward(r) \in Nat /\ CloseTotal(r) \in Nat /\ CloseAlloc(r) \in Nat
        /\ CloseTotal(r) + CloseReward(r) <= CloseAlloc(r)
    BY <1>1, <1>3, CloseFits
  <2>2. CloseTotal(r) + CloseReward(r) \in Nat
    BY <2>1
  <2> QED
    BY <2>1, <2>2
<1>5. allocated' - allocated = d
  BY <1>2, <1>3, <1>4
<1>6. TaxBps * x <= tax * (BPS - TaxBps)
  <2>1. count \in Nat
    BY Entries DEF PassesInv
  <2>2. Unread = {}
    BY <1>3, <2>1 DEF Unread
  <2>3. FSum(HeldF, Unread) = 0
    BY <2>2, SumOfNone
  <2>4. w + 0 - in_round.held = x
    <3>1. round.weight \in Nat /\ in_round.held \in Nat
      BY DEF PassesInv, RoundTyped, TradeTyped
    <3> QED
      BY <3>1
  <2> QED
    BY <1>3, <2>3, <2>4 DEF TaxCovers
<1>7. w = 0 \/ w >= min_holding
  BY DEF WeightCounts
<1>8. al = RoundAlloc(holders_funded - allocated, w, r)
  BY DEF CloseAlloc
<1>h. w = 0 => x <= 0
  BY DEF PassesInv, TradeTyped
<1> HIDE DEF d, w, x, tax, al
<1>9. d * x * ReserveToken <= tax * r * w
  <2>0. tax * r * w \in Nat
    BY <1>1, <1>2
  <2>1. CASE x <= 0
    <3>1. PICK y \in Nat : x = 0 - y
      <4>1. 0 - x \in Nat
        BY <1>2, <2>1
      <4> QED
        BY <1>2, <4>1
    <3>2. d * y * ReserveToken \in Nat
      BY <1>1, <1>4, <3>1
    <3>3. d * (0 - y) * ReserveToken = 0 - (d * y * ReserveToken)
      BY <1>1, <1>4, <3>1
    <3> QED
      BY <2>0, <3>1, <3>2, <3>3
  <2>2. CASE x > 0
    <3>1. x \in Nat /\ w \in Nat \ {0} /\ w >= min_holding
      BY <1>2, <1>7, <1>h, <2>2
    <3>2. (al * ReserveToken) * BPS <= (w * r) * TaxBps
      <4>1. holders_funded - allocated \in Nat
        BY <1>2
      <4> QED
        BY <1>1, <1>8, <3>1, <4>1, AllocIsTaxed
    <3> DEFINE p == (d * ReserveToken) * BPS
               q == (al * ReserveToken) * BPS
               s == (w * r) * TaxBps
    <3>3. p \in Nat /\ q \in Nat /\ s \in Nat /\ p <= q
      <4>1. d * ReserveToken <= al * ReserveToken /\ d * ReserveToken \in Nat /\ al * ReserveToken \in Nat
        BY <1>1, <1>4, TimesMono
      <4>2. p <= q /\ p \in Nat /\ q \in Nat
        BY <1>1, <4>1, TimesMono
      <4>3. w * r \in Nat
        BY <1>1, <3>1
      <4>4. s \in Nat
        BY <1>1, <4>3
      <4> QED
        BY <4>2, <4>4
    <3>4. p <= s
      <4> HIDE DEF p, q, s
      <4>1. q <= s
        BY <3>2 DEF q, s
      <4> QED
        BY <3>3, <4>1
    <3>5. p * x <= s * x
      <4> HIDE DEF p, q, s
      <4> QED
        BY <3>1, <3>3, <3>4, TimesMono
    <3>6. s * x = (w * r) * (TaxBps * x)
      BY <1>1, <3>1
    <3>7. (w * r) * (TaxBps * x) <= (w * r) * (tax * (BPS - TaxBps))
      <4>1. w * r \in Nat /\ TaxBps * x \in Nat /\ tax * (BPS - TaxBps) \in Nat
        BY <1>1, <1>2, <3>1
      <4> QED
        BY <1>6, <4>1, TimesMono
    <3>8. (w * r) * (tax * (BPS - TaxBps)) <= (w * r) * (tax * BPS)
      <4>1. w * r \in Nat /\ tax * (BPS - TaxBps) \in Nat /\ tax * BPS \in Nat
        BY <1>1, <1>2, <3>1
      <4>2. BPS - TaxBps <= BPS
        BY <1>1
      <4>3. tax * (BPS - TaxBps) <= tax * BPS
        BY <1>1, <1>2, <4>2, TimesMono
      <4> QED
        BY <4>1, <4>3, TimesMono
    <3>9. (d * x * ReserveToken) * BPS = p * x
      BY <1>1, <1>4, <3>1
    <3>10. (tax * r * w) * BPS = (w * r) * (tax * BPS)
      BY <1>1, <1>2, <3>1
    <3>11. (d * x * ReserveToken) * BPS <= (tax * r * w) * BPS
      <4> DEFINE a1 == (d * x * ReserveToken) * BPS
                 a2 == s * x
                 a3 == (w * r) * (tax * (BPS - TaxBps))
                 a4 == (tax * r * w) * BPS
      <4>1. a1 \in Int /\ a2 \in Int /\ a3 \in Int /\ a4 \in Int
        BY <1>1, <1>2, <1>4, <3>1, <3>3
      <4>2. a1 <= a2 /\ a2 <= a3 /\ a3 <= a4
        BY <3>5, <3>6, <3>7, <3>8, <3>9, <3>10
      <4> HIDE DEF a1, a2, a3, a4
      <4>3. a1 <= a4
        BY <4>1, <4>2
      <4> QED
        BY <4>3 DEF a1, a4
    <3>12. d * x * ReserveToken \in Int
      BY <1>1, <1>4, <3>1
    <3> QED
      BY <1>1, <2>0, <3>11, <3>12, TimesCancel
  <2> QED
    BY <1>2, <2>1, <2>2
<1> QED
  BY <1>5, <1>9 DEF d, w, x, tax

(* Moving tokens between wallets while a round is being read earns         *)
(* nothing: at the price the round is closed at, what close_round          *)
(* allocates to holders and caller beyond what the holdings at the start   *)
(* of the round would give is worth no more than the tax paid on the       *)
(* moves.                                                                  *)
THEOREM MovingNeverEarns ==
  ASSUME DustFree
  PROVE  Spec => MovingNeverPays
<1> DEFINE A == \A reserve_xnt \in Reserves :
                  CloseRound(reserve_xnt) =>
                    (allocated' - allocated) * (round.weight - in_round.held) * ReserveToken
                        <= in_round.tax * reserve_xnt * round.weight
<1>1. Init => TaxCovers /\ WeightCounts
  BY DEF Init, NoRound, TaxCovers, WeightCounts, RoundLive
<1>2. PassesInv /\ PassesInv' /\ TaxCovers /\ WeightCounts /\ [Next]_vars => TaxCovers' /\ WeightCounts'
  BY CoversKept
<1>3. PassesInv /\ TaxCovers /\ WeightCounts /\ [Next]_vars => [A]_vars
  BY ClosePaysLess
<1> QED
  BY <1>1, <1>2, <1>3, InitPasses, PassesStep, PTL DEF Spec, MovingNeverPays
=============================================================================
