------------------------------ MODULE TaxCycle ------------------------------
(***************************************************************************)
(* The steps of a distribution cycle that move collected tax               *)
(* (src/src/distribute.ts): withdraw, burn, sell, deposit and burn LP, swap *)
(* the pair token, the creator's reward, and the allocation to holders of  *)
(* what is left.  Each is one transaction, journaled in `inflight` before  *)
(* it is broadcast; its effect on the counters is applied from the         *)
(* confirmed transaction, by this cycle or by a later one.                 *)
(*                                                                         *)
(* PayoutJournal has the payouts in detail; one action stands for them     *)
(* here.  A pool's prices, the thresholds below which a step waits, and    *)
(* slippage limits are choices.  Network fees come out of the operating    *)
(* reserve; neither is modelled.                                           *)
(***************************************************************************)
EXTENDS Integers, Sequences

CONSTANTS
  Withdrawals,                      \* what may have been withheld
  BurnShare, LpShare, CreatorShare, \* in tenths
  MaxTxs                            \* bound: how many transactions are signed

ASSUME TaxAssumption ==
  /\ Withdrawals \subseteq Nat
  /\ {BurnShare, LpShare, CreatorShare, MaxTxs} \subseteq Nat
  /\ BurnShare + LpShare + CreatorShare <= 10

VARIABLES
  paired,      \* is the token paired with another token (JACK) than XNT?
  otherReward, \* is the creator rewarded in another token (USDC) than XNT?
  wallet,      \* what the distributor's accounts hold
  books,       \* the counters of the state file
  inflight,    \* the journaled transaction, and what the chain makes of it
  onChain,     \* "signed", "sent", and what became of it: "ok" or "err"
  past,        \* is its blockhash past?  (Then it never lands any more.)
  stage,       \* the step this cycle is at, "idle" between cycles
  signedTxs, sales, \* history: how many transactions, how many sales and swaps
  taxRaced        \* history: was one that landed ever dropped as expired?

taxVars == <<paired, otherReward, wallet, books, inflight, onChain, past, stage, signedTxs, sales, taxRaced>>

NoEntry == [kind |-> "none", in |-> 0, out |-> 0, lp |-> 0, creator |-> 0]
Free == inflight = NoEntry

(* The books: lp.tokens, lp.sellTokens, burn.pending, creator.sellTokens; lp.xnt or *)
(* quote.lp; quote.creator, creator.xnt, creator.rewardTokens; all that is owed     *)
NoBooks == [lpKeep |-> 0, lpSell |-> 0, burn |-> 0, creatorSell |-> 0,
            lpPair |-> 0, creatorPair |-> 0, creatorXnt |-> 0, reward |-> 0, owed |-> 0]

AtLeast0(x) == IF x > 0 THEN x ELSE 0
Lesser(x, y) == IF x < y THEN x ELSE y
Pair == IF paired THEN "pair" ELSE "xnt"

(***************************************************************************)
(* What each transaction does                                              *)
(***************************************************************************)

(* to the wallet, *)
Moved(w, e) ==
  CASE e.kind = "withdraw" -> [w EXCEPT !.token = @ + e.in]
    [] e.kind = "burn" -> [w EXCEPT !.token = @ - e.in]
    [] e.kind = "sell" -> [w EXCEPT !.token = @ - e.in, ![Pair] = @ + e.out]
    [] e.kind = "lp" -> [w EXCEPT !.token = @ - e.in, ![Pair] = @ - e.out]
    [] e.kind = "quote-swap" -> [w EXCEPT !.pair = @ - e.in, !.xnt = @ + e.out]
    [] e.kind = "creator-swap" -> [w EXCEPT !.xnt = @ - e.in, !.reward = @ + e.out]
    [] e.kind = "creator" -> IF otherReward THEN [w EXCEPT !.reward = @ - e.in] ELSE [w EXCEPT !.xnt = @ - e.in]

Whole(w) == \A account \in DOMAIN w : w[account] >= 0

(* splitTax: half of the liquidity's part is kept, half is sold             *)
Split(amount) ==
  LET lp == (amount * LpShare) \div 10
  IN [burn |-> (amount * BurnShare) \div 10, keep |-> lp \div 2, sell |-> lp - lp \div 2,
      creator |-> (amount * CreatorShare) \div 10]

(* A sale's proceeds go to liquidity and the creator as their parts of it   *)
PartOf(part, e) == IF e.in > 0 THEN (e.out * part) \div e.in ELSE 0

(* and, through reconcile, to the books                                     *)
Applied(b, e) ==
  CASE e.kind = "withdraw" ->
         LET split == Split(e.in)
         IN [b EXCEPT !.lpKeep = @ + split.keep, !.lpSell = @ + split.sell,
                      !.burn = @ + split.burn, !.creatorSell = @ + split.creator]
    [] e.kind = "burn" -> [b EXCEPT !.burn = AtLeast0(@ - e.in)]
    [] e.kind = "sell" ->
         LET got == PartOf(e.creator, e)
         IN [b EXCEPT !.lpPair = @ + PartOf(e.lp, e), !.lpSell = AtLeast0(@ - e.lp),
                      !.creatorSell = AtLeast0(@ - e.creator),
                      !.creatorPair = IF paired THEN @ + got ELSE @,
                      !.creatorXnt = IF paired THEN @ ELSE @ + got]
    [] e.kind = "lp" -> [b EXCEPT !.lpKeep = AtLeast0(@ - e.in), !.lpPair = AtLeast0(@ - e.out)]
    [] e.kind = "quote-swap" -> [b EXCEPT !.creatorXnt = @ + PartOf(e.creator, e), !.creatorPair = AtLeast0(@ - e.creator)]
    [] e.kind = "creator-swap" -> [b EXCEPT !.creatorXnt = AtLeast0(@ - e.in), !.reward = @ + e.out]
    [] e.kind = "creator" -> IF otherReward THEN [b EXCEPT !.reward = AtLeast0(@ - e.in)]
                                            ELSE [b EXCEPT !.creatorXnt = AtLeast0(@ - e.in)]

(* Some tax was withdrawn before                                           *)
TaxInit ==
  /\ paired \in BOOLEAN
  /\ otherReward \in BOOLEAN
  /\ \E amount \in Withdrawals :
       /\ wallet = [token |-> amount, xnt |-> 0, pair |-> 0, reward |-> 0]
       /\ books = Applied(NoBooks, [NoEntry EXCEPT !.kind = "withdraw", !.in = amount])
  /\ inflight = NoEntry
  /\ onChain = "none"
  /\ past = FALSE
  /\ stage = "idle"
  /\ signedTxs = 0
  /\ sales = 0
  /\ taxRaced = FALSE

Quiet == UNCHANGED <<paired, otherReward>>

(* It lands, well or not, while its blockhash lasts; one that would overdraw *)
(* an account fails.                                                       *)
TaxLands ==
  /\ onChain = "sent" /\ ~past
  /\ \/ onChain' = "err" /\ UNCHANGED <<wallet, sales>>
     \/ /\ onChain' = "ok"
        /\ wallet' = Moved(wallet, inflight)
        /\ Whole(wallet')
        /\ sales' = IF inflight.kind \in {"sell", "quote-swap"} THEN sales + 1 ELSE sales
  /\ UNCHANGED <<books, inflight, past, stage, signedTxs, taxRaced>>
  /\ Quiet

BlocksPass ==
  /\ ~Free /\ ~past
  /\ past' = TRUE
  /\ UNCHANGED <<wallet, books, inflight, onChain, stage, signedTxs, sales, taxRaced>>
  /\ Quiet

(* What outcome (src/src/tx.ts) may answer: a status, which a lagging node  *)
(* may not know, then the block height another node gives.                 *)
TaxOutcomes ==
  {"pending"}
  \cup {o \in {"confirmed"} : onChain = "ok"}
  \cup {o \in {"failed"} : onChain = "err"}
  \cup {o \in {"expired"} : past}

(***************************************************************************)
(* The cycle                                                               *)
(***************************************************************************)

Stages == <<"harvest", "burnTax", "balanceLp", "sell", "autoLp", "swapQuote", "creatorReward", "allocateNew", "idle">>

After(st) == LET i == CHOOSE n \in 1..8 : Stages[n] = st IN Stages[i + 1]

(* A step whose transaction did not land is skipped in the later stages and *)
(* ends the cycle in the others.                                           *)
AfterDrop == IF stage \in {"autoLp", "swapQuote", "creatorReward"} THEN After(stage) ELSE "idle"

Goes(next) == stage' = next
OnlyStage == UNCHANGED <<wallet, books, inflight, onChain, past, signedTxs, sales, taxRaced>> /\ Quiet

BeginTaxCycle == stage = "idle" /\ Goes(IF Free THEN "harvest" ELSE "resolve") /\ OnlyStage

(* sendJournaled: signed and simulated, the transaction is in the state file *)
(* before anything else happens                                            *)
JournalTx(e) ==
  /\ Free
  /\ e.in > 0
  /\ signedTxs < MaxTxs
  /\ signedTxs' = signedTxs + 1
  /\ inflight' = e
  /\ onChain' = "signed"
  /\ past' = FALSE
  /\ UNCHANGED <<wallet, books, stage, sales, taxRaced>>
  /\ Quiet

BroadcastTx ==
  /\ stage \notin {"idle", "resolve"}
  /\ onChain = "signed"
  /\ onChain' = "sent"
  /\ UNCHANGED <<wallet, books, inflight, past, stage, signedTxs, sales, taxRaced>>
  /\ Quiet

Resolving == stage # "idle" /\ (IF stage = "resolve" THEN ~Free ELSE onChain \in {"sent", "ok", "err"})

TxResolved == inflight' = NoEntry /\ onChain' = "none" /\ past' = FALSE

(* reconcile: confirmed, its effect goes into the books and out of the journal. *)
(* What the creator's XNT bought is deposited in the same step.             *)
Apply ==
  /\ Resolving
  /\ "confirmed" \in TaxOutcomes
  /\ books' = Applied(books, inflight)
  /\ TxResolved
  /\ Goes(IF stage = "resolve" THEN "harvest"
          ELSE IF inflight.kind = "creator-swap" THEN stage ELSE After(stage))
  /\ UNCHANGED <<wallet, signedTxs, sales, taxRaced>>
  /\ Quiet

(* Failed or expired: it did nothing                                        *)
DropTx ==
  /\ Resolving
  /\ TaxOutcomes \cap {"failed", "expired"} # {}
  /\ taxRaced' = (taxRaced \/ onChain = "ok")
  /\ TxResolved
  /\ Goes(IF stage = "resolve" THEN "harvest" ELSE AfterDrop)
  /\ UNCHANGED <<wallet, books, signedTxs, sales>>
  /\ Quiet

(* What is held of the tokens, less what is kept for liquidity or to burn   *)
Sellable == AtLeast0(wallet.token - books.lpKeep - books.burn)
Swappable == AtLeast0(wallet.pair - books.lpPair)

(* Its part of what is sold, pro rata to its share of all that awaits sale  *)
ShareOf(part, sold, all) == (Lesser(part, all) * sold) \div all

Withdraw ==
  /\ stage = "harvest"
  /\ \E amount \in Withdrawals : JournalTx([NoEntry EXCEPT !.kind = "withdraw", !.in = amount])

BurnTax ==
  /\ stage = "burnTax"
  /\ JournalTx([NoEntry EXCEPT !.kind = "burn", !.in = Lesser(books.burn, wallet.token)])

(* lpKeepForBalance keeps as many of the liquidity's tokens as prices say   *)
BalanceLp ==
  /\ stage = "balanceLp"
  /\ \E keep \in 0..(books.lpKeep + books.lpSell) :
       books' = [books EXCEPT !.lpKeep = keep, !.lpSell = books.lpKeep + books.lpSell - keep]
  /\ Goes(After(stage))
  /\ UNCHANGED <<wallet, inflight, onChain, past, signedTxs, sales, taxRaced>>
  /\ Quiet

(* Mutation: All that is held is for sale                                   *)
MutSell ==
  /\ stage = "sell"
  /\ \E sold \in 1..wallet.token, price \in {1, 2} :
       JournalTx([kind |-> "sell", in |-> sold, out |-> sold \div price,
                  lp |-> ShareOf(books.lpSell, sold, wallet.token), creator |-> ShareOf(books.creatorSell, sold, wallet.token)])

(* The price impact and a cap limit how much is sold                        *)
Sell ==
  /\ stage = "sell"
  /\ \E sold \in 1..Sellable, price \in {1, 2} :
       JournalTx([kind |-> "sell", in |-> sold, out |-> sold \div price,
                  lp |-> ShareOf(books.lpSell, sold, Sellable), creator |-> ShareOf(books.creatorSell, sold, Sellable)])

AutoLp ==
  /\ stage = "autoLp"
  /\ \E tokens \in 1..Lesser(books.lpKeep, wallet.token) :
       \E others \in 1..(IF paired THEN Lesser(books.lpPair, wallet.pair) ELSE books.lpPair) :
         JournalTx([NoEntry EXCEPT !.kind = "lp", !.in = tokens, !.out = others])

SwapQuote ==
  /\ stage = "swapQuote"
  /\ paired
  /\ \E sold \in 1..Swappable :
       JournalTx([NoEntry EXCEPT !.kind = "quote-swap", !.in = sold, !.out = sold,
                  !.creator = ShareOf(books.creatorPair, sold, Swappable)])

(* In XNT it is deposited; in another token it is bought, then deposited    *)
CreatorReward ==
  /\ stage = "creatorReward"
  /\ \/ ~otherReward /\ JournalTx([NoEntry EXCEPT !.kind = "creator", !.in = books.creatorXnt])
     \/ otherReward /\ JournalTx([NoEntry EXCEPT !.kind = "creator-swap", !.in = books.creatorXnt, !.out = books.creatorXnt])
     \/ otherReward /\ JournalTx([NoEntry EXCEPT !.kind = "creator", !.in = books.reward])

Reserved == books.owed + books.creatorXnt + (IF paired THEN 0 ELSE books.lpPair)

(* All free XNT goes to holders, rounded down for each                      *)
AllocateRest ==
  /\ stage = "allocateNew"
  /\ \E dust \in {0, 1} :
       /\ wallet.xnt - Reserved > dust
       /\ books' = [books EXCEPT !.owed = @ + wallet.xnt - Reserved - dust]
  /\ Goes("idle")
  /\ UNCHANGED <<wallet, inflight, onChain, past, signedTxs, sales, taxRaced>>
  /\ Quiet

(* Nothing to do in this step, or too little                                *)
SkipStage == stage \notin {"idle", "resolve"} /\ Free /\ Goes(After(stage)) /\ OnlyStage

(* A throw, a transaction still pending, or a crash                         *)
EndTaxCycle == stage # "idle" /\ Goes("idle") /\ OnlyStage

(* The payouts of PayoutJournal                                             *)
PayHolders ==
  /\ stage = "idle"
  /\ books.owed \in 1..wallet.xnt
  /\ wallet' = [wallet EXCEPT !.xnt = @ - books.owed]
  /\ books' = [books EXCEPT !.owed = 0]
  /\ UNCHANGED <<inflight, onChain, past, stage, signedTxs, sales, taxRaced>>
  /\ Quiet

TaxNext ==
  \/ BeginTaxCycle \/ BroadcastTx \/ Apply \/ DropTx
  \/ Withdraw \/ BurnTax \/ BalanceLp \/ Sell \/ AutoLp \/ SwapQuote \/ CreatorReward \/ AllocateRest
  \/ SkipStage \/ EndTaxCycle \/ PayHolders
  \/ TaxLands \/ BlocksPass

TaxSpec == TaxInit /\ [][TaxNext]_taxVars

(***************************************************************************)
(* Properties                                                              *)
(***************************************************************************)

(* What the books set aside is in the wallet, but for what sales and swaps  *)
(* round: tokens kept for liquidity or to burn are not sold, and what is    *)
(* owed to holders, the creator and liquidity is not promised twice, however *)
(* cycles stop, as long as no transaction that landed is taken for expired. *)
SetAsideThere ==
  Free /\ ~taxRaced =>
    /\ wallet.token + sales >= books.lpKeep + books.lpSell + books.burn + books.creatorSell
    /\ wallet.xnt + sales >= Reserved
    /\ wallet.pair + sales >= IF paired THEN books.lpPair + books.creatorPair ELSE 0
    /\ wallet.reward >= books.reward
=============================================================================
