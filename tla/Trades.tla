------------------------------- MODULE Trades -------------------------------
(***************************************************************************)
(* One peg order, or one limit buy, traded by bots that share its state    *)
(* file: the intent journaled before a trade is sent, signed, counted and  *)
(* forgotten (src/src/send-intent.ts with src/src/peg.ts and               *)
(* src/src/limit.ts), and the wallet's fee journal with its daily cap       *)
(* (FeeCap in src/src/arb-guard.ts, send in src/src/arb-engine.ts).          *)
(*                                                                         *)
(* Each change to a state file happens under the file's lock, so it is one  *)
(* step (FileLock); everything between two changes is steps of its own.    *)
(* A trade is named by its intent's token, which is also its signature:     *)
(* one token is signed at most once.  A limit buy is an order whose day     *)
(* never ends, its budget being MaxDay.                                     *)
(***************************************************************************)
EXTENDS Landing, FiniteSets, FiniteSetsExt, Folds, Functions

CONSTANTS
  Bots, NoTrade,
  MaxTrade, MaxDay,     \* tokens a trade and a day
  FeeEstimate, FeePaid, \* what is reserved for a transaction, what the chain charges
  FeeCapacity,          \* maxFeesPerDay
  MaxDays               \* bound: how often the day changes

ASSUME TradesAssumption ==
  /\ NoTrade \notin Sends
  /\ MaxTrade \in Nat \ {0}
  /\ IsFiniteSet(Sends)
  /\ {MaxDay, FeePaid, FeeEstimate, FeeCapacity, MaxDays} \subseteq Nat
  /\ FeePaid <= FeeEstimate

VARIABLES
  row,      \* the order's row: pending intent and its trade, counted trades, day, used
  deal,     \* deal[s]: what the intent of trade s says, its size and its day
  fee,      \* the fee journal: what is held against each transaction
  decided,  \* intent-resolutions.json: a person's decisions
  bot,      \* what each bot is doing, about which trade, with what it read
  today,
  ran,      \* history: the bots that ever ran
  blind     \* history: signed intents dropped on a verdict about the unsigned one

tradesVars == <<row, deal, fee, decided, bot, today, ran, blind>>

NoPending == [trade |-> NoTrade, signed |-> FALSE]
NoDeal == [size |-> 0, day |-> 0]
Resting == [doing |-> "idle", intent |-> NoPending, left |-> 0]

TradesTypeOK ==
  /\ LandingTypeOK
  /\ row \in [pending : [trade : Sends \cup {NoTrade}, signed : BOOLEAN],
              counted : SUBSET Sends, day : 0..MaxDays, used : Nat]
  /\ deal \in [Sends -> [size : 0..MaxTrade, day : 0..MaxDays]]
  /\ fee \in [Sends -> 0..FeeEstimate]
  /\ decided \in [Sends -> {"none", "landed", "dropped"}]
  /\ today \in 0..MaxDays
  /\ ran \subseteq Bots
  /\ blind \subseteq Sends

TradesInit ==
  /\ LandingInit
  /\ row = [pending |-> NoPending, counted |-> {}, day |-> 0, used |-> 0]
  /\ deal = [s \in Sends |-> NoDeal]
  /\ fee = [s \in Sends |-> 0]
  /\ decided = [s \in Sends |-> "none"]
  /\ bot = [b \in Bots |-> Resting]
  /\ today = 0
  /\ ran = {}
  /\ blind = {}

Doing(b, what) == bot[b].doing = what
Becomes(b, what) == bot' = [bot EXCEPT ![b].doing = what]
Rests(b) == bot' = [bot EXCEPT ![b] = Resting]
OnlyBot == UNCHANGED <<landingVars, row, deal, fee, decided, today, ran, blind>>

(* Every change first lets yesterday's count fall away *)
Fresh(r) == IF r.day = today THEN r ELSE [r EXCEPT !.day = today, !.used = 0]

(***************************************************************************)
(* One check                                                               *)
(***************************************************************************)

(* Look at the journaled intent, without the lock *)
Look(b) ==
  /\ Doing(b, "idle")
  /\ bot' = [bot EXCEPT ![b] = [Resting EXCEPT
       !.doing = IF row.pending = NoPending THEN "pricing" ELSE "settling", !.intent = row.pending]]
  /\ ran' = ran \cup {b}
  /\ UNCHANGED <<landingVars, row, deal, fee, decided, today, blind>>

(* Mutation: "Expired, and nothing found" is taken for proof *)
MutVerdictsUnproven(i) ==
  IF ~i.signed THEN {"dropped"}
  ELSE {v \in {"landed"} : "landed" \in Fates(i.trade)}
       \cup {v \in {"dropped"} : Fates(i.trade) \cap {"failed", "never-landed", "expired"} # {}}

(* What became of it.  A person's decision counts only when the chain      *)
(* cannot say and the blockhash has expired on finalized state.            *)
Verdicts(i) ==
  IF ~i.signed THEN {"dropped"}
  ELSE {v \in {"landed"} : "landed" \in Fates(i.trade)}
       \cup {v \in {"dropped"} : Fates(i.trade) \cap {"failed", "never-landed"} # {}}
       \cup {v \in {decided[i.trade]} : "expired" \in Fates(i.trade) /\ v # "none"}

(* Unsettled, there is no trade until a later check *)
Settle(b) ==
  /\ Doing(b, "settling")
  /\ \/ "landed" \in Verdicts(bot[b].intent) /\ Becomes(b, "counting")
     \/ "dropped" \in Verdicts(bot[b].intent) /\ Becomes(b, "dropping")
     \/ bot[b].intent.signed /\ Rests(b)
  /\ OnlyBot

(* Is this the intent in the slot?  An unsigned one is known by its token,   *)
(* whatever has been added to it since.                                     *)
IsThis(r, i) == r.pending.trade = i.trade /\ (i.signed => r.pending.signed)

Drop(b) ==
  LET i == bot[b].intent
  IN /\ Doing(b, "dropping")
     /\ row' = IF IsThis(row, i) THEN [Fresh(row) EXCEPT !.pending = NoPending] ELSE Fresh(row)
     /\ blind' = IF IsThis(row, i) /\ row.pending # i THEN blind \cup {i.trade} ELSE blind
     /\ Becomes(b, "pricing")
     /\ UNCHANGED <<landingVars, deal, fee, decided, today, ran>>

(* Mutation: A trade is counted once, but not added up *)
MutCountedUnsummed(r, s) ==
  LET f == Fresh(r)
  IN IF f.pending.trade = s THEN [f EXCEPT !.pending = NoPending, !.counted = @ \cup {s}] ELSE f

(* Count a landed trade once, against its own day, and clear its intent *)
Counted(r, s) ==
  LET f == Fresh(r)
      tally == IF s \in f.counted THEN f
               ELSE [f EXCEPT !.counted = @ \cup {s}, !.used = IF deal[s].day = f.day THEN @ + deal[s].size ELSE @]
  IN IF f.pending.trade = s THEN [tally EXCEPT !.pending = NoPending] ELSE tally

(* After an earlier check's trade is counted this check goes on to price;  *)
(* after its own trade it ends.                                             *)
Count(b) ==
  /\ \/ Doing(b, "counting") /\ Becomes(b, "pricing")
     \/ Doing(b, "booking") /\ Rests(b)
  /\ row' = Counted(row, bot[b].intent.trade)
  /\ UNCHANGED <<landingVars, deal, fee, decided, today, ran, blind>>

(* What is left of the day is read before prices and pools are awaited *)
Left == MaxDay - (IF row.day = today THEN row.used ELSE 0)

Price(b) ==
  /\ Doing(b, "pricing")
  /\ IF Left > 0
     THEN bot' = [bot EXCEPT ![b].doing = "claiming", ![b].left = Left]
     ELSE Rests(b)
  /\ OnlyBot

(* Take the slot with a new intent, unless another bot's is in it *)
Claim(b) ==
  /\ Doing(b, "claiming")
  /\ \E s \in NextOf({unused \in Sends : deal[unused] = NoDeal}) :
       /\ IF row.pending.trade = NoTrade
          THEN /\ row' = [Fresh(row) EXCEPT !.pending = [trade |-> s, signed |-> FALSE]]
               /\ deal' = [deal EXCEPT ![s] = [size |-> Min({MaxTrade, bot[b].left}), day |-> today]]
               /\ bot' = [bot EXCEPT ![b].doing = "reserving", ![b].intent = [trade |-> s, signed |-> FALSE]]
          ELSE row' = Fresh(row) /\ deal' = deal /\ Rests(b)
  /\ UNCHANGED <<landingVars, fee, decided, today, ran, blind>>

FeesHeld == SumFunctionOnSet(fee, Sends)

(* The transaction is built and signed, then its fee is reserved in one step *)
(* with the cap check; a failed simulation, or no room, ends the check.    *)
Reserve(b) ==
  LET s == bot[b].intent.trade
  IN /\ Doing(b, "reserving")
     /\ IF FeesHeld + FeeEstimate <= FeeCapacity
        THEN /\ SignSend(s)
             /\ fee' = [fee EXCEPT ![s] = FeeEstimate]
             /\ Becomes(b, "signing")
        ELSE /\ Rests(b)
             /\ UNCHANGED <<landingVars, fee>>
     /\ UNCHANGED <<row, deal, decided, today, ran, blind>>

(* The signature joins the journaled intent before the broadcast, which is  *)
(* stopped if the intent was taken away.                                   *)
Sign(b) ==
  LET s == bot[b].intent.trade
  IN /\ Doing(b, "signing")
     /\ IF row.pending.trade = s
        THEN row' = [Fresh(row) EXCEPT !.pending = [trade |-> s, signed |-> TRUE]] /\ Becomes(b, "sending")
        ELSE row' = row /\ Rests(b)
     /\ UNCHANGED <<landingVars, deal, fee, decided, today, ran, blind>>

Send(b) ==
  /\ Doing(b, "sending")
  /\ Broadcast(bot[b].intent.trade)
  /\ Becomes(b, "confirming")
  /\ UNCHANGED <<row, deal, fee, decided, today, ran, blind>>

(* The polling sees it landed; every other end of it is a throw (Stop)      *)
Confirm(b) ==
  /\ Doing(b, "confirming")
  /\ outcome[bot[b].intent.trade] = "ok"
  /\ Becomes(b, "booking")
  /\ OnlyBot

(* A throw anywhere ends the check; a crash, with a restart, does the same *)
Stop(b) == ~Doing(b, "idle") /\ Rests(b) /\ OnlyBot

(***************************************************************************)
(* The fee reconciliation, a person, and the calendar                      *)
(***************************************************************************)

(* Mutation: An expired reservation is released without proof *)
MutReconcileFeeUnproven ==
  /\ \E s \in Sends : \E f \in Fates(s) :
       /\ fee[s] > 0
       /\ \/ f \in {"landed", "failed"} /\ fee' = [fee EXCEPT ![s] = FeePaid]
          \/ f \in {"never-landed", "expired"} /\ fee' = [fee EXCEPT ![s] = 0]
  /\ UNCHANGED <<landingVars, row, deal, decided, bot, today, ran, blind>>

(* The chain's charge replaces the reservation, nothing if it never landed *)
ReconcileFee ==
  /\ \E s \in Sends : \E f \in Fates(s) :
       /\ fee[s] > 0
       /\ \/ f \in {"landed", "failed"} /\ fee' = [fee EXCEPT ![s] = FeePaid]
          \/ f = "never-landed" /\ fee' = [fee EXCEPT ![s] = 0]
  /\ UNCHANGED <<landingVars, row, deal, decided, bot, today, ran, blind>>

(* scripts/resolve-intent.ts: a person who looked it up decides an expired  *)
(* intent the chain does not contradict                                    *)
Decide ==
  LET s == row.pending.trade
  IN /\ row.pending.signed
     /\ Expired(s)
     /\ decided' = [decided EXCEPT ![s] = IF outcome[s] = "ok" THEN "landed" ELSE "dropped"]
     /\ UNCHANGED <<landingVars, row, deal, fee, bot, today, ran, blind>>

NewDay ==
  /\ today < MaxDays
  /\ today' = today + 1
  /\ UNCHANGED <<landingVars, row, deal, fee, decided, bot, ran, blind>>

TradesNext ==
  \/ \E b \in Bots : \/ Look(b) \/ Settle(b) \/ Drop(b) \/ Count(b) \/ Price(b) \/ Claim(b)
                     \/ Reserve(b) \/ Sign(b) \/ Send(b) \/ Confirm(b) \/ Stop(b)
  \/ ReconcileFee
  \/ Decide
  \/ NewDay
  \/ ChainStep /\ UNCHANGED tradesVars

TradesSpec == TradesInit /\ [][TradesNext]_<<landingVars, tradesVars>>

(***************************************************************************)
(* Properties                                                              *)
(***************************************************************************)

TradesSent == {s \in sent : deal[s] # NoDeal}

(* No broadcast trade that landed, or still may, is forgotten: it is counted *)
(* or its intent still waits, unless a bot that read the intent before it   *)
(* was signed dropped it; and none is counted that did not land.           *)
TradesRemembered ==
  \A s \in Sends :
    /\ s \in TradesSent /\ MayCount(s) => s \in row.counted \cup blind \/ row.pending = [trade |-> s, signed |-> TRUE]
    /\ s \in row.counted => outcome[s] = "ok"

(* What this wallet paid, or may yet have to pay, for the transactions it   *)
(* sent stays within the fee cap.                                          *)
FeesWithinCap ==
  FeePaid * Cardinality({s \in TradesSent : outcome[s] # "none" \/ MayLand(s)}) <= FeeCapacity

(* One bot alone never trades more than the day's limit, whatever crashes,  *)
(* times out or lands late, and across midnight.                           *)
AloneWithinDay ==
  Cardinality(ran) <= 1 =>
    \A d \in 0..MaxDays :
      MapThenSumSet(LAMBDA s : deal[s].size, {s \in TradesSent : MayCount(s) /\ deal[s].day = d}) <= MaxDay

(* Both limits on what bots spend hold together: fees keep to the cap, and *)
(* one bot alone to the day's limit.                                       *)
LimitsKept == TradesTypeOK /\ FeesWithinCap /\ AloneWithinDay

(* src/src/send-intent.ts:2-4: a crash or a timed-out confirmation cannot   *)
(* make the bot forget a trade that landed.                                *)
NothingForgotten ==
  \A s \in Sends :
    s \in TradesSent /\ MayCount(s) =>
      \/ s \in row.counted
      \/ row.pending = [trade |-> s, signed |-> TRUE]
      \/ \E b \in Bots : bot[b].intent.trade = s /\ bot[b].doing \in {"confirming", "counting", "booking"}

=============================================================================
