---------------------------- MODULE TradesProofs ----------------------------
(***************************************************************************)
(* Trades for any number of bots, trades, days and blocks: a transaction   *)
(* said never to have landed never will, no trade that landed is forgotten *)
(* but by a bot that looked before it was signed, fees keep to the cap and *)
(* one bot alone to the day's limit.                                       *)
(***************************************************************************)
EXTENDS Trades, FiniteSums, TLAPS

-----------------------------------------------------------------------------
(* What the chain knows.  A transaction that landed did so within the      *)
(* blocks its blockhash allows.                                            *)
ChainTyped ==
  /\ height \in Nat /\ final \in Nat /\ final <= height
  /\ lastValid \in [Sends -> Int] /\ sent \in SUBSET Sends
  /\ outcome \in [Sends -> {"none", "ok", "err"}] /\ at \in [Sends -> Nat]
(* What is signed is dated, and what landed did so in time.                *)
Dated ==
  \A s \in Sends :
    /\ IsSigned(s) => lastValid[s] - Validity \in 0..height
    /\ s \in sent => IsSigned(s)
    /\ outcome[s] # "none" =>
         s \in sent /\ lastValid[s] - Validity <= at[s] /\ at[s] <= lastValid[s]
(* What every module about sending transactions rests on.                  *)
ChainSound == ChainTyped /\ Dated

(* It failed, or can land no more.                                         *)
Dead(s) ==
  \/ outcome[s] = "err"
  \/ outcome[s] = "none" /\ IsSigned(s) /\ height >= lastValid[s]

(* A transaction proved never to have landed is past its last block.       *)
LEMMA ProofIsFinal ==
  ASSUME ChainSound, NEW s \in Sends, NeverLanded(s)
  PROVE  outcome[s] = "none" /\ IsSigned(s) /\ height > lastValid[s]
<1>a. PICK anchor \in 0..final : ProvenAt(s, anchor)
  BY DEF NeverLanded
<1>b. PICK view \in anchor..final :
        \E oldest \in 0..view : ReachesBack(s, oldest) /\ ~Listed(s, oldest, view)
  BY <1>a DEF ProvenAt
<1>c. PICK oldest \in 0..view : ReachesBack(s, oldest) /\ ~Listed(s, oldest, view)
  BY <1>b
<1>1. anchor > lastValid[s] /\ ReachesBack(s, oldest) /\ ~Listed(s, oldest, view)
  BY <1>a, <1>c DEF ProvenAt
<1>2. /\ final \in Nat /\ height \in Nat /\ final <= height /\ lastValid[s] \in Int /\ at[s] \in Nat
      /\ Validity \in Nat \ {0}
  BY LandingAssumption DEF ChainSound, ChainTyped
<1>3. anchor \in Int /\ view \in Int /\ oldest \in Int /\ oldest >= 0 /\ anchor <= view /\ view <= final
  BY <1>1, <1>2
<1>4. oldest <= lastValid[s] - Validity
  BY <1>1 DEF ReachesBack
<1>5. IsSigned(s)
  BY <1>2, <1>3, <1>4 DEF IsSigned, Unsigned
<1>6. outcome[s] = "none"
  <2> SUFFICES ASSUME outcome[s] # "none" PROVE FALSE
    OBVIOUS
  <2>1. lastValid[s] - Validity <= at[s] /\ at[s] <= lastValid[s]
    BY DEF ChainSound, Dated
  <2>2. at[s] \in oldest..view
    BY <1>1, <1>2, <1>3, <1>4, <2>1
  <2> QED
    BY <1>1, <2>2 DEF Listed
<1>7. height > lastValid[s]
  BY <1>1, <1>2, <1>3
<1> QED
  BY <1>5, <1>6, <1>7

(* So it never will land.                                                  *)
LEMMA ProofMeansNever == ChainSound => NeverMeansNever
<1> SUFFICES ASSUME ChainSound, NEW s \in Sends, NeverLanded(s)
             PROVE  outcome[s] = "none" /\ ~MayLand(s)
  BY DEF NeverMeansNever
<1>1. outcome[s] = "none" /\ height > lastValid[s]
  BY ProofIsFinal
<1>2. height \in Int /\ lastValid[s] \in Int
  BY DEF ChainSound, ChainTyped
<1> QED
  BY <1>1, <1>2 DEF MayLand

(* Blocks keep all of this, and what is dead or landed stays so.           *)
LEMMA ChainStepKeeps ==
  ASSUME ChainSound, ChainStep
  PROVE  /\ ChainSound' /\ UNCHANGED <<lastValid, sent>>
         /\ \A s \in Sends : /\ Dead(s) => Dead(s)'
                             /\ outcome[s] = "ok" => outcome'[s] = "ok"
                             /\ MayCount(s)' => MayCount(s)
<1>1. CASE Finalize
  <2>1. UNCHANGED <<height, lastValid, sent, outcome, at>> /\ final' = final + 1 /\ final < height
    BY <1>1 DEF Finalize
  <2> QED
    BY <2>1 DEF ChainSound, ChainTyped, Dated, Dead, MayCount, MayLand, IsSigned
<1>2. CASE Block
  <2>0. PICK landing \in SUBSET {s \in Sends : MayLand(s)} : \E failing \in SUBSET landing :
          /\ outcome' = [s \in Sends |-> IF s \in failing THEN "err"
                                         ELSE IF s \in landing THEN "ok" ELSE outcome[s]]
          /\ at' = [s \in Sends |-> IF s \in landing THEN height + 1 ELSE at[s]]
    BY <1>2 DEF Block
  <2>1. PICK failing \in SUBSET landing :
          /\ outcome' = [s \in Sends |-> IF s \in failing THEN "err"
                                         ELSE IF s \in landing THEN "ok" ELSE outcome[s]]
          /\ at' = [s \in Sends |-> IF s \in landing THEN height + 1 ELSE at[s]]
    BY <2>0
  <2>2. height' = height + 1 /\ UNCHANGED <<final, lastValid, sent>>
    BY <1>2 DEF Block
  <2>3. ChainTyped'
    BY <2>1, <2>2 DEF ChainSound, ChainTyped
  <2>4. ASSUME NEW s \in Sends
        PROVE  /\ s \in landing => s \in sent /\ outcome[s] = "none" /\ height < lastValid[s]
               /\ s \notin landing => outcome'[s] = outcome[s] /\ at'[s] = at[s]
               /\ s \in landing => outcome'[s] \in {"ok", "err"} /\ at'[s] = height + 1
    BY <2>1 DEF MayLand
  <2>5. ASSUME NEW s \in Sends
        PROVE  /\ height \in Nat /\ lastValid[s] \in Int /\ at[s] \in Nat /\ Validity \in Nat \ {0}
               /\ IsSigned(s) => lastValid[s] - Validity >= 0 /\ lastValid[s] - Validity <= height
    BY LandingAssumption DEF ChainSound, ChainTyped, Dated
  <2>6. Dated'
    <3> SUFFICES ASSUME NEW s \in Sends
                 PROVE  /\ IsSigned(s)' => lastValid[s] - Validity \in 0..(height + 1)
                        /\ s \in sent => IsSigned(s)'
                        /\ outcome'[s] # "none" =>
                             s \in sent /\ lastValid[s] - Validity <= at'[s] /\ at'[s] <= lastValid[s]
      BY <2>2 DEF Dated
    <3>1. IsSigned(s)' <=> IsSigned(s)
      BY <2>2 DEF IsSigned
    <3>2. /\ s \in sent => IsSigned(s)
          /\ outcome[s] # "none" =>
               s \in sent /\ lastValid[s] - Validity <= at[s] /\ at[s] <= lastValid[s]
      BY DEF ChainSound, Dated
    <3> QED
      BY <2>4, <2>5, <3>1, <3>2
  <2>7. ASSUME NEW s \in Sends
        PROVE  /\ Dead(s) => Dead(s)'
               /\ outcome[s] = "ok" => outcome'[s] = "ok"
               /\ MayCount(s)' => MayCount(s)
    BY <2>2, <2>4, <2>5 DEF Dead, MayCount, MayLand, IsSigned
  <2> QED
    BY <2>2, <2>3, <2>6, <2>7 DEF ChainSound
<1> QED
  BY <1>1, <1>2 DEF ChainStep

-----------------------------------------------------------------------------
(* What the bots know.  A trade that was signed and may still count is on  *)
(* record: counted, or waiting in the order's slot, or dropped by a bot    *)
(* that looked before it was signed.                                       *)
Doings == {"idle", "settling", "counting", "dropping", "pricing", "claiming", "reserving", "signing",
           "sending", "confirming", "booking"}
(* The types of the bots' records.                                         *)
Intents == [trade : Sends \cup {NoTrade}, signed : BOOLEAN]
(* The variables' types.                                                   *)
Typed ==
  /\ bot \in [Bots -> [doing : Doings, intent : Intents, left : Nat]]
  /\ row \in [pending : Intents, counted : SUBSET Sends, day : Nat, used : Nat]
  /\ deal \in [Sends -> [size : Nat, day : Nat]]
  /\ decided \in [Sends -> {"none", "landed", "dropped"}]
  /\ today \in Nat /\ blind \in SUBSET Sends

(* A trade sent is not forgotten, but by a blind bot.                      *)
Safe(s) == s \in row.counted \/ s \in blind \/ row.pending = [trade |-> s, signed |-> TRUE] \/ Dead(s)

(* The row's intent and trades are what the chain says or may say.         *)
RowSound ==
  /\ row.pending.trade # NoTrade => deal[row.pending.trade] # NoDeal
  /\ row.pending.signed => row.pending.trade # NoTrade /\ IsSigned(row.pending.trade)
  /\ \A s \in row.counted : outcome[s] = "ok"
  /\ \A s \in Sends : /\ decided[s] = "dropped" => Dead(s)
                      /\ decided[s] = "landed" => outcome[s] = "ok"
                      /\ IsSigned(s) => deal[s] # NoDeal
                      /\ s \in sent => Safe(s)

(* A bot's own intent is its alone until it is sent: it is signed once.    *)
Working == {"reserving", "signing", "sending"}
(* What a bot's intent means at each point.                                *)
IntentOK(e) ==
  LET s == e.intent.trade
  IN  /\ e.doing \notin {"idle", "pricing", "claiming"} => s # NoTrade
      /\ s # NoTrade => deal[s] # NoDeal
      /\ e.intent.signed => s # NoTrade /\ IsSigned(s)
      /\ e.doing = "dropping" /\ e.intent.signed => Dead(s)
      /\ e.doing \in {"counting", "booking"} => outcome[s] = "ok"
      /\ e.doing = "reserving" => ~IsSigned(s)
      /\ e.doing \in {"signing", "sending"} => IsSigned(s) /\ s \notin sent
      /\ e.doing = "sending" => Safe(s)
      /\ e.doing = "claiming" => e.left > 0
(* Each bot's is so.                                                       *)
BotsSound == \A b \in Bots : IntentOK(bot[b])
(* No two bots work on one trade.                                          *)
Alone ==
  \A b, c \in Bots :
    /\ bot[b].doing \in Working /\ bot[c].doing \in Working
    /\ bot[b].intent.trade = bot[c].intent.trade
    => b = c

(* The inductive invariant.                                                *)
IInv == ChainSound /\ Typed /\ RowSound /\ BotsSound /\ Alone

(* The invariant says what the run checks.                                 *)
LEMMA RememberedHolds == IInv => TradesRemembered
<1> SUFFICES ASSUME IInv, NEW s \in Sends
             PROVE  /\ s \in TradesSent /\ MayCount(s) =>
                         s \in row.counted \cup blind \/ row.pending = [trade |-> s, signed |-> TRUE]
                    /\ s \in row.counted => outcome[s] = "ok"
  BY DEF TradesRemembered
<1>1. s \in row.counted => outcome[s] = "ok"
  BY DEF IInv, RowSound
<1>2. s \in sent => Safe(s)
  BY DEF IInv, RowSound
<1>3. Dead(s) => ~MayCount(s)
  BY DEF IInv, ChainSound, ChainTyped, Dead, MayCount, MayLand
<1> QED
  BY <1>1, <1>2, <1>3 DEF TradesSent, Safe

(* It holds at first.                                                      *)
LEMMA TradesInitIInv == TradesInit => IInv
<1> SUFFICES ASSUME TradesInit PROVE IInv
  OBVIOUS
<1> USE TradesAssumption, LandingAssumption DEF TradesInit, LandingInit
<1>1. ChainSound
  BY DEF ChainSound, ChainTyped, Dated, IsSigned, Unsigned
<1>2. Typed
  BY DEF Typed, Doings, Intents, Resting, NoPending, NoDeal
<1>3. RowSound
  BY DEF RowSound, NoPending, IsSigned, Unsigned
<1>4. BotsSound /\ Alone
  BY DEF BotsSound, IntentOK, Alone, Working, Resting, NoPending
<1> QED
  BY <1>1, <1>2, <1>3, <1>4 DEF IInv

-----------------------------------------------------------------------------
(* What is known of a trade only grows.                                    *)
Onward(s) ==
  /\ deal[s] # NoDeal => deal'[s] # NoDeal
  /\ IsSigned(s) => IsSigned(s)'
  /\ Dead(s) => Dead(s)'
  /\ outcome[s] = "ok" => outcome'[s] = "ok"
  /\ Safe(s) => Safe(s)'

(* What a step elsewhere leaves of a bot's intent.                         *)
LEMMA IntentStays ==
  ASSUME Typed, NEW c \in Bots, IntentOK(bot[c]), bot'[c] = bot[c],
         \A s \in Sends : Onward(s),
         bot[c].doing = "reserving" => UNCHANGED lastValid[bot[c].intent.trade],
         bot[c].doing \in {"signing", "sending"} =>
           (bot[c].intent.trade \in sent' => bot[c].intent.trade \in sent)
  PROVE  IntentOK(bot[c])'
<1> DEFINE e == bot[c]  s == bot[c].intent.trade
<1>1. s \in Sends \cup {NoTrade} /\ e.doing \in Doings
  BY DEF Typed, Intents
<1>2. e' = e
  OBVIOUS
<1>3. s = NoTrade \/ (s \in Sends /\ Onward(s))
  BY <1>1
<1>4. /\ e.doing \notin {"idle", "pricing", "claiming"} => s # NoTrade
      /\ s # NoTrade => deal[s] # NoDeal
      /\ e.intent.signed => s # NoTrade /\ IsSigned(s)
      /\ e.doing = "dropping" /\ e.intent.signed => Dead(s)
      /\ e.doing \in {"counting", "booking"} => outcome[s] = "ok"
      /\ e.doing = "reserving" => ~IsSigned(s)
      /\ e.doing \in {"signing", "sending"} => IsSigned(s) /\ s \notin sent
      /\ e.doing = "sending" => Safe(s)
      /\ e.doing = "claiming" => e.left > 0
  BY DEF IntentOK
<1>5. e.doing = "reserving" => (IsSigned(s)' <=> IsSigned(s))
  BY DEF IsSigned
<1>6. /\ e.doing \notin {"idle", "pricing", "claiming"} => s # NoTrade
      /\ s # NoTrade => deal'[s] # NoDeal
      /\ e.intent.signed => s # NoTrade /\ IsSigned(s)'
      /\ e.doing = "dropping" /\ e.intent.signed => Dead(s)'
      /\ e.doing \in {"counting", "booking"} => outcome'[s] = "ok"
      /\ e.doing = "reserving" => ~IsSigned(s)'
      /\ e.doing \in {"signing", "sending"} => IsSigned(s)' /\ s \notin sent'
      /\ e.doing = "sending" => Safe(s)'
      /\ e.doing = "claiming" => e.left > 0
  BY <1>1, <1>3, <1>4, <1>5 DEF Onward
<1> QED
  BY <1>2, <1>6 DEF IntentOK

(* A step of one bot leaves the others'.                                   *)
LEMMA OneBotMoves ==
  ASSUME IInv, NEW b \in Bots,
         \A c \in Bots : c # b => bot'[c] = bot[c],
         \A s \in Sends : Onward(s),
         \A c \in Bots : c # b /\ bot[c].doing \in Working =>
             /\ UNCHANGED lastValid[bot[c].intent.trade]
             /\ bot[c].intent.trade \in sent' => bot[c].intent.trade \in sent,
         IntentOK(bot[b])',
         bot'[b].doing \in Working =>
             \/ bot[b].doing \in Working /\ bot[b].intent.trade = bot'[b].intent.trade
             \/ \A c \in Bots : bot[c].intent.trade # bot'[b].intent.trade
  PROVE  BotsSound' /\ Alone'
<1>1. ASSUME NEW c \in Bots, c # b PROVE IntentOK(bot[c])'
  <2>1. Typed /\ IntentOK(bot[c]) /\ bot'[c] = bot[c]
    BY <1>1 DEF IInv, BotsSound
  <2>2. bot[c].doing = "reserving" => UNCHANGED lastValid[bot[c].intent.trade]
    BY <1>1 DEF Working
  <2>3. bot[c].doing \in {"signing", "sending"} =>
          (bot[c].intent.trade \in sent' => bot[c].intent.trade \in sent)
    BY <1>1 DEF Working
  <2> QED
    BY <2>1, <2>2, <2>3, IntentStays
<1>2. BotsSound'
  BY <1>1 DEF BotsSound
<1>3. Alone'
  BY DEF IInv, Alone
<1> QED
  BY <1>2, <1>3

(* A step of none leaves all.                                              *)
LEMMA NoBotMoves ==
  ASSUME IInv, UNCHANGED <<bot, lastValid, sent>>, \A s \in Sends : Onward(s)
  PROVE  BotsSound' /\ Alone'
<1>1. ASSUME NEW c \in Bots PROVE IntentOK(bot[c])'
  BY <1>1, IntentStays DEF IInv, BotsSound
<1>2. BotsSound' /\ Alone'
  BY <1>1 DEF BotsSound, IInv, Alone
<1> QED
  BY <1>2

(* A bot's steps that change nothing but what it is doing.                 *)
LEMMA QuietSound ==
  ASSUME ChainSound, RowSound, UNCHANGED <<landingVars, row, deal, decided, blind>>
  PROVE  ChainSound' /\ RowSound' /\ \A s \in Sends : Onward(s)
<1>1. \A s \in Sends : /\ IsSigned(s)' <=> IsSigned(s)
                       /\ Dead(s)' <=> Dead(s)
                       /\ Safe(s)' <=> Safe(s)
  BY DEF IsSigned, Dead, Safe, landingVars
<1>2. ChainSound'
  BY DEF ChainSound, ChainTyped, Dated, IsSigned, landingVars
<1>3. RowSound'
  BY <1>1 DEF RowSound, IsSigned, landingVars
<1>4. \A s \in Sends : Onward(s)
  BY <1>1 DEF Onward, landingVars
<1> QED
  BY <1>2, <1>3, <1>4

(* Each step keeps the invariant: those that only move a bot along,        *)
LEMMA QuietBotKeeps ==
  ASSUME IInv, NEW b \in Bots,
         Look(b) \/ Settle(b) \/ Price(b) \/ Confirm(b) \/ Stop(b)
  PROVE  IInv'
<1>1. Typed /\ ChainSound /\ RowSound /\ IntentOK(bot[b])
  BY DEF IInv, BotsSound
<1>2. UNCHANGED <<landingVars, row, deal, decided, today, blind>>
  BY DEF Look, Settle, Price, Confirm, Stop, OnlyBot
<1>3. ChainSound' /\ RowSound' /\ \A s \in Sends : Onward(s)
  BY <1>1, <1>2, QuietSound
<1>4. PICK e \in [doing : Doings, intent : Intents, left : Nat] :
        /\ bot' = [bot EXCEPT ![b] = e] /\ e.doing \notin Working
        /\ \/ e.doing \in {"idle", "pricing", "claiming"} /\ e.intent \in {bot[b].intent, NoPending}
              /\ (e.doing = "claiming" => e.left > 0)
           \/ e.doing \in {"pricing", "settling"} /\ e.intent = row.pending
              /\ (e.doing = "settling" => row.pending # NoPending)
           \/ e.doing = "counting" /\ e.intent = bot[b].intent /\ Settle(b)
                /\ "landed" \in Verdicts(bot[b].intent) /\ bot[b].doing = "settling"
           \/ e.doing = "dropping" /\ e.intent = bot[b].intent
                /\ "dropped" \in Verdicts(bot[b].intent) /\ bot[b].doing = "settling"
           \/ e.doing = "booking" /\ e.intent = bot[b].intent
                /\ bot[b].doing = "confirming" /\ outcome[bot[b].intent.trade] = "ok"
  <2> DEFINE Becoming(what) == [bot[b] EXCEPT !.doing = what]
  <2>1. /\ bot[b] \in [doing : Doings, intent : Intents, left : Nat]
        /\ row.pending \in Intents /\ row.used \in Nat /\ MaxDay \in Nat
    BY <1>1, TradesAssumption DEF Typed
  <2>2. Resting \in [doing : Doings, intent : Intents, left : Nat] /\ Resting.doing = "idle" /\ Resting.intent = NoPending
    BY TradesAssumption DEF Resting, NoPending, Doings, Intents
  <2>3. CASE Look(b)
    <3> DEFINE what == IF row.pending = NoPending THEN "pricing" ELSE "settling"
               e == [Resting EXCEPT !.doing = what, !.intent = row.pending]
    <3>1. bot' = [bot EXCEPT ![b] = e]
      BY <2>3 DEF Look
    <3>2. e \in [doing : Doings, intent : Intents, left : Nat] /\ e.doing = what /\ e.intent = row.pending
      BY <2>1, <2>2 DEF Doings
    <3>3. what \in {"pricing", "settling"} /\ (what = "settling" => row.pending # NoPending)
      OBVIOUS
    <3> HIDE DEF e, what
    <3> QED
      BY <3>1, <3>2, <3>3 DEF Working
  <2>4. CASE Settle(b)
    <3>1. \/ \E what \in {"counting", "dropping"} :
                /\ bot' = [bot EXCEPT ![b] = Becoming(what)]
                /\ what = "counting" => "landed" \in Verdicts(bot[b].intent)
                /\ what = "dropping" => "dropped" \in Verdicts(bot[b].intent)
          \/ bot' = [bot EXCEPT ![b] = Resting]
      BY <1>1, <2>1, <2>4 DEF Settle, Becomes, Rests, Typed
    <3>2. bot[b].doing = "settling"
      BY <2>4 DEF Settle, Doing
    <3>3. CASE bot' = [bot EXCEPT ![b] = Resting]
      BY <2>2, <3>3 DEF Working
    <3>4. CASE bot' = [bot EXCEPT ![b] = Becoming("counting")] /\ "landed" \in Verdicts(bot[b].intent)
      <4>1. Becoming("counting") \in [doing : Doings, intent : Intents, left : Nat]
            /\ Becoming("counting").doing = "counting" /\ Becoming("counting").intent = bot[b].intent
        BY <2>1 DEF Doings
      <4> HIDE DEF Becoming
      <4> QED
        BY <2>4, <3>2, <3>4, <4>1 DEF Working
    <3>5. CASE bot' = [bot EXCEPT ![b] = Becoming("dropping")] /\ "dropped" \in Verdicts(bot[b].intent)
      <4>1. Becoming("dropping") \in [doing : Doings, intent : Intents, left : Nat]
            /\ Becoming("dropping").doing = "dropping" /\ Becoming("dropping").intent = bot[b].intent
        BY <2>1 DEF Doings
      <4> HIDE DEF Becoming
      <4> QED
        BY <2>4, <3>2, <3>5, <4>1 DEF Working
    <3> QED
      BY <3>1, <3>3, <3>4, <3>5
  <2>5. CASE Price(b)
    <3> DEFINE e == [bot[b] EXCEPT !.doing = "claiming", !.left = Left]
    <3>1. CASE Left > 0
      <4>1. Left \in Nat
        BY <2>1, <3>1 DEF Left
      <4>2. bot' = [bot EXCEPT ![b] = e]
        BY <1>1, <2>1, <2>5, <3>1 DEF Price, Typed
      <4>3. e \in [doing : Doings, intent : Intents, left : Nat] /\ e.doing = "claiming" /\ e.intent = bot[b].intent
        BY <2>1, <4>1 DEF Doings
      <4>4. e.left > 0
        BY <2>1, <3>1
      <4> HIDE DEF e
      <4> QED
        BY <4>2, <4>3, <4>4 DEF Working
    <3>2. CASE ~(Left > 0)
      BY <2>2, <2>5, <3>2 DEF Price, Rests, Working
    <3> QED
      BY <3>1, <3>2
  <2>6. CASE Confirm(b)
    <3>1. bot' = [bot EXCEPT ![b] = Becoming("booking")] /\ bot[b].doing = "confirming"
          /\ outcome[bot[b].intent.trade] = "ok"
      BY <1>1, <2>1, <2>6 DEF Confirm, Becomes, Doing, Typed
    <3>2. Becoming("booking") \in [doing : Doings, intent : Intents, left : Nat]
          /\ Becoming("booking").doing = "booking" /\ Becoming("booking").intent = bot[b].intent
      BY <2>1 DEF Doings
    <3> HIDE DEF Becoming
    <3> QED
      BY <3>1, <3>2 DEF Working
  <2>7. CASE Stop(b)
    BY <2>2, <2>7 DEF Stop, Rests, Working
  <2> QED
    BY <2>3, <2>4, <2>5, <2>6, <2>7
<1>5. Typed' /\ bot'[b] = e /\ \A c \in Bots : c # b => bot'[c] = bot[c]
  BY <1>1, <1>2, <1>4 DEF Typed
<1>6. IntentOK(bot[b])'
  <2> DEFINE s == e.intent.trade
  <2>1. /\ bot[b].intent \in Intents /\ row.pending \in Intents
        /\ IntentOK(bot[b]) /\ NoPending.trade = NoTrade /\ ~NoPending.signed
    BY <1>1 DEF Typed, NoPending
  <2>2. /\ e.doing \notin {"idle", "pricing", "claiming"} => s # NoTrade
        /\ s # NoTrade => deal[s] # NoDeal
        /\ e.intent.signed => s # NoTrade /\ IsSigned(s)
    <3>1. /\ bot[b].intent.trade # NoTrade => deal[bot[b].intent.trade] # NoDeal
          /\ bot[b].intent.signed => bot[b].intent.trade # NoTrade /\ IsSigned(bot[b].intent.trade)
          /\ bot[b].doing \in {"settling", "confirming"} => bot[b].intent.trade # NoTrade
      BY <2>1 DEF IntentOK
    <3>2. /\ row.pending.trade # NoTrade => deal[row.pending.trade] # NoDeal
          /\ row.pending.signed => row.pending.trade # NoTrade /\ IsSigned(row.pending.trade)
      BY <1>1 DEF RowSound
    <3>3. row.pending # NoPending => row.pending.trade # NoTrade
      <4> SUFFICES ASSUME row.pending.trade = NoTrade PROVE row.pending = NoPending
        OBVIOUS
      <4>1. ~row.pending.signed
        BY <3>2
      <4> QED
        BY <2>1, <4>1 DEF Intents, NoPending
    <3> QED
      BY <1>4, <2>1, <3>1, <3>2, <3>3
  <2>3. e.doing = "dropping" /\ e.intent.signed => Dead(s)
    <3> SUFFICES ASSUME e.doing = "dropping", bot[b].intent.signed, e.intent = bot[b].intent,
                        "dropped" \in Verdicts(bot[b].intent)
                 PROVE  Dead(s)
      BY <1>4
    <3>1. s \in Sends
      BY <2>1, <2>2 DEF Intents
    <3>2. "failed" \in Fates(s) \/ "never-landed" \in Fates(s) \/ decided[s] = "dropped"
      BY DEF Verdicts
    <3>3. CASE "failed" \in Fates(s)
      BY <3>3 DEF Fates, Dead
    <3>4. CASE "never-landed" \in Fates(s)
      <4>1. NeverLanded(s)
        BY <3>4 DEF Fates
      <4>2. outcome[s] = "none" /\ IsSigned(s) /\ height > lastValid[s]
        BY <1>1, <3>1, <4>1, ProofIsFinal
      <4> QED
        BY <1>1, <3>1, <4>2 DEF Dead, ChainSound, ChainTyped
    <3>5. CASE decided[s] = "dropped"
      BY <1>1, <3>1, <3>5 DEF RowSound
    <3> QED
      BY <3>2, <3>3, <3>4, <3>5
  <2>4. e.doing \in {"counting", "booking"} => outcome[s] = "ok"
    <3>1. CASE e.doing = "booking"
      BY <1>4, <3>1
    <3>2. CASE e.doing = "counting"
      <4>1. "landed" \in Verdicts(bot[b].intent) /\ e.intent = bot[b].intent /\ bot[b].doing = "settling"
        BY <1>4, <3>2
      <4>2. s \in Sends
        BY <2>1, <2>2, <3>2, <4>1 DEF Intents
      <4>3. "landed" \in Fates(s) \/ decided[s] = "landed"
        BY <4>1 DEF Verdicts
      <4> QED
        BY <1>1, <4>2, <4>3 DEF Fates, RowSound
    <3> QED
      BY <3>1, <3>2
  <2>5. e.doing \notin {"reserving", "signing", "sending"}
    BY <1>4 DEF Working
  <2>a. e.doing = "claiming" => e.left > 0
    BY <1>4
  <2>6. \A x \in Sends : (Dead(x)' <=> Dead(x)) /\ (IsSigned(x)' <=> IsSigned(x))
    BY <1>2 DEF Dead, IsSigned, landingVars
  <2>7. s \in Sends \cup {NoTrade}
    BY DEF Intents
  <2>8. outcome' = outcome /\ deal' = deal
    BY <1>2 DEF landingVars
  <2> QED
    BY <1>5, <2>2, <2>3, <2>4, <2>5, <2>6, <2>7, <2>8, <2>a DEF IntentOK
<1>7. BotsSound' /\ Alone'
  <2>1. UNCHANGED <<lastValid, sent>>
    BY <1>2 DEF landingVars
  <2> QED
    BY <1>3, <1>4, <1>5, <1>6, <2>1, OneBotMoves
<1> QED
  BY <1>3, <1>5, <1>7 DEF IInv

-----------------------------------------------------------------------------
(* Steps that change the order's row, or the chain.                        *)
Rows == [pending : Intents, counted : SUBSET Sends, day : Nat, used : Nat]

(* (a new day's row keeps its trades)                                      *)
LEMMA FreshKeeps ==
  ASSUME Typed
  PROVE  Fresh(row) \in Rows /\ Fresh(row).pending = row.pending /\ Fresh(row).counted = row.counted
<1>1. row \in Rows /\ today \in Nat
  BY DEF Typed, Rows
<1> QED
  BY <1>1 DEF Fresh, Rows

(* The row changes, and every trade on record stays on record.             *)
LEMMA RowKeeps ==
  ASSUME ChainSound, RowSound, UNCHANGED <<landingVars, deal, decided>>,
         \A s \in Sends : Safe(s) => Safe(s)',
         row'.pending.trade # NoTrade => deal[row'.pending.trade] # NoDeal,
         row'.pending.signed => row'.pending.trade # NoTrade /\ IsSigned(row'.pending.trade),
         \A s \in row'.counted : outcome[s] = "ok"
  PROVE  ChainSound' /\ RowSound' /\ \A s \in Sends : Onward(s)
<1>1. \A s \in Sends : (IsSigned(s)' <=> IsSigned(s)) /\ (Dead(s)' <=> Dead(s))
  BY DEF IsSigned, Dead, landingVars
<1>2. ChainSound'
  BY DEF ChainSound, ChainTyped, Dated, IsSigned, landingVars
<1>3. \A s \in Sends : Onward(s)
  BY <1>1 DEF Onward, landingVars
<1>4. RowSound'
  <2>1. UNCHANGED <<outcome, sent, deal, decided, lastValid>>
    BY DEF landingVars
  <2>2. row'.pending.signed => row'.pending.trade # NoTrade /\ lastValid'[row'.pending.trade] # Unsigned
    BY <2>1 DEF IsSigned
  <2>3. \A s \in Sends : /\ decided'[s] = "dropped" => Dead(s)'
                         /\ decided'[s] = "landed" => outcome'[s] = "ok"
                         /\ IsSigned(s)' => deal'[s] # NoDeal
                         /\ s \in sent' => Safe(s)'
    BY <1>1, <2>1 DEF RowSound
  <2> QED
    BY <2>1, <2>2, <2>3 DEF RowSound, IsSigned
<1> QED
  BY <1>2, <1>3, <1>4

(* a trade dropped,                                                        *)
LEMMA DropKeeps ==
  ASSUME IInv, NEW b \in Bots, Drop(b) PROVE IInv'
<1> DEFINE i == bot[b].intent  s == bot[b].intent.trade
<1>1. Typed /\ ChainSound /\ RowSound /\ IntentOK(bot[b])
  BY DEF IInv, BotsSound
<1>2. /\ bot[b].doing = "dropping"
      /\ row' = IF IsThis(row, i) THEN [Fresh(row) EXCEPT !.pending = NoPending] ELSE Fresh(row)
      /\ blind' = IF IsThis(row, i) /\ row.pending # i THEN blind \cup {s} ELSE blind
      /\ bot' = [bot EXCEPT ![b].doing = "pricing"]
      /\ UNCHANGED <<landingVars, deal, fee, decided, today, ran>>
  BY DEF Drop, Doing, Becomes
<1>3. Fresh(row) \in Rows /\ Fresh(row).pending = row.pending /\ Fresh(row).counted = row.counted
  BY <1>1, FreshKeeps
<1>4. /\ NoPending \in Intents /\ NoPending.trade = NoTrade /\ NoPending.signed = FALSE
      /\ row.pending \in Intents /\ i \in Intents /\ s \in Sends
      /\ bot[b] \in [doing : Doings, intent : Intents, left : Nat]
  <2>1. i \in Intents /\ bot[b] \in [doing : Doings, intent : Intents, left : Nat] /\ row.pending \in Intents
    BY <1>1 DEF Typed
  <2>2. s # NoTrade
    BY <1>1, <1>2 DEF IntentOK
  <2> QED
    BY <2>1, <2>2 DEF NoPending, Intents
<1>5. /\ row' \in Rows /\ row'.counted = row.counted
      /\ row'.pending = IF IsThis(row, i) THEN NoPending ELSE row.pending
  <2>1. CASE IsThis(row, i)
    BY <1>2, <1>3, <1>4, <2>1 DEF Rows
  <2>2. CASE ~IsThis(row, i)
    BY <1>2, <1>3, <2>2
  <2> QED
    BY <2>1, <2>2
<1>6. Typed'
  <2>1. bot' \in [Bots -> [doing : Doings, intent : Intents, left : Nat]] /\ blind' \in SUBSET Sends
    BY <1>1, <1>2, <1>4 DEF Typed, Doings
  <2> QED
    BY <1>1, <1>2, <1>5, <2>1 DEF Typed, Rows
<1>7. ASSUME NEW t \in Sends, Safe(t) PROVE Safe(t)'
  <2>1. Dead(t)' <=> Dead(t)
    BY <1>2 DEF Dead, IsSigned, landingVars
  <2>2. t \in row.counted \/ t \in blind \/ Dead(t) \/ row.pending = [trade |-> t, signed |-> TRUE]
    BY <1>7 DEF Safe
  <2>3. CASE t \in row.counted \/ t \in blind \/ Dead(t)
    BY <1>2, <1>5, <2>1, <2>3 DEF Safe
  <2>4. CASE row.pending = [trade |-> t, signed |-> TRUE]
    <3>1. CASE ~IsThis(row, i)
      BY <1>5, <2>4, <3>1 DEF Safe
    <3>2. CASE IsThis(row, i) /\ i.signed
      <4>1. t = s
        BY <2>4, <3>2 DEF IsThis
      <4>2. Dead(s)
        BY <1>1, <1>2, <3>2 DEF IntentOK
      <4> QED
        BY <2>1, <4>1, <4>2 DEF Safe
    <3>3. CASE IsThis(row, i) /\ ~i.signed
      <4>1. t = s /\ row.pending # i
        BY <2>4, <3>3 DEF IsThis
      <4> QED
        BY <1>2, <3>3, <4>1 DEF Safe
    <3> QED
      BY <3>1, <3>2, <3>3
  <2> QED
    BY <2>2, <2>3, <2>4
<1>8. ChainSound' /\ RowSound' /\ \A t \in Sends : Onward(t)
  <2>1. row'.pending = NoPending \/ row'.pending = row.pending
    BY <1>5
  <2>2. /\ row'.pending.trade # NoTrade => deal[row'.pending.trade] # NoDeal
        /\ row'.pending.signed => row'.pending.trade # NoTrade /\ IsSigned(row'.pending.trade)
        /\ \A t \in row'.counted : outcome[t] = "ok"
    BY <1>1, <1>4, <1>5, <2>1 DEF RowSound
  <2> QED
    BY <1>1, <1>2, <1>7, <2>2, RowKeeps
<1>9. bot'[b].doing = "pricing" /\ bot'[b].intent = i /\ \A c \in Bots : c # b => bot'[c] = bot[c]
  BY <1>1, <1>2, <1>4 DEF Typed
<1>10. IntentOK(bot[b])'
  <2>1. deal' = deal /\ \A x \in Sends : IsSigned(x)' <=> IsSigned(x)
    BY <1>2 DEF IsSigned, landingVars
  <2>2. deal[s] # NoDeal /\ (i.signed => IsSigned(s))
    BY <1>1, <1>2, <1>4 DEF IntentOK
  <2>3. s # NoTrade
    BY <1>4, TradesAssumption
  <2> QED
    BY <1>4, <1>9, <2>1, <2>2, <2>3 DEF IntentOK
<1>11. BotsSound' /\ Alone'
  <2>1. UNCHANGED <<lastValid, sent>>
    BY <1>2 DEF landingVars
  <2> QED
    BY <1>8, <1>9, <1>10, <2>1, OneBotMoves DEF Working
<1> QED
  BY <1>6, <1>8, <1>11 DEF IInv

(* counted,                                                                *)
LEMMA CountKeeps ==
  ASSUME IInv, NEW b \in Bots, Count(b) PROVE IInv'
<1> DEFINE s == bot[b].intent.trade
<1>1. Typed /\ ChainSound /\ RowSound /\ IntentOK(bot[b])
  BY DEF IInv, BotsSound
<1>2. /\ bot[b].doing \in {"counting", "booking"}
      /\ row' = Counted(row, s)
      /\ UNCHANGED <<landingVars, deal, fee, decided, today, ran, blind>>
  BY DEF Count, Doing
<1>3. Fresh(row) \in Rows /\ Fresh(row).pending = row.pending /\ Fresh(row).counted = row.counted
  BY <1>1, FreshKeeps
<1>4. /\ NoPending \in Intents /\ NoPending.trade = NoTrade /\ NoPending.signed = FALSE
      /\ s \in Sends /\ outcome[s] = "ok" /\ deal[s].size \in Nat
      /\ bot[b] \in [doing : Doings, intent : Intents, left : Nat]
  <2>1. bot[b] \in [doing : Doings, intent : Intents, left : Nat]
    BY <1>1 DEF Typed
  <2>2. s # NoTrade /\ outcome[s] = "ok"
    BY <1>1, <1>2 DEF IntentOK
  <2>3. s \in Sends
    BY <2>1, <2>2 DEF Intents
  <2> QED
    BY <1>1, <2>1, <2>2, <2>3 DEF NoPending, Intents, Typed
<1>5. /\ row' \in Rows /\ row'.counted = row.counted \cup {s}
      /\ row'.pending = IF row.pending.trade = s THEN NoPending ELSE row.pending
  <2> DEFINE f == Fresh(row)
             used == IF deal[s].day = f.day THEN f.used + deal[s].size ELSE f.used
             tally == IF s \in f.counted THEN f ELSE [f EXCEPT !.counted = @ \cup {s}, !.used = used]
  <2>1. f \in Rows /\ f.pending = row.pending /\ f.counted = row.counted
    BY <1>3
  <2>2. row' = IF f.pending.trade = s THEN [tally EXCEPT !.pending = NoPending] ELSE tally
    BY <1>2, <2>1 DEF Counted, Rows
  <2> HIDE DEF f
  <2>3. used \in Nat
    BY <1>4, <2>1 DEF Rows
  <2> HIDE DEF used
  <2>4. tally \in Rows /\ tally.counted = row.counted \cup {s} /\ tally.pending = row.pending
    <3>1. CASE s \in f.counted
      BY <2>1, <3>1
    <3>2. CASE s \notin f.counted
      BY <1>4, <2>1, <2>3, <3>2 DEF Rows
    <3> QED
      BY <3>1, <3>2
  <2> HIDE DEF tally
  <2> QED
    BY <1>4, <2>1, <2>2, <2>4 DEF Rows
<1>6. PICK e \in [doing : Doings, intent : Intents, left : Nat] :
        /\ bot' = [bot EXCEPT ![b] = e] /\ e.doing \in {"pricing", "idle"}
        /\ e.intent \in {bot[b].intent, NoPending}
  <2>1. CASE bot[b].doing = "counting"
    <3> DEFINE e == [bot[b] EXCEPT !.doing = "pricing"]
    <3>1. bot' = [bot EXCEPT ![b] = e]
      BY <1>1, <2>1 DEF Count, Doing, Becomes, Typed
    <3>2. e \in [doing : Doings, intent : Intents, left : Nat] /\ e.doing = "pricing" /\ e.intent = bot[b].intent
      BY <1>4 DEF Doings
    <3> HIDE DEF e
    <3> QED
      BY <3>1, <3>2
  <2>2. CASE bot[b].doing = "booking"
    <3>1. bot' = [bot EXCEPT ![b] = Resting]
      BY <2>2 DEF Count, Doing, Rests
    <3>2. Resting \in [doing : Doings, intent : Intents, left : Nat] /\ Resting.doing = "idle" /\ Resting.intent = NoPending
      BY <1>4 DEF Resting, Doings
    <3> QED
      BY <3>1, <3>2
  <2> QED
    BY <1>2, <2>1, <2>2
<1>7. bot'[b] = e /\ Typed' /\ \A c \in Bots : c # b => bot'[c] = bot[c]
  BY <1>1, <1>2, <1>5, <1>6 DEF Typed, Rows
<1>8. ASSUME NEW t \in Sends, Safe(t) PROVE Safe(t)'
  <2>1. Dead(t)' <=> Dead(t)
    BY <1>2 DEF Dead, IsSigned, landingVars
  <2> QED
    BY <1>2, <1>5, <1>8, <2>1 DEF Safe
<1>9. ChainSound' /\ RowSound' /\ \A t \in Sends : Onward(t)
  <2>1. /\ row'.pending.trade # NoTrade => deal[row'.pending.trade] # NoDeal
        /\ row'.pending.signed => row'.pending.trade # NoTrade /\ IsSigned(row'.pending.trade)
        /\ \A t \in row'.counted : outcome[t] = "ok"
    BY <1>1, <1>4, <1>5 DEF RowSound
  <2> QED
    BY <1>1, <1>2, <1>8, <2>1, RowKeeps
<1>10. IntentOK(bot[b])'
  <2>1. deal' = deal /\ \A x \in Sends : IsSigned(x)' <=> IsSigned(x)
    BY <1>2 DEF IsSigned, landingVars
  <2>2. deal[s] # NoDeal /\ (bot[b].intent.signed => IsSigned(s))
    BY <1>1, <1>2, <1>4 DEF IntentOK
  <2>3. /\ e.intent.trade # NoTrade => deal[e.intent.trade] # NoDeal
        /\ e.intent.signed => e.intent.trade # NoTrade /\ IsSigned(e.intent.trade)
    BY <1>4, <1>6, <2>2, TradesAssumption DEF Intents
  <2>4. e.intent.trade \in Sends \cup {NoTrade}
    BY DEF Intents
  <2> QED
    BY <1>6, <1>7, <2>1, <2>3, <2>4 DEF IntentOK
<1>11. BotsSound' /\ Alone'
  <2>1. UNCHANGED <<lastValid, sent>>
    BY <1>2 DEF landingVars
  <2> QED
    BY <1>6, <1>7, <1>9, <1>10, <2>1, OneBotMoves DEF Working
<1> QED
  BY <1>7, <1>9, <1>11 DEF IInv

(* A bot that gives up; the row it leaves may have lost yesterday's count.  *)
LEMMA RestKeeps ==
  ASSUME IInv, NEW b \in Bots, Rests(b), UNCHANGED <<landingVars, deal, decided, today, blind>>,
         row' \in {row, Fresh(row)}
  PROVE  IInv'
<1>1. Typed /\ ChainSound /\ RowSound
  BY DEF IInv
<1>2. /\ NoPending \in Intents /\ Resting \in [doing : Doings, intent : Intents, left : Nat]
      /\ Resting.doing = "idle" /\ Resting.intent = NoPending
      /\ NoPending.trade = NoTrade /\ NoPending.signed = FALSE
  BY DEF NoPending, Resting, Intents, Doings
<1>3. row' \in Rows /\ row'.pending = row.pending /\ row'.counted = row.counted
  BY <1>1, FreshKeeps DEF Typed, Rows
<1>4. bot'[b] = Resting /\ \A c \in Bots : c # b => bot'[c] = bot[c]
  BY <1>1 DEF Rests, Typed
<1>5. Typed'
  BY <1>1, <1>2, <1>3 DEF Typed, Rests, Rows
<1>6. ASSUME NEW s \in Sends, Safe(s) PROVE Safe(s)'
  BY <1>3, <1>6 DEF Safe, Dead, IsSigned, landingVars
<1>7. ChainSound' /\ RowSound' /\ \A s \in Sends : Onward(s)
  <2>1. /\ row'.pending.trade # NoTrade => deal[row'.pending.trade] # NoDeal
        /\ row'.pending.signed => row'.pending.trade # NoTrade /\ IsSigned(row'.pending.trade)
        /\ \A s \in row'.counted : outcome[s] = "ok"
    BY <1>1, <1>3 DEF RowSound
  <2> QED
    BY <1>1, <1>6, <2>1, RowKeeps
<1>8. IntentOK(bot[b])'
  BY <1>2, <1>4 DEF IntentOK
<1>9. BotsSound' /\ Alone'
  <2>1. UNCHANGED <<lastValid, sent>>
    BY DEF landingVars
  <2> QED
    BY <1>2, <1>4, <1>7, <1>8, <2>1, OneBotMoves DEF Working
<1> QED
  BY <1>5, <1>7, <1>9 DEF IInv

(* (a trade not yet used)                                                  *)
LEMMA NextIsOne == ASSUME NEW S, NEW s \in NextOf(S) PROVE s \in S
BY DEF NextOf

(* (the lesser of two is one of them)                                      *)
LEMMA LesserOfTwo == ASSUME NEW x \in Nat, NEW y \in Nat PROVE Min({x, y}) \in {x, y}
<1>1. \E m \in {x, y} : \A n \in {x, y} : m <= n
  <2>1. CASE x <= y
    BY <2>1
  <2>2. CASE y <= x
    BY <2>2
  <2> QED
    BY <2>1, <2>2
<1> QED
  BY <1>1 DEF Min

(* claimed,                                                                *)
LEMMA ClaimKeeps ==
  ASSUME IInv, NEW b \in Bots, Claim(b) PROVE IInv'
<1>1. Typed /\ ChainSound /\ RowSound /\ IntentOK(bot[b]) /\ bot[b].doing = "claiming"
  BY DEF IInv, BotsSound, Claim, Doing
<1>2. UNCHANGED <<landingVars, fee, decided, today, ran, blind>>
  BY DEF Claim
<1>3. PICK s \in NextOf({unused \in Sends : deal[unused] = NoDeal}) :
        IF row.pending.trade = NoTrade
        THEN /\ row' = [Fresh(row) EXCEPT !.pending = [trade |-> s, signed |-> FALSE]]
             /\ deal' = [deal EXCEPT ![s] = [size |-> Min({MaxTrade, bot[b].left}), day |-> today]]
             /\ bot' = [bot EXCEPT ![b].doing = "reserving", ![b].intent = [trade |-> s, signed |-> FALSE]]
        ELSE row' = Fresh(row) /\ deal' = deal /\ Rests(b)
  BY DEF Claim
<1>4. s \in Sends /\ deal[s] = NoDeal /\ s # NoTrade
  BY <1>3, NextIsOne, TradesAssumption
<1>5. CASE row.pending.trade # NoTrade
  BY <1>2, <1>3, <1>5, RestKeeps
<1>6. CASE row.pending.trade = NoTrade
  <2> DEFINE mine == [trade |-> s, signed |-> FALSE]
             size == Min({MaxTrade, bot[b].left})
  <2>1. /\ row' = [Fresh(row) EXCEPT !.pending = mine]
        /\ deal' = [deal EXCEPT ![s] = [size |-> size, day |-> today]]
        /\ bot' = [bot EXCEPT ![b].doing = "reserving", ![b].intent = mine]
    BY <1>3, <1>6
  <2>2. mine \in Intents /\ mine.trade = s /\ mine.signed = FALSE
    BY <1>4 DEF Intents
  <2>3. size \in Nat /\ size > 0
    <3>1. bot[b].left \in Nat /\ bot[b].left > 0 /\ MaxTrade \in Nat /\ MaxTrade > 0
      BY <1>1, TradesAssumption DEF Typed, IntentOK
    <3> QED
      BY <3>1, LesserOfTwo
  <2> HIDE DEF mine, size
  <2>4. row' \in Rows /\ row'.pending = mine /\ row'.counted = row.counted
    BY <1>1, <2>1, <2>2, FreshKeeps DEF Rows
  <2>5. /\ deal' \in [Sends -> [size : Nat, day : Nat]]
        /\ deal'[s] # NoDeal /\ \A t \in Sends : t # s => deal'[t] = deal[t]
    BY <1>1, <1>4, <2>1, <2>3 DEF Typed, NoDeal
  <2>6. /\ bot'[b].doing = "reserving" /\ bot'[b].intent = mine
        /\ bot' \in [Bots -> [doing : Doings, intent : Intents, left : Nat]]
        /\ \A c \in Bots : c # b => bot'[c] = bot[c]
    BY <1>1, <2>1, <2>2 DEF Typed, Doings
  <2>7. ~IsSigned(s) /\ s \notin sent
    BY <1>1, <1>4 DEF RowSound, ChainSound, Dated
  <2>8. \A c \in Bots : bot[c].intent.trade # s
    BY <1>4 DEF IInv, BotsSound, IntentOK
  <2>9. Typed'
    BY <1>1, <1>2, <2>4, <2>5, <2>6 DEF Typed, Rows
  <2>10. \A t \in Sends : /\ IsSigned(t)' <=> IsSigned(t)
                          /\ Dead(t)' <=> Dead(t)
    BY <1>2 DEF Dead, IsSigned, landingVars
  <2>11. \A t \in Sends : Safe(t) => Safe(t)'
    <3> SUFFICES ASSUME NEW t \in Sends, Safe(t) PROVE Safe(t)'
      OBVIOUS
    <3>1. row.pending # [trade |-> t, signed |-> TRUE]
      BY <1>6, TradesAssumption
    <3> QED
      BY <1>2, <2>4, <2>10, <3>1 DEF Safe
  <2>12. \A t \in Sends : Onward(t)
    BY <1>2, <1>4, <2>5, <2>10, <2>11 DEF Onward, landingVars
  <2>13. ChainSound'
    BY <1>1, <1>2 DEF ChainSound, ChainTyped, Dated, IsSigned, landingVars
  <2>14. RowSound'
    <3>1. row'.pending.trade = s /\ ~row'.pending.signed
      BY <2>2, <2>4
    <3>2. UNCHANGED <<outcome, sent, decided>>
      BY <1>2 DEF landingVars
    <3>3. \A t \in Sends : /\ decided[t] = "dropped" => Dead(t)
                           /\ decided[t] = "landed" => outcome[t] = "ok"
                           /\ IsSigned(t) => deal[t] # NoDeal
                           /\ t \in sent => Safe(t)
      BY <1>1 DEF RowSound
    <3>4. \A t \in Sends : /\ decided'[t] = "dropped" => Dead(t)'
                           /\ decided'[t] = "landed" => outcome'[t] = "ok"
                           /\ IsSigned(t)' => deal'[t] # NoDeal
                           /\ t \in sent' => Safe(t)'
      BY <1>4, <2>5, <2>10, <2>11, <3>2, <3>3
    <3>5. \A t \in row'.counted : outcome'[t] = "ok"
      BY <1>1, <2>4, <3>2 DEF RowSound
    <3> QED
      BY <2>5, <3>1, <3>4, <3>5 DEF RowSound
  <2>15. IntentOK(bot[b])'
    <3>1. bot'[b].intent.trade = s /\ ~bot'[b].intent.signed /\ bot'[b].doing = "reserving"
      BY <2>2, <2>6
    <3>2. lastValid'[s] = Unsigned
      BY <1>2, <2>7 DEF IsSigned, landingVars
    <3> QED
      BY <1>4, <2>5, <3>1, <3>2 DEF IntentOK, IsSigned
  <2>16. BotsSound' /\ Alone'
    <3>1. UNCHANGED <<lastValid, sent>>
      BY <1>2 DEF landingVars
    <3> QED
      BY <2>2, <2>6, <2>8, <2>12, <2>15, <3>1, OneBotMoves
  <2> QED
    BY <2>9, <2>13, <2>14, <2>16 DEF IInv
<1> QED
  BY <1>5, <1>6

(* its fee reserved,                                                       *)
LEMMA ReserveKeeps ==
  ASSUME IInv, NEW b \in Bots, Reserve(b) PROVE IInv'
<1> DEFINE s == bot[b].intent.trade
<1>1. /\ Typed /\ ChainSound /\ RowSound /\ IntentOK(bot[b]) /\ bot[b].doing = "reserving"
      /\ bot[b] \in [doing : Doings, intent : Intents, left : Nat]
  BY DEF IInv, BotsSound, Reserve, Doing, Typed
<1>2. UNCHANGED <<row, deal, decided, today, ran, blind>>
  BY DEF Reserve
<1>3. s \in Sends /\ s # NoTrade /\ deal[s] # NoDeal /\ ~IsSigned(s) /\ ~bot[b].intent.signed
  <2>1. bot[b].intent \in Intents
    BY <1>1
  <2> QED
    BY <1>1, <2>1, TradesAssumption DEF IntentOK, Intents
<1>4. \/ Rests(b) /\ UNCHANGED landingVars
      \/ SignSend(s) /\ bot' = [bot EXCEPT ![b].doing = "signing"]
  BY DEF Reserve, Becomes
<1>5. CASE Rests(b) /\ UNCHANGED landingVars
  BY <1>2, <1>5, RestKeeps
<1>6. CASE SignSend(s) /\ bot' = [bot EXCEPT ![b].doing = "signing"]
  <2>1. /\ lastValid' = [lastValid EXCEPT ![s] = height + Validity]
        /\ UNCHANGED <<height, final, sent, outcome, at>>
    BY <1>6 DEF SignSend
  <2>2. /\ height \in Nat /\ Validity \in Nat \ {0} /\ lastValid \in [Sends -> Int]
        /\ s \notin sent /\ outcome[s] = "none"
    BY <1>1, <1>3, LandingAssumption DEF ChainSound, ChainTyped, Dated
  <2>3. lastValid'[s] = height + Validity /\ \A t \in Sends : t # s => lastValid'[t] = lastValid[t]
    BY <1>3, <2>1, <2>2
  <2>4. \A t \in Sends : (t = s => IsSigned(t)') /\ (t # s => (IsSigned(t)' <=> IsSigned(t)))
    BY <2>2, <2>3 DEF IsSigned, Unsigned
  <2>5. ChainTyped'
    <3>1. height + Validity \in Int
      BY <2>2
    <3>2. lastValid' \in [Sends -> Int]
      BY <2>1, <2>2, <3>1
    <3> QED
      BY <1>1, <2>1, <3>2 DEF ChainSound, ChainTyped
  <2>6. Dated'
    <3> SUFFICES ASSUME NEW t \in Sends
                 PROVE  /\ IsSigned(t)' => lastValid'[t] - Validity \in 0..height'
                        /\ t \in sent' => IsSigned(t)'
                        /\ outcome'[t] # "none" =>
                             t \in sent' /\ lastValid'[t] - Validity <= at'[t] /\ at'[t] <= lastValid'[t]
      BY DEF Dated
    <3>1. CASE t = s
      BY <2>1, <2>2, <2>3, <3>1
    <3>2. CASE t # s
      BY <1>1, <2>1, <2>3, <2>4, <3>2 DEF ChainSound, Dated
    <3> QED
      BY <3>1, <3>2
  <2>7. \A t \in Sends : (Dead(t) => Dead(t)') /\ (Safe(t) => Safe(t)')
    <3> SUFFICES ASSUME NEW t \in Sends PROVE (Dead(t) => Dead(t)') /\ (Safe(t) => Safe(t)')
      OBVIOUS
    <3>1. Dead(t) => Dead(t)'
      BY <1>3, <2>1, <2>2, <2>3, <2>4 DEF Dead
    <3> QED
      BY <1>2, <3>1 DEF Safe
  <2>8. \A t \in Sends : Onward(t)
    BY <1>2, <2>1, <2>4, <2>7 DEF Onward
  <2>9. RowSound'
    <3>1. row'.pending.signed => row'.pending.trade # NoTrade /\ lastValid'[row'.pending.trade] # Unsigned
      <4>1. row.pending \in Intents
        BY <1>1 DEF Typed
      <4>2. row.pending.signed => row.pending.trade \in Sends /\ row.pending.trade # NoTrade /\ IsSigned(row.pending.trade)
        BY <1>1, <4>1 DEF RowSound, Intents
      <4> QED
        BY <1>2, <2>4, <4>2 DEF IsSigned
    <3>2. \A t \in Sends : /\ decided'[t] = "dropped" => Dead(t)'
                           /\ decided'[t] = "landed" => outcome'[t] = "ok"
                           /\ IsSigned(t)' => deal'[t] # NoDeal
                           /\ t \in sent' => Safe(t)'
      BY <1>1, <1>2, <1>3, <2>1, <2>4, <2>7 DEF RowSound
    <3>3. row'.pending.trade # NoTrade => deal'[row'.pending.trade] # NoDeal
      BY <1>1, <1>2 DEF RowSound
    <3>4. \A t \in row'.counted : outcome'[t] = "ok"
      BY <1>1, <1>2, <2>1 DEF RowSound
    <3> QED
      BY <3>1, <3>2, <3>3, <3>4 DEF RowSound, IsSigned
  <2>10. /\ bot'[b].doing = "signing" /\ bot'[b].intent = bot[b].intent
         /\ bot' \in [Bots -> [doing : Doings, intent : Intents, left : Nat]]
         /\ \A c \in Bots : c # b => bot'[c] = bot[c]
    BY <1>1, <1>6 DEF Typed, Doings
  <2>11. Typed'
    BY <1>1, <1>2, <2>10 DEF Typed
  <2>12. IntentOK(bot[b])'
    <3>1. bot'[b].intent.trade = s /\ ~bot'[b].intent.signed /\ lastValid'[s] # Unsigned
      BY <1>3, <2>2, <2>3, <2>10 DEF Unsigned
    <3> QED
      BY <1>2, <1>3, <2>1, <2>2, <2>10, <3>1 DEF IntentOK, IsSigned
  <2>13. ASSUME NEW c \in Bots, c # b, bot[c].doing \in Working
         PROVE  UNCHANGED lastValid[bot[c].intent.trade]
    <3>1. bot[c].intent.trade # s
      BY <1>1, <2>13 DEF IInv, Alone, Working
    <3> QED
      BY <2>1, <2>2, <2>10, <2>13, <3>1
  <2>14. BotsSound' /\ Alone'
    BY <1>1, <2>1, <2>8, <2>10, <2>12, <2>13, OneBotMoves DEF Working
  <2> QED
    BY <2>5, <2>6, <2>9, <2>11, <2>14 DEF IInv, ChainSound
<1> QED
  BY <1>4, <1>5, <1>6

(* signed,                                                                 *)
LEMMA SignKeeps ==
  ASSUME IInv, NEW b \in Bots, Sign(b) PROVE IInv'
<1> DEFINE s == bot[b].intent.trade
<1>1. /\ Typed /\ ChainSound /\ RowSound /\ IntentOK(bot[b]) /\ bot[b].doing = "signing"
      /\ bot[b] \in [doing : Doings, intent : Intents, left : Nat] /\ row.pending \in Intents
  BY DEF IInv, BotsSound, Sign, Doing, Typed
<1>2. UNCHANGED <<landingVars, deal, fee, decided, today, ran, blind>>
  BY DEF Sign
<1>3. s \in Sends /\ s # NoTrade /\ deal[s] # NoDeal /\ IsSigned(s) /\ s \notin sent
  <2>1. bot[b].intent \in Intents
    BY <1>1
  <2> QED
    BY <1>1, <2>1 DEF IntentOK, Intents
<1>4. CASE row.pending.trade # s
  BY <1>2, <1>4, RestKeeps DEF Sign
<1>5. CASE row.pending.trade = s
  <2> DEFINE mine == [trade |-> s, signed |-> TRUE]
  <2>1. row' = [Fresh(row) EXCEPT !.pending = mine] /\ bot' = [bot EXCEPT ![b].doing = "sending"]
    BY <1>5 DEF Sign, Becomes
  <2>2. mine \in Intents /\ mine.trade = s
    BY <1>3 DEF Intents
  <2>3. row' \in Rows /\ row'.pending = mine /\ row'.counted = row.counted
    BY <1>1, <2>1, <2>2, FreshKeeps DEF Rows
  <2>4. /\ bot'[b].doing = "sending" /\ bot'[b].intent = bot[b].intent
        /\ bot' \in [Bots -> [doing : Doings, intent : Intents, left : Nat]]
        /\ \A c \in Bots : c # b => bot'[c] = bot[c]
    BY <1>1, <2>1 DEF Typed, Doings
  <2>5. Typed'
    BY <1>1, <1>2, <2>3, <2>4 DEF Typed, Rows
  <2>6. ASSUME NEW t \in Sends, Safe(t) PROVE Safe(t)'
    <3>1. Dead(t)' <=> Dead(t)
      BY <1>2 DEF Dead, IsSigned, landingVars
    <3>2. row.pending = [trade |-> t, signed |-> TRUE] => t = s
      BY <1>5
    <3> QED
      BY <1>2, <2>3, <2>6, <3>1, <3>2 DEF Safe
  <2>7. ChainSound' /\ RowSound' /\ \A t \in Sends : Onward(t)
    <3>1. /\ row'.pending.trade # NoTrade => deal[row'.pending.trade] # NoDeal
          /\ row'.pending.signed => row'.pending.trade # NoTrade /\ IsSigned(row'.pending.trade)
          /\ \A t \in row'.counted : outcome[t] = "ok"
      BY <1>1, <1>3, <2>2, <2>3 DEF RowSound
    <3> QED
      BY <1>1, <1>2, <2>6, <3>1, RowKeeps
  <2>8. IntentOK(bot[b])'
    <3>1. bot'[b].intent.trade = s /\ bot'[b].doing = "sending"
      BY <2>4
    <3>2. lastValid'[s] # Unsigned /\ s \notin sent' /\ deal'[s] # NoDeal
      BY <1>2, <1>3 DEF IsSigned, landingVars
    <3>3. row'.pending = [trade |-> bot'[b].intent.trade, signed |-> TRUE]
      BY <2>3, <3>1
    <3> QED
      BY <1>3, <3>1, <3>2, <3>3 DEF IntentOK, IsSigned, Safe
  <2>9. BotsSound' /\ Alone'
    <3>1. UNCHANGED <<lastValid, sent>>
      BY <1>2 DEF landingVars
    <3> QED
      BY <1>1, <2>4, <2>7, <2>8, <3>1, OneBotMoves DEF Working
  <2> QED
    BY <2>5, <2>7, <2>9 DEF IInv
<1> QED
  BY <1>4, <1>5

(* sent,                                                                   *)
LEMMA SendKeeps ==
  ASSUME IInv, NEW b \in Bots, Send(b) PROVE IInv'
<1> DEFINE s == bot[b].intent.trade
<1>1. /\ Typed /\ ChainSound /\ RowSound /\ IntentOK(bot[b]) /\ bot[b].doing = "sending"
      /\ bot[b] \in [doing : Doings, intent : Intents, left : Nat] /\ row.pending \in Intents
  BY DEF IInv, BotsSound, Send, Doing, Typed
<1>2. /\ sent' = sent \cup {s} /\ bot' = [bot EXCEPT ![b].doing = "confirming"]
      /\ UNCHANGED <<height, final, lastValid, outcome, at, row, deal, fee, decided, today, ran, blind>>
  BY DEF Send, Broadcast, Becomes
<1>3. s \in Sends /\ s # NoTrade /\ deal[s] # NoDeal /\ IsSigned(s) /\ Safe(s)
  <2>1. bot[b].intent \in Intents
    BY <1>1
  <2> QED
    BY <1>1, <2>1 DEF IntentOK, Intents
<1>4. /\ bot'[b].doing = "confirming" /\ bot'[b].intent = bot[b].intent
      /\ bot' \in [Bots -> [doing : Doings, intent : Intents, left : Nat]]
      /\ \A c \in Bots : c # b => bot'[c] = bot[c]
  BY <1>1, <1>2 DEF Typed, Doings
<1>5. Typed'
  BY <1>1, <1>2, <1>4 DEF Typed
<1>6. \A t \in Sends : /\ IsSigned(t)' <=> IsSigned(t)
                       /\ Dead(t)' <=> Dead(t)
                       /\ Safe(t)' <=> Safe(t)
  BY <1>2 DEF Dead, IsSigned, Safe
<1>7. \A t \in Sends : Onward(t)
  BY <1>2, <1>6 DEF Onward
<1>8. ChainSound'
  <2>1. ChainTyped'
    BY <1>1, <1>2, <1>3 DEF ChainSound, ChainTyped
  <2>2. Dated'
    <3> SUFFICES ASSUME NEW t \in Sends
                 PROVE  /\ IsSigned(t)' => lastValid'[t] - Validity \in 0..height'
                        /\ t \in sent' => IsSigned(t)'
                        /\ outcome'[t] # "none" =>
                             t \in sent' /\ lastValid'[t] - Validity <= at'[t] /\ at'[t] <= lastValid'[t]
      BY DEF Dated
    <3>1. t \in sent' => t = s \/ t \in sent
      BY <1>2
    <3> QED
      BY <1>1, <1>2, <1>3, <1>6, <3>1 DEF ChainSound, Dated
  <2> QED
    BY <2>1, <2>2 DEF ChainSound
<1>9. RowSound'
  <2>1. row.pending.signed => row.pending.trade # NoTrade /\ lastValid'[row.pending.trade] # Unsigned
    BY <1>1, <1>2 DEF RowSound, IsSigned
  <2>2. \A t \in Sends : /\ decided'[t] = "dropped" => Dead(t)'
                         /\ decided'[t] = "landed" => outcome'[t] = "ok"
                         /\ IsSigned(t)' => deal'[t] # NoDeal
                         /\ t \in sent' => Safe(t)'
    BY <1>1, <1>2, <1>3, <1>6 DEF RowSound
  <2> QED
    BY <1>1, <1>2, <2>1, <2>2 DEF RowSound, IsSigned
<1>10. IntentOK(bot[b])'
  <2>1. bot'[b].intent.trade = s /\ bot'[b].doing = "confirming"
    BY <1>4
  <2> QED
    BY <1>2, <1>3, <2>1 DEF IntentOK, IsSigned
<1>11. ASSUME NEW c \in Bots, c # b, bot[c].doing \in Working
       PROVE  bot[c].intent.trade \in sent' => bot[c].intent.trade \in sent
  BY <1>1, <1>2, <1>11 DEF IInv, Alone, Working
<1>12. BotsSound' /\ Alone'
  <2>1. \A c \in Bots : c # b /\ bot[c].doing \in Working =>
          /\ UNCHANGED lastValid[bot[c].intent.trade]
          /\ bot[c].intent.trade \in sent' => bot[c].intent.trade \in sent
    BY <1>2, <1>4, <1>11
  <2> QED
    BY <1>4, <1>7, <1>10, <2>1, OneBotMoves DEF Working
<1> QED
  BY <1>5, <1>8, <1>9, <1>12 DEF IInv

-----------------------------------------------------------------------------
(* Steps of nobody's check.                                                *)
LEMMA OthersKeep ==
  ASSUME IInv, ReconcileFee \/ NewDay \/ UNCHANGED <<landingVars, tradesVars>> PROVE IInv'
<1>1. UNCHANGED <<landingVars, row, deal, decided, bot, blind>> /\ today' \in Nat
  BY DEF ReconcileFee, NewDay, tradesVars, IInv, Typed
<1>2. UNCHANGED <<lastValid, sent>>
  BY <1>1 DEF landingVars
<1>3. ChainSound' /\ RowSound' /\ \A s \in Sends : Onward(s)
  BY <1>1, QuietSound DEF IInv
<1>4. BotsSound' /\ Alone'
  BY <1>1, <1>2, <1>3, NoBotMoves
<1>5. Typed'
  BY <1>1 DEF IInv, Typed
<1> QED
  BY <1>3, <1>4, <1>5 DEF IInv

(* decided by its operator,                                                *)
LEMMA DecideKeeps ==
  ASSUME IInv, Decide PROVE IInv'
<1> DEFINE s == row.pending.trade
<1>1. Typed /\ ChainSound /\ RowSound /\ row.pending.signed /\ row.pending \in Intents /\ Expired(s)
  BY DEF IInv, Typed, Decide
<1>2. /\ decided' = [decided EXCEPT ![s] = IF outcome[s] = "ok" THEN "landed" ELSE "dropped"]
      /\ UNCHANGED <<landingVars, row, deal, fee, bot, today, ran, blind>>
  BY DEF Decide
<1>3. s \in Sends /\ IsSigned(s)
  BY <1>1 DEF RowSound, Intents
<1>4. outcome[s] # "ok" => Dead(s)
  BY <1>1, <1>3 DEF ChainSound, ChainTyped, Expired, Dead
<1>5. \A t \in Sends : /\ decided'[t] = "dropped" => Dead(t)
                       /\ decided'[t] = "landed" => outcome[t] = "ok"
  BY <1>1, <1>2, <1>3, <1>4 DEF RowSound, Typed
<1>6. \A t \in Sends : /\ IsSigned(t)' <=> IsSigned(t)
                       /\ Dead(t)' <=> Dead(t)
                       /\ Safe(t)' <=> Safe(t)
  BY <1>2 DEF Dead, IsSigned, Safe, landingVars
<1>7. \A t \in Sends : Onward(t)
  BY <1>2, <1>6 DEF Onward, landingVars
<1>8. ChainSound'
  BY <1>1, <1>2 DEF ChainSound, ChainTyped, Dated, IsSigned, landingVars
<1>9. RowSound'
  <2>1. UNCHANGED <<row, deal, outcome, lastValid, sent>>
    BY <1>2 DEF landingVars
  <2>2. \A t \in Sends : /\ decided'[t] = "dropped" => Dead(t)'
                         /\ decided'[t] = "landed" => outcome'[t] = "ok"
                         /\ IsSigned(t)' => deal'[t] # NoDeal
                         /\ t \in sent' => Safe(t)'
    BY <1>1, <1>5, <1>6, <2>1 DEF RowSound
  <2> QED
    BY <1>1, <2>1, <2>2 DEF RowSound, IsSigned
<1>10. Typed'
  BY <1>1, <1>2, <1>3 DEF Typed
<1>11. BotsSound' /\ Alone'
  BY <1>2, <1>7, NoBotMoves DEF landingVars
<1> QED
  BY <1>8, <1>9, <1>10, <1>11 DEF IInv

(* the chain's steps,                                                      *)
LEMMA ChainKeeps ==
  ASSUME IInv, ChainStep, UNCHANGED tradesVars PROVE IInv'
<1>1. UNCHANGED <<row, deal, decided, bot, today, blind>>
  BY DEF tradesVars
<1>2. /\ ChainSound' /\ UNCHANGED <<lastValid, sent>>
      /\ \A s \in Sends : (Dead(s) => Dead(s)') /\ (outcome[s] = "ok" => outcome'[s] = "ok")
  BY ChainStepKeeps DEF IInv
<1>3. \A s \in Sends : /\ IsSigned(s)' <=> IsSigned(s)
                       /\ Safe(s) => Safe(s)'
  BY <1>1, <1>2 DEF IsSigned, Safe
<1>4. \A s \in Sends : Onward(s)
  BY <1>1, <1>2, <1>3 DEF Onward
<1>5. RowSound'
  <2>1. \A s \in row.counted : s \in Sends
    BY DEF IInv, Typed
  <2>2. \A s \in Sends : /\ decided'[s] = "dropped" => Dead(s)'
                         /\ decided'[s] = "landed" => outcome'[s] = "ok"
                         /\ IsSigned(s)' => deal'[s] # NoDeal
                         /\ s \in sent' => Safe(s)'
    BY <1>1, <1>2, <1>3 DEF IInv, RowSound
  <2> QED
    BY <1>1, <1>2, <2>1, <2>2 DEF IInv, RowSound, IsSigned
<1>6. Typed'
  BY <1>1 DEF IInv, Typed
<1>7. BotsSound' /\ Alone'
  BY <1>1, <1>2, <1>4, NoBotMoves
<1> QED
  BY <1>2, <1>5, <1>6, <1>7 DEF IInv

(* and so every step.                                                      *)
LEMMA NextKeeps == IInv /\ [TradesNext]_<<landingVars, tradesVars>> => IInv'
<1> SUFFICES ASSUME IInv, [TradesNext]_<<landingVars, tradesVars>> PROVE IInv'
  OBVIOUS
<1>1. ASSUME NEW b \in Bots,
             \/ Look(b) \/ Settle(b) \/ Drop(b) \/ Count(b) \/ Price(b) \/ Claim(b)
             \/ Reserve(b) \/ Sign(b) \/ Send(b) \/ Confirm(b) \/ Stop(b)
      PROVE  IInv'
  BY <1>1, QuietBotKeeps, DropKeeps, CountKeeps, ClaimKeeps, ReserveKeeps, SignKeeps, SendKeeps
<1> QED
  BY <1>1, OthersKeep, DecideKeeps, ChainKeeps DEF TradesNext

(* A trade that was broadcast and landed, or still may land, is counted or  *)
(* waits in the order's journal, unless a bot that read the journal before  *)
(* it was signed dropped it (send-intent.ts); none is counted that did not. *)
THEOREM NeverForgotten == TradesSpec => []TradesRemembered
<1>1. TradesSpec => []IInv
  BY TradesInitIInv, NextKeeps, PTL DEF TradesSpec
<1> QED
  BY <1>1, RememberedHolds, PTL

(* "never-landed" is never said of a transaction that landed or still may,  *)
(* whatever the nodes lag and forget (fateOfSend, send-fate.ts).            *)
THEOREM NeverIsNever == TradesSpec => []NeverMeansNever
<1>1. TradesSpec => []IInv
  BY TradesInitIInv, NextKeeps, PTL DEF TradesSpec
<1>2. IInv => NeverMeansNever
  BY ProofMeansNever DEF IInv
<1> QED
  BY <1>1, <1>2, PTL

-----------------------------------------------------------------------------
(* What bots spend: fees keep to the cap, and one bot alone to the day's   *)
(* limit.                                                                  *)

(* The fee journal: what is held, and what was never charged.              *)
Gone(s) == outcome[s] = "none" /\ height >= lastValid[s]
(* A transaction that may cost a fee has it reserved, and the reserves keep*)
(* to the cap.                                                             *)
FeeInv ==
  /\ fee \in [Sends -> {0, FeePaid, FeeEstimate}]
  /\ FSum(fee, Sends) <= FeeCapacity
  /\ \A s \in Sends : IsSigned(s) => fee[s] >= FeePaid \/ Gone(s)

(* What the trades of X are worth that were made for day d.                *)
Deals == [Sends -> [size : Nat, day : Nat]]
(* What the trades of X that were made for day d are worth.                *)
OnDay(X, dl, d) == FSum([s \in Sends |-> IF s \in X /\ dl[s].day = d THEN dl[s].size ELSE 0], Sends)
(* What counts against today, and the trades that count or may come to.    *)
UsedToday == IF row.day = today THEN row.used ELSE 0
Possible == {s \in Sends : s \in row.counted \/ row.pending.trade = s}

(* At most one bot has run.                                                *)
Single == \A b, c \in ran : b = c
(* What a lone bot knows of the journal at each point.                     *)
PhaseOK(e) ==
  /\ e.doing \in {"settling", "dropping", "counting"} => e.intent = row.pending
  /\ e.doing \in {"reserving", "signing", "sending", "confirming", "booking"} =>
       row.pending.trade = e.intent.trade
  /\ e.doing \in {"pricing", "claiming"} => row.pending = NoPending
  /\ e.doing = "claiming" => e.left + OnDay(row.counted, deal, today) <= MaxDay
(* No trade is of a day to come; bots that never ran are idle.             *)
DaysSound == row.day <= today /\ \A s \in Sends : deal[s].day <= today
RanSound == IsFiniteSet(ran) /\ ran \subseteq Bots /\ \A b \in Bots \ ran : bot[b].doing = "idle"
(* A lone bot forgets nothing, and what may count keeps to every day's     *)
(* limit.                                                                  *)
AloneSound ==
  /\ blind = {}
  /\ \A b \in Bots : PhaseOK(bot[b])
  /\ \A d \in Nat : OnDay(Possible, deal, d) <= MaxDay
(* The budget's inductive invariant.                                       *)
DayInv ==
  /\ DaysSound /\ RanSound
  /\ UsedToday = OnDay(row.counted, deal, today)
  /\ Single => AloneSound

-----------------------------------------------------------------------------
(* What the constants are.                                                 *)
LEMMA FeeConstants ==
  /\ FeePaid \in Nat /\ FeeEstimate \in Nat /\ FeeCapacity \in Nat /\ FeePaid <= FeeEstimate
  /\ MaxDay \in Nat /\ MaxDays \in Nat /\ MaxTrade \in Nat /\ MaxTrade > 0
  /\ IsFiniteSet(Sends) /\ NoTrade \notin Sends
BY TradesAssumption

(* The reserves keep to the cap.                                           *)
LEMMA FeesWithin == IInv /\ FeeInv => FeesWithinCap
<1> SUFFICES ASSUME IInv, FeeInv PROVE FeesWithinCap
  OBVIOUS
<1> DEFINE X == {s \in TradesSent : outcome[s] # "none" \/ MayLand(s)}
           c == [s \in Sends |-> FeePaid]
<1>1. X \subseteq Sends /\ IsFiniteSet(X)
  <2>1. X \subseteq Sends
    BY DEF TradesSent, IInv, ChainSound, ChainTyped
  <2> QED
    BY <2>1, FeeConstants, FS_Subset
<1>2. \A s \in Sends : fee[s] \in Nat /\ c[s] = FeePaid
  <2>1. fee \in [Sends -> {0, FeePaid, FeeEstimate}]
    BY DEF FeeInv
  <2>2. \A s \in Sends : fee[s] \in Nat
    BY <2>1, FeeConstants
  <2> QED
    BY <2>2
<1>3. \A s \in X : c[s] <= fee[s]
  <2> SUFFICES ASSUME NEW s \in X PROVE c[s] <= fee[s]
    OBVIOUS
  <2>1. s \in sent /\ s \in Sends /\ (outcome[s] # "none" \/ MayLand(s))
    BY <1>1 DEF TradesSent
  <2>2. IsSigned(s) /\ height \in Nat /\ lastValid[s] \in Int
    BY <2>1 DEF IInv, ChainSound, ChainTyped, Dated
  <2>3. ~Gone(s)
    BY <2>1, <2>2 DEF Gone, MayLand
  <2> QED
    BY <1>2, <2>1, <2>2, <2>3 DEF FeeInv
<1> HIDE DEF X, c
<1>4. FSum(c, X) = FeePaid * Cardinality(X)
  BY <1>1, <1>2, FeeConstants, SumConstant
<1>5. FSum(c, X) <= FSum(fee, X)
  <2>1. \A s \in X : c[s] \in Int /\ fee[s] \in Int /\ c[s] <= fee[s]
    <3> SUFFICES ASSUME NEW s \in X PROVE c[s] \in Int /\ fee[s] \in Int /\ c[s] <= fee[s]
      OBVIOUS
    <3>1. s \in Sends
      BY <1>1
    <3>2. fee[s] \in Nat /\ c[s] = FeePaid
      BY <1>2, <3>1
    <3>3. c[s] \in Nat
      BY <3>2, FeeConstants
    <3>4. c[s] <= fee[s]
      BY <1>3
    <3> QED
      BY <3>2, <3>3, <3>4
  <2> QED
    BY <1>1, <2>1, SumMonotone
<1>6. FSum(fee, X) <= FSum(fee, Sends)
  <2>1. \A s \in Sends : fee[s] \in Nat
    BY <1>2
  <2> QED
    BY <1>1, <2>1, FeeConstants, SumSubset
<1>7. FSum(fee, X) \in Nat /\ FSum(fee, Sends) \in Nat /\ FSum(c, X) \in Nat
  <2>1. \A s \in X : fee[s] \in Nat /\ c[s] \in Nat
    BY <1>1, <1>2, FeeConstants
  <2> QED
    BY <1>1, <1>2, <2>1, FeeConstants, SumNat
<1>8. FSum(fee, Sends) <= FeeCapacity
  BY DEF FeeInv
<1> QED
  BY <1>4, <1>5, <1>6, <1>7, <1>8, FeeConstants DEF FeesWithinCap, X

(* The fees' invariant holds at first.                                     *)
LEMMA InitFees == TradesInit => FeeInv
<1> SUFFICES ASSUME TradesInit PROVE FeeInv
  OBVIOUS
<1>1. \A s \in Sends : fee[s] = 0
  BY DEF TradesInit
<1>2. FSum(fee, Sends) = 0
  BY <1>1, FeeConstants, SumZero
<1>3. \A s \in Sends : ~IsSigned(s)
  BY DEF TradesInit, LandingInit, IsSigned
<1>4. fee \in [Sends -> {0, FeePaid, FeeEstimate}]
  BY DEF TradesInit
<1> QED
  BY <1>2, <1>3, <1>4, FeeConstants DEF FeeInv

(* Each step keeps it: a fee reserved,                                     *)
LEMMA ReserveFees == ASSUME IInv, FeeInv, NEW b \in Bots, Reserve(b) PROVE FeeInv'
<1> DEFINE s == bot[b].intent.trade
<1>1. CASE FeesHeld + FeeEstimate <= FeeCapacity
  <2>1. /\ lastValid' = [lastValid EXCEPT ![s] = height + Validity]
        /\ fee' = [fee EXCEPT ![s] = FeeEstimate]
        /\ outcome' = outcome /\ height' = height
    BY <1>1 DEF Reserve, SignSend
  <2>2. FSum(fee, Sends) + FeeEstimate <= FeeCapacity
    BY <1>1, SumFunctionIs DEF FeesHeld
  <2>3. s \in Sends
    BY DEF IInv, Typed, Intents, BotsSound, IntentOK, Reserve, Doing
  <2> HIDE DEF s
  <2>4. fee \in [Sends -> {0, FeePaid, FeeEstimate}] /\ lastValid \in [Sends -> Int]
    BY DEF FeeInv, IInv, ChainSound, ChainTyped
  <2>5. fee' \in [Sends -> {0, FeePaid, FeeEstimate}]
    BY <2>1, <2>3, <2>4
  <2>6. \A t \in Sends : fee[t] \in Nat /\ fee'[t] \in Nat
    BY <2>4, <2>5, FeeConstants
  <2>7. FSum(fee', Sends) <= FSum(fee, Sends) + FeeEstimate
    <3> DEFINE c == FeeEstimate - fee[s]
    <3>1. c \in Int /\ c <= FeeEstimate /\ fee'[s] = fee[s] + c
      BY <2>1, <2>3, <2>4, <2>6, FeeConstants
    <3>2. \A t \in Sends \ {s} : fee'[t] = fee[t]
      BY <2>1, <2>4
    <3>3. \A t \in Sends : fee[t] \in Int
      BY <2>6
    <3> HIDE DEF c
    <3>4. FSum(fee', Sends) = FSum(fee, Sends) + c
      BY <2>3, <3>1, <3>2, <3>3, FeeConstants, SumGrows
    <3>5. FSum(fee, Sends) \in Int
      BY <3>3, FeeConstants, SumType
    <3> QED
      BY <3>1, <3>4, <3>5, FeeConstants
  <2>8. FSum(fee, Sends) \in Nat /\ FSum(fee', Sends) \in Nat
    BY <2>6, FeeConstants, SumNat
  <2>9. FSum(fee', Sends) <= FeeCapacity
    BY <2>2, <2>7, <2>8, FeeConstants
  <2>10. ASSUME NEW t \in Sends, IsSigned(t)'
         PROVE  fee'[t] >= FeePaid \/ Gone(t)'
    <3>1. CASE t = s
      BY <2>1, <2>3, <2>4, <3>1, FeeConstants
    <3>2. CASE t # s
      <4>1. fee'[t] = fee[t] /\ lastValid'[t] = lastValid[t]
        BY <2>1, <2>4, <3>2
      <4>2. IsSigned(t) /\ (Gone(t) => Gone(t)')
        BY <2>1, <2>10, <4>1 DEF IsSigned, Gone
      <4> QED
        BY <4>1, <4>2 DEF FeeInv
    <3> QED
      BY <3>1, <3>2
  <2> QED
    BY <2>5, <2>9, <2>10 DEF FeeInv
<1>2. CASE ~(FeesHeld + FeeEstimate <= FeeCapacity)
  <2>1. UNCHANGED <<landingVars, fee>>
    BY <1>2 DEF Reserve
  <2>2. \A t \in Sends : (IsSigned(t)' <=> IsSigned(t)) /\ (Gone(t)' <=> Gone(t))
    BY <2>1 DEF landingVars, IsSigned, Gone
  <2> QED
    BY <2>1, <2>2 DEF FeeInv
<1> QED
  BY <1>1, <1>2

(* settled by what the chain says,                                         *)
LEMMA ReconcileFees == ASSUME IInv, FeeInv, ReconcileFee PROVE FeeInv'
<1>1. PICK s \in Sends : \E f \in Fates(s) :
        /\ fee[s] > 0
        /\ \/ f \in {"landed", "failed"} /\ fee' = [fee EXCEPT ![s] = FeePaid]
           \/ f = "never-landed" /\ fee' = [fee EXCEPT ![s] = 0]
  BY DEF ReconcileFee
<1>2. PICK f \in Fates(s) :
        /\ fee[s] > 0
        /\ \/ f \in {"landed", "failed"} /\ fee' = [fee EXCEPT ![s] = FeePaid]
           \/ f = "never-landed" /\ fee' = [fee EXCEPT ![s] = 0]
  BY <1>1
<1>3. PICK new \in {0, FeePaid} :
        /\ fee' = [fee EXCEPT ![s] = new]
        /\ new = FeePaid \/ NeverLanded(s)
  <2>1. f = "never-landed" => NeverLanded(s)
    BY DEF Fates
  <2> QED
    BY <1>2, <2>1
<1>4. fee \in [Sends -> {0, FeePaid, FeeEstimate}] /\ UNCHANGED landingVars
  BY DEF FeeInv, ReconcileFee
<1>5. fee' \in [Sends -> {0, FeePaid, FeeEstimate}]
  BY <1>3, <1>4
<1>6. \A t \in Sends : fee[t] \in Int /\ fee'[t] \in Int /\ fee'[t] <= fee[t]
  <2>1. new <= fee[s]
    BY <1>2, <1>3, <1>4, FeeConstants
  <2>2. \A t \in Sends : fee'[t] = IF t = s THEN new ELSE fee[t]
    BY <1>3, <1>4
  <2> QED
    BY <1>4, <1>5, <2>1, <2>2, FeeConstants
<1>7. FSum(fee', Sends) <= FSum(fee, Sends)
  BY <1>6, FeeConstants, SumMonotone
<1>8. FSum(fee', Sends) \in Int /\ FSum(fee, Sends) \in Int
  BY <1>6, FeeConstants, SumType
<1>9. \A t \in Sends : (IsSigned(t)' <=> IsSigned(t)) /\ (Gone(t)' <=> Gone(t))
  BY <1>4 DEF landingVars, IsSigned, Gone
<1>10. NeverLanded(s) => Gone(s)
  <2>1. NeverLanded(s) => outcome[s] = "none" /\ height > lastValid[s]
    BY ProofIsFinal DEF IInv
  <2> QED
    BY <2>1 DEF IInv, ChainSound, ChainTyped, Gone
<1>11. ASSUME NEW t \in Sends, IsSigned(t)'
       PROVE  fee'[t] >= FeePaid \/ Gone(t)'
  <2>1. fee'[t] = IF t = s THEN new ELSE fee[t]
    BY <1>3, <1>4
  <2>2. fee[t] >= FeePaid \/ Gone(t)
    BY <1>9, <1>11 DEF FeeInv
  <2> QED
    BY <1>3, <1>9, <1>10, <2>1, <2>2, FeeConstants
<1> QED
  BY <1>5, <1>7, <1>8, <1>11, FeeConstants DEF FeeInv

(* the chain's steps,                                                      *)
LEMMA ChainFees == ASSUME IInv, FeeInv, ChainStep, UNCHANGED fee PROVE FeeInv'
<1>1. lastValid' = lastValid /\ height \in Nat /\ lastValid \in [Sends -> Int]
  BY DEF ChainStep, Block, Finalize, IInv, ChainSound, ChainTyped
<1>2. \A s \in Sends : IsSigned(s)' <=> IsSigned(s)
  BY <1>1 DEF IsSigned
<1>3. ASSUME NEW s \in Sends, Gone(s) PROVE Gone(s)'
  <2>1. CASE Finalize
    BY <1>3, <2>1 DEF Finalize, Gone
  <2>2. CASE Block
    <3>1. ~MayLand(s)
      BY <1>1, <1>3 DEF Gone, MayLand
    <3>2. outcome'[s] = outcome[s] /\ height' = height + 1
      BY <2>2, <3>1 DEF Block
    <3> QED
      BY <1>1, <1>3, <3>2 DEF Gone
  <2> QED
    BY <2>1, <2>2 DEF ChainStep
<1> QED
  BY <1>2, <1>3 DEF FeeInv

(* steps that touch neither fees nor the chain,                            *)
LEMMA OthersFees ==
  ASSUME FeeInv, fee' = fee, lastValid' = lastValid, outcome' = outcome, height' = height
  PROVE  FeeInv'
BY DEF FeeInv, IsSigned, Gone

(* and so every step.                                                      *)
LEMMA NextFees == IInv /\ FeeInv /\ [TradesNext]_<<landingVars, tradesVars>> => FeeInv'
<1> SUFFICES ASSUME IInv, FeeInv, [TradesNext]_<<landingVars, tradesVars>> PROVE FeeInv'
  OBVIOUS
<1>1. ASSUME NEW b \in Bots,
             \/ Look(b) \/ Settle(b) \/ Drop(b) \/ Count(b) \/ Price(b) \/ Claim(b)
             \/ Sign(b) \/ Send(b) \/ Confirm(b) \/ Stop(b)
      PROVE  FeeInv'
  <2>1. fee' = fee /\ lastValid' = lastValid /\ outcome' = outcome /\ height' = height
    BY <1>1 DEF Look, Settle, Drop, Count, Price, Claim, Sign, Send, Confirm, Stop, OnlyBot, Broadcast,
                landingVars
  <2> QED
    BY <2>1, OthersFees
<1>2. ASSUME NEW b \in Bots, Reserve(b) PROVE FeeInv'
  BY <1>2, ReserveFees
<1>3. CASE ReconcileFee
  BY <1>3, ReconcileFees
<1>4. CASE Decide \/ NewDay \/ UNCHANGED <<landingVars, tradesVars>>
  <2>1. fee' = fee /\ lastValid' = lastValid /\ outcome' = outcome /\ height' = height
    BY <1>4 DEF Decide, NewDay, landingVars, tradesVars
  <2> QED
    BY <2>1, OthersFees
<1>5. CASE ChainStep /\ UNCHANGED tradesVars
  BY <1>5, ChainFees DEF tradesVars
<1> QED
  BY <1>1, <1>2, <1>3, <1>4, <1>5 DEF TradesNext

-----------------------------------------------------------------------------
(* Sums over a day: a natural,                                             *)
LEMMA OnDayIsNat ==
  ASSUME NEW X, NEW dl \in Deals, NEW d
  PROVE  OnDay(X, dl, d) \in Nat
<1> DEFINE f == [s \in Sends |-> IF s \in X /\ dl[s].day = d THEN dl[s].size ELSE 0]
<1>1. \A s \in Sends : dl[s].size \in Nat
  BY DEF Deals
<1>2. \A s \in Sends : f[s] \in Nat
  BY <1>1
<1> HIDE DEF f
<1>3. FSum(f, Sends) \in Nat
  BY <1>2, FeeConstants, SumNat
<1> QED
  BY <1>3 DEF OnDay, f

(* the same for the same trades,                                           *)
LEMMA OnDaySame ==
  ASSUME NEW X, NEW Y, NEW dl \in Deals, NEW el \in Deals, NEW d,
         \A s \in Sends : (s \in X <=> s \in Y) /\ (s \in X => dl[s] = el[s])
  PROVE  OnDay(X, dl, d) = OnDay(Y, el, d)
<1> DEFINE f == [s \in Sends |-> IF s \in X /\ dl[s].day = d THEN dl[s].size ELSE 0]
           g == [s \in Sends |-> IF s \in Y /\ el[s].day = d THEN el[s].size ELSE 0]
<1>1. \A s \in Sends : f[s] = g[s]
  OBVIOUS
<1>2. OnDay(X, dl, d) = FSum(f, Sends) /\ OnDay(Y, el, d) = FSum(g, Sends)
  BY DEF OnDay
<1> HIDE DEF f, g
<1> QED
  BY <1>1, <1>2, FeeConstants, SumSame

(* with one trade more,                                                    *)
LEMMA OnDayMore ==
  ASSUME NEW X, NEW dl \in Deals, NEW d, NEW s \in Sends, s \notin X
  PROVE  OnDay(X \cup {s}, dl, d) = OnDay(X, dl, d) + IF dl[s].day = d THEN dl[s].size ELSE 0
<1> DEFINE f == [t \in Sends |-> IF t \in X /\ dl[t].day = d THEN dl[t].size ELSE 0]
           g == [t \in Sends |-> IF t \in X \cup {s} /\ dl[t].day = d THEN dl[t].size ELSE 0]
           c == IF dl[s].day = d THEN dl[s].size ELSE 0
<1>1. \A t \in Sends : dl[t].size \in Nat
  BY DEF Deals
<1>2. \A t \in Sends : f[t] \in Int
  <2> SUFFICES ASSUME NEW t \in Sends PROVE f[t] \in Int
    OBVIOUS
  <2>1. f[t] = dl[t].size \/ f[t] = 0
    OBVIOUS
  <2> HIDE DEF f
  <2> QED
    BY <1>1, <2>1
<1>3. \A t \in Sends \ {s} : g[t] = f[t]
  OBVIOUS
<1>4. f[s] = 0 /\ g[s] = c /\ c \in Int
  BY <1>1
<1>5. OnDay(X, dl, d) = FSum(f, Sends) /\ OnDay(X \cup {s}, dl, d) = FSum(g, Sends)
  BY DEF OnDay
<1> HIDE DEF f, g, c
<1>6. g[s] = f[s] + c
  BY <1>4
<1>7. FSum(g, Sends) = FSum(f, Sends) + c
  BY <1>2, <1>3, <1>4, <1>6, FeeConstants, SumGrows
<1> QED
  BY <1>5, <1>7 DEF c

(* over more trades,                                                       *)
LEMMA OnDayLess ==
  ASSUME NEW X, NEW Y, NEW dl \in Deals, NEW d, \A s \in Sends : s \in X => s \in Y
  PROVE  OnDay(X, dl, d) <= OnDay(Y, dl, d)
<1> DEFINE f == [s \in Sends |-> IF s \in X /\ dl[s].day = d THEN dl[s].size ELSE 0]
           g == [s \in Sends |-> IF s \in Y /\ dl[s].day = d THEN dl[s].size ELSE 0]
<1>1. \A s \in Sends : dl[s].size \in Nat
  BY DEF Deals
<1>2. \A s \in Sends : f[s] \in Int /\ g[s] \in Int /\ f[s] <= g[s]
  <2> SUFFICES ASSUME NEW s \in Sends PROVE f[s] \in Int /\ g[s] \in Int /\ f[s] <= g[s]
    OBVIOUS
  <2>1. /\ f[s] = IF s \in X /\ dl[s].day = d THEN dl[s].size ELSE 0
        /\ g[s] = IF s \in Y /\ dl[s].day = d THEN dl[s].size ELSE 0
    OBVIOUS
  <2> HIDE DEF f, g
  <2> QED
    BY <1>1, <2>1
<1>3. OnDay(X, dl, d) = FSum(f, Sends) /\ OnDay(Y, dl, d) = FSum(g, Sends)
  BY DEF OnDay
<1> HIDE DEF f, g
<1> QED
  BY <1>2, <1>3, FeeConstants, SumMonotone

(* and over none of that day.                                              *)
LEMMA OnDayNone ==
  ASSUME NEW X, NEW dl, NEW d, \A s \in Sends : s \in X => dl[s].day # d
  PROVE  OnDay(X, dl, d) = 0
<1> DEFINE f == [s \in Sends |-> IF s \in X /\ dl[s].day = d THEN dl[s].size ELSE 0]
<1>1. \A s \in Sends : f[s] = 0
  OBVIOUS
<1>2. OnDay(X, dl, d) = FSum(f, Sends)
  BY DEF OnDay
<1> HIDE DEF f
<1> QED
  BY <1>1, <1>2, FeeConstants, SumZero

(* The trades of a day that landed or still may, alone, are possible ones. *)
LEMMA DealSumIs ==
  ASSUME NEW X \in SUBSET Sends
  PROVE  MapThenSumSet(LAMBDA s : deal[s].size, X) = FSum([s \in Sends |-> deal[s].size], X)
<1> DEFINE f == [s \in Sends |-> deal[s].size]
           Is(g) == g = [s \in SUBSET X |-> IF s = {} THEN 0 ELSE deal[Some(s)].size + g[Rest(s)]]
           h == CHOOSE g : Is(g)
           k == CHOOSE g : IsSum(f, X, g)
<1>1. MapThenSumSet(LAMBDA s : deal[s].size, X) = h[X]
  BY DEF MapThenSumSet, MapThenFoldSet, Some, Rest
<1>2. FSum(f, X) = k[X]
  BY Unfold
<1>3. IsFiniteSet(X)
  BY FeeConstants, FS_Subset
<1>4. IsSum(f, X, k)
  BY <1>3, SumExists
<1>5. \A s \in SUBSET X : s # {} => f[Some(s)] = deal[Some(s)].size
  BY SomeMember
<1>6. Is(k)
  <2> HIDE DEF f, k
  <2> QED
    BY <1>4, <1>5 DEF IsSum
<1>7. Is(h)
  BY <1>6
<1>8. IsSum(f, X, h)
  <2> HIDE DEF f, h
  <2> QED
    BY <1>7, <1>5 DEF IsSum
<1> HIDE DEF f, h, k
<1>9. h[X] = k[X]
  BY <1>3, <1>4, <1>8, SumsAgree
<1> QED
  BY <1>1, <1>2, <1>9 DEF f

(* A set of one at most.                                                   *)
LEMMA OneRan == ASSUME IsFiniteSet(ran), Cardinality(ran) <= 1 PROVE Single
<1> SUFFICES ASSUME NEW b \in ran, NEW c \in ran, b # c PROVE FALSE
  BY DEF Single
<1>1. IsFiniteSet({b}) /\ Cardinality({b}) = 1
  BY FS_Singleton
<1>2. Cardinality({b} \cup {c}) = 2
  <2>1. c \notin {b}
    OBVIOUS
  <2>2. Cardinality({b} \cup {c}) = Cardinality({b}) + 1
    BY <1>1, <2>1, FS_AddElement
  <2> QED
    BY <1>1, <2>2
<1>3. Cardinality({b} \cup {c}) <= Cardinality(ran)
  <2>1. {b} \cup {c} \subseteq ran
    OBVIOUS
  <2> QED
    BY <2>1, FS_Subset
<1>4. Cardinality(ran) \in Nat
  BY FS_CardinalityType
<1> QED
  BY <1>2, <1>3, <1>4

(* A lone bot keeps to the limit.                                          *)
LEMMA AloneWithin == IInv /\ DayInv => AloneWithinDay
<1> SUFFICES ASSUME IInv, DayInv, Cardinality(ran) <= 1, NEW d \in 0..MaxDays
             PROVE  MapThenSumSet(LAMBDA s : deal[s].size,
                                  {s \in TradesSent : MayCount(s) /\ deal[s].day = d}) <= MaxDay
  BY DEF AloneWithinDay
<1> DEFINE X == {s \in TradesSent : MayCount(s) /\ deal[s].day = d}
           sizes == [s \in Sends |-> deal[s].size]
           f == [s \in Sends |-> IF s \in Possible /\ deal[s].day = d THEN deal[s].size ELSE 0]
<1>1. AloneSound
  BY OneRan DEF DayInv, RanSound
<1>2. X \subseteq Sends /\ IsFiniteSet(X)
  <2>1. X \subseteq Sends
    BY DEF TradesSent, IInv, ChainSound, ChainTyped
  <2> QED
    BY <2>1, FeeConstants, FS_Subset
<1>3. deal \in Deals /\ d \in Nat
  BY FeeConstants DEF IInv, Typed, Deals
<1>4. \A s \in X : s \in Possible /\ deal[s].day = d
  <2> SUFFICES ASSUME NEW s \in X PROVE s \in Possible
    OBVIOUS
  <2>1. s \in Sends /\ s \in TradesSent /\ MayCount(s)
    BY <1>2
  <2>2. s \in row.counted \cup blind \/ row.pending = [trade |-> s, signed |-> TRUE]
    BY <2>1, RememberedHolds DEF TradesRemembered
  <2>3. blind = {}
    BY <1>1 DEF AloneSound
  <2>4. s \in row.counted \/ row.pending.trade = s
    BY <2>2, <2>3
  <2> QED
    BY <2>1, <2>4 DEF Possible
<1>5. \A s \in Sends : deal[s].size \in Nat
  BY <1>3 DEF Deals
<1>6. \A s \in X : sizes[s] = f[s]
  BY <1>2, <1>4
<1>7. \A s \in Sends : f[s] \in Nat
  BY <1>5
<1>8. OnDay(Possible, deal, d) = FSum(f, Sends)
  BY DEF OnDay
<1>9. MapThenSumSet(LAMBDA s : deal[s].size, X) = FSum(sizes, X)
  BY <1>2, DealSumIs
<1> HIDE DEF X, sizes, f
<1>10. FSum(sizes, X) = FSum(f, X)
  BY <1>2, <1>6, SumSame
<1>11. FSum(f, X) <= FSum(f, Sends)
  BY <1>2, <1>7, FeeConstants, SumSubset
<1>12. FSum(f, X) \in Nat /\ FSum(f, Sends) \in Nat
  <2>1. \A s \in X : f[s] \in Nat
    BY <1>2, <1>7
  <2> QED
    BY <1>2, <1>7, <2>1, FeeConstants, SumNat
<1>13. OnDay(Possible, deal, d) <= MaxDay
  BY <1>1, <1>3 DEF AloneSound
<1> QED
  BY <1>8, <1>9, <1>10, <1>11, <1>12, <1>13, FeeConstants DEF X

(* The budget's invariant holds at first.                                  *)
LEMMA InitDays == TradesInit => DayInv
<1> SUFFICES ASSUME TradesInit PROVE DayInv
  OBVIOUS
<1>1. /\ row = [pending |-> NoPending, counted |-> {}, day |-> 0, used |-> 0]
      /\ deal = [s \in Sends |-> NoDeal] /\ bot = [b \in Bots |-> Resting]
      /\ today = 0 /\ ran = {} /\ blind = {}
  BY DEF TradesInit
<1>2. deal \in Deals /\ \A s \in Sends : deal[s].day = 0
  BY <1>1 DEF Deals, NoDeal
<1>3. DaysSound /\ RanSound
  BY <1>1, <1>2, FS_EmptySet DEF DaysSound, RanSound, Resting
<1>4. UsedToday = OnDay(row.counted, deal, today)
  <2>1. OnDay(row.counted, deal, today) = 0
    BY <1>1, OnDayNone
  <2> QED
    BY <1>1, <2>1 DEF UsedToday
<1>5. \A b \in Bots : PhaseOK(bot[b])
  BY <1>1 DEF PhaseOK, Resting
<1>6. \A d \in Nat : OnDay(Possible, deal, d) <= MaxDay
  <2>1. Possible = {}
    BY <1>1, FeeConstants DEF Possible, NoPending
  <2>2. \A d : OnDay(Possible, deal, d) = 0
    BY <2>1, OnDayNone
  <2> QED
    BY <2>2, FeeConstants
<1> QED
  BY <1>1, <1>3, <1>4, <1>5, <1>6 DEF DayInv, AloneSound

(* Fresh forgets yesterday's count and nothing else.                       *)
LEMMA FreshIs ==
  ASSUME Typed
  PROVE  /\ Fresh(row).pending = row.pending /\ Fresh(row).counted = row.counted
         /\ Fresh(row).day = today /\ Fresh(row).used = UsedToday
         /\ Fresh(row) \in Rows
<1>1. row \in Rows /\ today \in Nat
  BY DEF Typed, Rows
<1> QED
  BY <1>1 DEF Fresh, Rows, UsedToday

(* A bot's step, when it is the only one that ever ran.                    *)
LEMMA OthersIdle ==
  ASSUME RanSound, NEW b \in Bots, bot[b].doing # "idle" \/ ran' = ran \cup {b}, ran' \in {ran, ran \cup {b}},
         \A c \in Bots : c # b => bot'[c] = bot[c]
  PROVE  /\ RanSound'
         /\ Single' => Single /\ \A c \in Bots : c # b => bot'[c].doing = "idle"
<1>1. b \in ran'
  BY DEF RanSound
<1>2. IsFiniteSet(ran \cup {b})
  BY FS_AddElement DEF RanSound
<1>3. RanSound'
  BY <1>1, <1>2 DEF RanSound
<1>4. Single' => Single /\ \A c \in Bots : c # b => bot'[c].doing = "idle"
  BY <1>1 DEF RanSound, Single
<1> QED
  BY <1>3, <1>4

(* An idle bot claims nothing.                                             *)
LEMMA IdleIsFine == ASSUME NEW c, bot'[c].doing = "idle" PROVE PhaseOK(bot[c])'
BY DEF PhaseOK

(* Steps that keep the order's row, what trades say and the day.           *)
LEMMA RowStays ==
  ASSUME IInv, DayInv, NEW b \in Bots, UNCHANGED <<row, deal, today, blind>>,
         bot[b].doing # "idle" \/ ran' = ran \cup {b}, ran' \in {ran, ran \cup {b}},
         \A c \in Bots : c # b => bot'[c] = bot[c],
         Single => PhaseOK(bot[b])'
  PROVE  DayInv'
<1>1. RanSound' /\ (Single' => Single /\ \A c \in Bots : c # b => bot'[c].doing = "idle")
  BY OthersIdle DEF DayInv
<1>2. DaysSound' /\ UsedToday' = UsedToday /\ Possible' = Possible
  BY DEF DayInv, DaysSound, UsedToday, Possible
<1>3. \A c \in Bots : c # b /\ bot'[c].doing = "idle" => PhaseOK(bot[c])'
  BY IdleIsFine
<1>5. UsedToday' = OnDay(row.counted, deal, today)'
  BY <1>2 DEF DayInv, OnDay
<1>6. \A d \in Nat : OnDay(Possible, deal, d)' = OnDay(Possible, deal, d)
  BY <1>2 DEF OnDay
<1>7. Single' => AloneSound'
  BY <1>1, <1>3, <1>6 DEF DayInv, AloneSound
<1> QED
  BY <1>1, <1>2, <1>5, <1>7 DEF DayInv

(* Each step keeps it: those that only move a bot along,                   *)
LEMMA QuietDays ==
  ASSUME IInv, DayInv, NEW b \in Bots, Look(b) \/ Settle(b) \/ Price(b) \/ Confirm(b) \/ Stop(b)
  PROVE  DayInv'
<1>1. Typed /\ BotsSound
  BY DEF IInv
<1>2. UNCHANGED <<row, deal, today, blind>>
  BY DEF Look, Settle, Price, Confirm, Stop, OnlyBot
<1>3. bot[b].doing # "idle" \/ ran' = ran \cup {b}
  BY DEF Look, Settle, Price, Confirm, Stop, Doing
<1>4. ran' \in {ran, ran \cup {b}}
  BY DEF Look, Settle, Price, Confirm, Stop, OnlyBot
<1>5. PICK e : bot' = [bot EXCEPT ![b] = e]
  BY DEF Look, Settle, Price, Confirm, Stop, OnlyBot, Becomes, Rests
<1>6. \A c \in Bots : c # b => bot'[c] = bot[c]
  BY <1>1, <1>5 DEF Typed
<1>7. row.pending \in Intents /\ bot[b] \in [doing : Doings, intent : Intents, left : Nat]
  BY <1>1 DEF Typed
<1>8. Single => PhaseOK(bot[b])
  BY DEF DayInv, AloneSound
<1>9. CASE Look(b)
  <2>1. \/ row.pending = NoPending /\ bot'[b].doing = "pricing"
        \/ bot'[b].doing = "settling" /\ bot'[b].intent = row.pending
    BY <1>1, <1>9 DEF Look, Resting, Typed
  <2>2. PhaseOK(bot[b])'
    BY <1>2, <2>1 DEF PhaseOK
  <2> QED
    BY <1>2, <1>3, <1>4, <1>6, <2>2, RowStays
<1>10. CASE Settle(b)
  <2>1. /\ bot'[b].doing \in {"counting", "dropping", "idle"}
        /\ bot'[b].doing # "idle" => bot'[b].intent = bot[b].intent
        /\ bot[b].doing = "settling"
    BY <1>1, <1>7, <1>10 DEF Settle, Becomes, Rests, Resting, Doing, Typed
  <2>2. Single => PhaseOK(bot[b])'
    BY <1>2, <1>8, <2>1 DEF PhaseOK
  <2> QED
    BY <1>2, <1>3, <1>4, <1>6, <2>2, RowStays
<1>11. CASE Price(b)
  <2>1. \/ bot'[b].doing = "idle"
        \/ bot'[b].doing = "claiming" /\ bot'[b].left = Left
    BY <1>1, <1>7, <1>11 DEF Price, Rests, Resting, Typed
  <2>2. bot[b].doing = "pricing"
    BY <1>11 DEF Price, Doing
  <2>3. Left = MaxDay - UsedToday /\ UsedToday \in Nat
    BY <1>1 DEF Left, UsedToday, Typed
  <2>4. UsedToday = OnDay(row.counted, deal, today)
    BY DEF DayInv
  <2>5. Left + OnDay(row.counted, deal, today) <= MaxDay
    BY <2>3, <2>4, FeeConstants
  <2>6. OnDay(row.counted, deal, today)' = OnDay(row.counted, deal, today)
    BY <1>2 DEF OnDay
  <2>7. Single => PhaseOK(bot[b])'
    BY <1>2, <1>8, <2>1, <2>2, <2>5, <2>6 DEF PhaseOK
  <2> QED
    BY <1>2, <1>3, <1>4, <1>6, <2>7, RowStays
<1>12. CASE Confirm(b)
  <2>1. bot[b].doing = "confirming" /\ bot'[b].doing = "booking" /\ bot'[b].intent = bot[b].intent
    BY <1>1, <1>7, <1>12 DEF Confirm, Doing, Becomes, Typed
  <2>2. Single => PhaseOK(bot[b])'
    BY <1>2, <1>8, <2>1 DEF PhaseOK
  <2> QED
    BY <1>2, <1>3, <1>4, <1>6, <2>2, RowStays
<1>13. CASE Stop(b)
  <2>1. bot'[b].doing = "idle"
    BY <1>1, <1>13 DEF Stop, Rests, Resting, Typed
  <2>2. PhaseOK(bot[b])'
    BY <2>1, IdleIsFine
  <2> QED
    BY <1>2, <1>3, <1>4, <1>6, <2>2, RowStays
<1> QED
  BY <1>9, <1>10, <1>11, <1>12, <1>13

(* a fee reserved,                                                         *)
LEMMA ReserveDays == ASSUME IInv, DayInv, NEW b \in Bots, Reserve(b) PROVE DayInv'
<1>1. /\ Typed /\ bot[b] \in [doing : Doings, intent : Intents, left : Nat]
      /\ bot[b].doing = "reserving"
  BY DEF IInv, Typed, Reserve, Doing
<1>2. UNCHANGED <<row, deal, today, blind>> /\ ran' = ran
  BY DEF Reserve
<1>3. \/ bot'[b].doing = "signing" /\ bot'[b].intent = bot[b].intent
      \/ bot'[b].doing = "idle"
  BY <1>1 DEF Reserve, Becomes, Rests, Resting, Typed
<1>4. \A c \in Bots : c # b => bot'[c] = bot[c]
  BY <1>1 DEF Reserve, Becomes, Rests, Typed
<1>5. Single => PhaseOK(bot[b])'
  BY <1>1, <1>2, <1>3 DEF PhaseOK, DayInv, AloneSound
<1> QED
  BY <1>1, <1>2, <1>4, <1>5, RowStays

(* a trade sent,                                                           *)
LEMMA SendDays == ASSUME IInv, DayInv, NEW b \in Bots, Send(b) PROVE DayInv'
<1>1. /\ Typed /\ bot[b] \in [doing : Doings, intent : Intents, left : Nat]
      /\ bot[b].doing = "sending"
  BY DEF IInv, Typed, Send, Doing
<1>2. UNCHANGED <<row, deal, today, blind>> /\ ran' = ran
  BY DEF Send
<1>3. bot'[b].doing = "confirming" /\ bot'[b].intent = bot[b].intent
  BY <1>1 DEF Send, Becomes, Typed
<1>4. \A c \in Bots : c # b => bot'[c] = bot[c]
  BY <1>1 DEF Send, Becomes, Typed
<1>5. Single => PhaseOK(bot[b])'
  BY <1>1, <1>2, <1>3 DEF PhaseOK, DayInv, AloneSound
<1> QED
  BY <1>1, <1>2, <1>4, <1>5, RowStays

(* Steps in which no bot moves, nor the row, nor the day.                  *)
LEMMA NobodyDays ==
  ASSUME DayInv, UNCHANGED <<row, deal, today, blind, bot, ran>>
  PROVE  DayInv'
<1>1. RanSound' /\ DaysSound' /\ UsedToday' = UsedToday /\ Possible' = Possible /\ (Single' <=> Single)
  BY DEF DayInv, RanSound, DaysSound, UsedToday, Possible, Single
<1>2. OnDay(row.counted, deal, today)' = OnDay(row.counted, deal, today)
  BY DEF OnDay
<1>3. \A d \in Nat : OnDay(Possible, deal, d)' = OnDay(Possible, deal, d)
  BY <1>1 DEF OnDay
<1>4. \A b \in Bots : PhaseOK(bot[b]) => PhaseOK(bot[b])'
  BY <1>2 DEF PhaseOK
<1>5. AloneSound => AloneSound'
  BY <1>3, <1>4 DEF AloneSound
<1> QED
  BY <1>1, <1>2, <1>5 DEF DayInv

(* Midnight: nothing was traded for the new day yet.                       *)
LEMMA NewDayDays == ASSUME IInv, DayInv, NewDay PROVE DayInv'
<1>1. /\ UNCHANGED <<row, deal, blind, bot, ran>> /\ today' = today + 1 /\ today \in Nat
      /\ deal \in Deals /\ row \in Rows
  BY DEF NewDay, IInv, Typed, Deals, Rows
<1>2. /\ row.day <= today /\ row.day \in Nat
      /\ \A s \in Sends : deal[s].day <= today /\ deal[s].day \in Nat
  BY <1>1 DEF DayInv, DaysSound, Deals, Rows
<1>3. DaysSound'
  BY <1>1, <1>2 DEF DaysSound
<1>4. RanSound' /\ Possible' = Possible /\ (Single' <=> Single)
  BY <1>1 DEF DayInv, RanSound, Possible, Single
<1>5. OnDay(row.counted, deal, today + 1) = 0
  <2>1. \A s \in Sends : s \in row.counted => deal[s].day # today + 1
    BY <1>1, <1>2
  <2> QED
    BY <2>1, OnDayNone
<1>6. OnDay(row.counted, deal, today)' = 0
  BY <1>1, <1>5 DEF OnDay
<1>7. UsedToday' = 0
  BY <1>1, <1>2 DEF UsedToday
<1>8. OnDay(row.counted, deal, today) \in Nat
  BY <1>1, OnDayIsNat
<1>9. ASSUME NEW b \in Bots, PhaseOK(bot[b]) PROVE PhaseOK(bot[b])'
  <2>1. bot[b].left \in Nat
    BY DEF IInv, Typed
  <2>2. bot[b].doing = "claiming" => bot[b].left <= MaxDay
    BY <1>8, <1>9, <2>1, FeeConstants DEF PhaseOK
  <2> QED
    BY <1>1, <1>6, <1>9, <2>1, <2>2, FeeConstants DEF PhaseOK
<1>10. \A d \in Nat : OnDay(Possible, deal, d)' = OnDay(Possible, deal, d)
  BY <1>1, <1>4 DEF OnDay
<1>11. AloneSound => AloneSound'
  BY <1>1, <1>9, <1>10 DEF AloneSound
<1> QED
  BY <1>3, <1>4, <1>6, <1>7, <1>11 DEF DayInv

(* Steps that change the row: what is to show of it.                       *)
LEMMA RowMoves ==
  ASSUME IInv, DayInv, NEW b \in Bots, bot[b].doing # "idle", UNCHANGED <<today, ran>>,
         \A c \in Bots : c # b => bot'[c] = bot[c],
         DaysSound', UsedToday' = OnDay(row.counted, deal, today)',
         Single => /\ blind' = {} /\ PhaseOK(bot[b])'
                   /\ \A d \in Nat : OnDay(Possible, deal, d)' <= MaxDay
  PROVE  DayInv'
<1>1. RanSound' /\ (Single' => Single /\ \A c \in Bots : c # b => bot'[c].doing = "idle")
  BY OthersIdle DEF DayInv
<1>2. \A c \in Bots : c # b /\ bot'[c].doing = "idle" => PhaseOK(bot[c])'
  BY IdleIsFine
<1>3. Single' => AloneSound'
  BY <1>1, <1>2 DEF AloneSound
<1> QED
  BY <1>1, <1>3 DEF DayInv

(* ... and when neither what is counted nor what trades say changes.       *)
LEMMA SlotMoves ==
  ASSUME IInv, DayInv, NEW b \in Bots, bot[b].doing # "idle", UNCHANGED <<today, ran, deal>>,
         \A c \in Bots : c # b => bot'[c] = bot[c],
         row'.counted = row.counted,
         \/ row'.day = row.day /\ row'.used = row.used
         \/ row'.day = today /\ row'.used = UsedToday,
         Single => /\ blind' = {} /\ PhaseOK(bot[b])'
                   /\ row'.pending.trade \in {row.pending.trade, NoTrade}
  PROVE  DayInv'
<1>1. deal \in Deals /\ today \in Nat /\ row \in Rows
  BY DEF IInv, Typed, Deals, Rows
<1>2. DaysSound'
  BY <1>1 DEF DayInv, DaysSound
<1>3. UsedToday' = UsedToday
  BY DEF UsedToday
<1>4. OnDay(row.counted, deal, today)' = OnDay(row.counted, deal, today)
  BY DEF OnDay
<1>5. ASSUME Single, NEW d \in Nat PROVE OnDay(Possible, deal, d)' <= MaxDay
  <2>1. OnDay(Possible, deal, d)' = OnDay(Possible', deal, d)
    BY DEF OnDay
  <2>2. \A s \in Sends : s \in Possible' => s \in Possible
    BY <1>5, FeeConstants DEF Possible
  <2>3. OnDay(Possible', deal, d) <= OnDay(Possible, deal, d)
    BY <1>1, <2>2, OnDayLess
  <2>4. OnDay(Possible', deal, d) \in Nat /\ OnDay(Possible, deal, d) \in Nat
    BY <1>1, OnDayIsNat
  <2>5. OnDay(Possible, deal, d) <= MaxDay
    BY <1>5 DEF DayInv, AloneSound
  <2> QED
    BY <2>1, <2>3, <2>4, <2>5, FeeConstants
<1> QED
  BY <1>2, <1>3, <1>4, <1>5, RowMoves DEF DayInv

(* signed,                                                                 *)
LEMMA SignDays == ASSUME IInv, DayInv, NEW b \in Bots, Sign(b) PROVE DayInv'
<1> DEFINE s == bot[b].intent.trade
<1>1. /\ Typed /\ bot[b] \in [doing : Doings, intent : Intents, left : Nat]
      /\ bot[b].doing = "signing"
  BY DEF IInv, Typed, Sign, Doing
<1>2. UNCHANGED <<deal, today, ran, blind>>
  BY DEF Sign
<1>3. Single => blind = {} /\ PhaseOK(bot[b])
  BY DEF DayInv, AloneSound
<1>4. CASE row.pending.trade = s
  <2>1. /\ row' = [Fresh(row) EXCEPT !.pending = [trade |-> s, signed |-> TRUE]]
        /\ bot' = [bot EXCEPT ![b].doing = "sending"]
    BY <1>4 DEF Sign, Becomes
  <2>2. /\ row'.counted = row.counted /\ row'.day = today /\ row'.used = UsedToday
        /\ row'.pending.trade = s
    BY <1>1, <2>1, FreshIs DEF Rows
  <2>3. bot'[b].doing = "sending" /\ bot'[b].intent = bot[b].intent
        /\ \A c \in Bots : c # b => bot'[c] = bot[c]
    BY <1>1, <2>1 DEF Typed
  <2>4. PhaseOK(bot[b])'
    BY <2>2, <2>3 DEF PhaseOK
  <2> QED
    BY <1>1, <1>2, <1>3, <1>4, <2>2, <2>3, <2>4, SlotMoves
<1>5. CASE row.pending.trade # s
  <2>1. row' = row /\ Rests(b)
    BY <1>5 DEF Sign
  <2>2. bot'[b].doing = "idle" /\ \A c \in Bots : c # b => bot'[c] = bot[c]
    BY <1>1, <2>1 DEF Rests, Resting, Typed
  <2>3. PhaseOK(bot[b])'
    BY <2>2, IdleIsFine
  <2> QED
    BY <1>1, <1>2, <1>3, <2>1, <2>2, <2>3, SlotMoves
<1> QED
  BY <1>4, <1>5

(* dropped,                                                                *)
LEMMA DropDays == ASSUME IInv, DayInv, NEW b \in Bots, Drop(b) PROVE DayInv'
<1> DEFINE i == bot[b].intent
<1>1. /\ Typed /\ bot[b] \in [doing : Doings, intent : Intents, left : Nat]
      /\ bot[b].doing = "dropping"
  BY DEF IInv, Typed, Drop, Doing
<1>2. /\ UNCHANGED <<deal, today, ran>>
      /\ row' = IF IsThis(row, i) THEN [Fresh(row) EXCEPT !.pending = NoPending] ELSE Fresh(row)
      /\ blind' = IF IsThis(row, i) /\ row.pending # i THEN blind \cup {i.trade} ELSE blind
      /\ bot' = [bot EXCEPT ![b].doing = "pricing"]
  BY DEF Drop, Becomes
<1>3. /\ row'.counted = row.counted /\ row'.day = today /\ row'.used = UsedToday
      /\ row'.pending = IF IsThis(row, i) THEN NoPending ELSE row.pending
  BY <1>1, <1>2, FreshIs DEF Rows
<1>4. bot'[b].doing = "pricing" /\ \A c \in Bots : c # b => bot'[c] = bot[c]
  BY <1>1, <1>2 DEF Typed
<1>5. ASSUME Single
      PROVE  /\ blind' = {} /\ PhaseOK(bot[b])'
             /\ row'.pending.trade \in {row.pending.trade, NoTrade}
  <2>1. blind = {} /\ i = row.pending
    BY <1>1, <1>5 DEF DayInv, AloneSound, PhaseOK
  <2>2. IsThis(row, i)
    BY <2>1 DEF IsThis
  <2>3. row'.pending = NoPending /\ blind' = {}
    BY <1>2, <1>3, <2>1, <2>2
  <2> QED
    BY <1>4, <2>3 DEF PhaseOK, NoPending
<1> QED
  BY <1>1, <1>2, <1>3, <1>4, <1>5, SlotMoves

(* (the lesser of two)                                                     *)
LEMMA LesserIs == ASSUME NEW x \in Nat, NEW y \in Nat PROVE Min({x, y}) <= y
<1>1. \E m \in {x, y} : \A n \in {x, y} : m <= n
  <2>1. CASE x <= y
    BY <2>1
  <2>2. CASE y <= x
    BY <2>2
  <2> QED
    BY <2>1, <2>2
<1> QED
  BY <1>1 DEF Min

(* a trade claimed of what is left of the day,                             *)
LEMMA ClaimDays == ASSUME IInv, DayInv, NEW b \in Bots, Claim(b) PROVE DayInv'
<1>1. /\ Typed /\ bot[b] \in [doing : Doings, intent : Intents, left : Nat]
      /\ bot[b].doing = "claiming"
      /\ deal \in Deals /\ today \in Nat
  BY DEF IInv, Typed, Claim, Doing, Deals
<1>2. UNCHANGED <<today, ran, blind>>
  BY DEF Claim
<1>3. PICK s \in NextOf({unused \in Sends : deal[unused] = NoDeal}) :
        IF row.pending.trade = NoTrade
        THEN /\ row' = [Fresh(row) EXCEPT !.pending = [trade |-> s, signed |-> FALSE]]
             /\ deal' = [deal EXCEPT ![s] = [size |-> Min({MaxTrade, bot[b].left}), day |-> today]]
             /\ bot' = [bot EXCEPT ![b].doing = "reserving", ![b].intent = [trade |-> s, signed |-> FALSE]]
        ELSE row' = Fresh(row) /\ deal' = deal /\ Rests(b)
  BY DEF Claim
<1>4. s \in Sends /\ deal[s] = NoDeal /\ s # NoTrade
  BY <1>3, NextIsOne, FeeConstants
<1>5. Single => blind = {} /\ PhaseOK(bot[b])
  BY DEF DayInv, AloneSound
<1>6. CASE row.pending.trade # NoTrade
  <2>1. row' = Fresh(row) /\ deal' = deal /\ Rests(b)
    BY <1>3, <1>6
  <2>2. bot'[b].doing = "idle" /\ \A c \in Bots : c # b => bot'[c] = bot[c]
    BY <1>1, <2>1 DEF Rests, Resting, Typed
  <2>3. PhaseOK(bot[b])'
    BY <2>2, IdleIsFine
  <2>4. /\ row'.counted = row.counted /\ row'.day = today /\ row'.used = UsedToday
        /\ row'.pending.trade = row.pending.trade
    BY <1>1, <2>1, FreshIs
  <2> QED
    BY <1>1, <1>2, <1>5, <2>1, <2>2, <2>3, <2>4, SlotMoves
<1>7. CASE row.pending.trade = NoTrade
  <2> DEFINE mine == [trade |-> s, signed |-> FALSE]
             size == Min({MaxTrade, bot[b].left})
             deal2 == [deal EXCEPT ![s] = [size |-> size, day |-> today]]
  <2>1. /\ row' = [Fresh(row) EXCEPT !.pending = mine] /\ deal' = deal2
        /\ bot' = [bot EXCEPT ![b].doing = "reserving", ![b].intent = mine]
    BY <1>3, <1>7
  <2>2. /\ row'.counted = row.counted /\ row'.day = today /\ row'.used = UsedToday
        /\ row'.pending = mine /\ mine.trade = s
    BY <1>1, <2>1, FreshIs DEF Rows
  <2>3. /\ bot'[b].doing = "reserving" /\ bot'[b].intent = mine
        /\ \A c \in Bots : c # b => bot'[c] = bot[c]
    BY <1>1, <2>1 DEF Typed
  <2>4. size \in Nat /\ size <= bot[b].left /\ bot[b].left \in Nat
    BY <1>1, LesserIs, LesserOfTwo, FeeConstants
  <2> HIDE DEF mine, size
  <2>5. /\ deal2 \in Deals /\ deal2[s].size = size /\ deal2[s].day = today
        /\ \A t \in Sends : t # s => deal2[t] = deal[t]
    BY <1>1, <1>4, <2>4 DEF Deals
  <2> HIDE DEF deal2
  <2>6. s \notin row.counted
    <3>1. s \in row.counted => outcome[s] = "ok"
      BY DEF IInv, RowSound
    <3>2. IsSigned(s) => deal[s] # NoDeal
      BY <1>4 DEF IInv, RowSound
    <3>3. outcome[s] # "none" => IsSigned(s)
      BY <1>4 DEF IInv, ChainSound, Dated
    <3> QED
      BY <1>4, <3>1, <3>2, <3>3
  <2>7. DaysSound'
    BY <1>1, <1>2, <2>1, <2>2, <2>5 DEF DayInv, DaysSound
  <2>8. \A d : OnDay(row.counted, deal2, d) = OnDay(row.counted, deal, d)
    BY <1>1, <2>5, <2>6, OnDaySame
  <2>9. UsedToday' = OnDay(row.counted, deal, today)'
    <3>1. UsedToday' = UsedToday
      BY <1>2, <2>2 DEF UsedToday
    <3>2. OnDay(row.counted, deal, today)' = OnDay(row.counted, deal2, today)
      BY <1>2, <2>1, <2>2 DEF OnDay
    <3> QED
      BY <2>8, <3>1, <3>2 DEF DayInv
  <2>10. PhaseOK(bot[b])'
    BY <2>2, <2>3 DEF PhaseOK
  <2>11. ASSUME Single, NEW d \in Nat PROVE OnDay(Possible, deal, d)' <= MaxDay
    <3>1. OnDay(Possible, deal, d)' = OnDay(Possible', deal2, d)
      BY <2>1 DEF OnDay
    <3>2. OnDay(Possible', deal2, d) = OnDay(row.counted \cup {s}, deal2, d)
      <4>1. \A t \in Sends : t \in Possible' <=> t \in row.counted \cup {s}
        BY <2>2 DEF Possible
      <4> QED
        BY <2>5, <4>1, OnDaySame
    <3>3. OnDay(row.counted \cup {s}, deal2, d)
            = OnDay(row.counted, deal2, d) + IF deal2[s].day = d THEN deal2[s].size ELSE 0
      BY <1>4, <2>5, <2>6, OnDayMore
    <3>4. OnDay(row.counted, deal, d) = OnDay(Possible, deal, d)
      <4>1. \A t \in Sends : t \in row.counted <=> t \in Possible
        BY <1>7, FeeConstants DEF Possible
      <4> QED
        BY <1>1, <4>1, OnDaySame
    <3>5. OnDay(Possible, deal, d) <= MaxDay
      BY <2>11 DEF DayInv, AloneSound
    <3>6. bot[b].left + OnDay(row.counted, deal, today) <= MaxDay
      BY <1>1, <1>5, <2>11 DEF PhaseOK
    <3>7. OnDay(row.counted, deal, d) \in Nat /\ OnDay(row.counted, deal, today) \in Nat
      BY <1>1, OnDayIsNat
    <3>8. CASE d = today
      <4>1. OnDay(Possible, deal, d)' = OnDay(row.counted, deal, today) + size
        BY <2>5, <2>8, <3>1, <3>2, <3>3, <3>8
      <4> QED
        BY <2>4, <3>6, <3>7, <4>1, FeeConstants
    <3>9. CASE d # today
      <4>1. OnDay(Possible, deal, d)' = OnDay(row.counted, deal, d)
        BY <2>5, <2>8, <3>1, <3>2, <3>3, <3>7, <3>9
      <4> QED
        BY <3>4, <3>5, <4>1
    <3> QED
      BY <3>8, <3>9
  <2> QED
    BY <1>1, <1>2, <1>5, <2>3, <2>7, <2>9, <2>10, <2>11, RowMoves
<1> QED
  BY <1>6, <1>7

(* counted,                                                                *)
LEMMA CountDays == ASSUME IInv, DayInv, NEW b \in Bots, Count(b) PROVE DayInv'
<1> DEFINE s == bot[b].intent.trade
           more == IF deal[s].day = today THEN deal[s].size ELSE 0
           f == Fresh(row)
           tally == IF s \in f.counted THEN f
                    ELSE [f EXCEPT !.counted = @ \cup {s},
                                   !.used = IF deal[s].day = f.day THEN @ + deal[s].size ELSE @]
<1>1. /\ Typed /\ bot[b] \in [doing : Doings, intent : Intents, left : Nat]
      /\ bot[b].doing \in {"counting", "booking"}
      /\ deal \in Deals /\ today \in Nat
  BY DEF IInv, Typed, Count, Doing, Deals
<1>2. /\ row' = IF f.pending.trade = s THEN [tally EXCEPT !.pending = NoPending] ELSE tally
      /\ UNCHANGED <<deal, today, ran, blind>>
  BY DEF Count, Counted
<1>3. s \in Sends
  BY <1>1 DEF IInv, BotsSound, IntentOK, Intents
<1>4. /\ bot[b].doing = "counting" => bot'[b].doing = "pricing"
      /\ bot[b].doing = "booking" => bot'[b].doing = "idle"
      /\ \A c \in Bots : c # b => bot'[c] = bot[c]
  BY <1>1 DEF Count, Doing, Becomes, Rests, Resting, Typed
<1> HIDE DEF s
<1>5. /\ f \in Rows /\ f.pending = row.pending /\ f.counted = row.counted /\ f.day = today
      /\ f.used = UsedToday
  BY <1>1, FreshIs
<1> HIDE DEF f
<1>6. deal[s].size \in Nat /\ f.used \in Nat /\ more \in Nat
  BY <1>1, <1>3, <1>5 DEF Deals, Rows
<1>7. /\ tally \in Rows /\ tally.pending = row.pending /\ tally.day = today
      /\ tally.counted = row.counted \cup {s}
      /\ tally.used = IF s \in row.counted THEN UsedToday ELSE UsedToday + more
  <2>1. CASE s \in f.counted
    <3>1. tally = f
      BY <2>1
    <3>2. row.counted = row.counted \cup {s}
      BY <1>5, <2>1
    <3> HIDE DEF tally, more
    <3> QED
      BY <1>5, <2>1, <3>1, <3>2
  <2>2. CASE s \notin f.counted
    <3> DEFINE sum == IF deal[s].day = f.day THEN f.used + deal[s].size ELSE f.used
    <3>1. tally = [f EXCEPT !.counted = f.counted \cup {s}, !.used = sum]
      BY <2>2
    <3>2. sum \in Nat /\ sum = f.used + more
      BY <1>5, <1>6
    <3> HIDE DEF sum, tally, more
    <3>3. f.counted \cup {s} \in SUBSET Sends
      BY <1>3, <1>5 DEF Rows
    <3> QED
      BY <1>5, <2>2, <3>1, <3>2, <3>3 DEF Rows
  <2> QED
    BY <2>1, <2>2
<1> HIDE DEF tally
<1>8. /\ row'.counted = row.counted \cup {s} /\ row'.day = today /\ row'.used = tally.used
      /\ row'.pending = IF row.pending.trade = s THEN NoPending ELSE row.pending
  BY <1>2, <1>5, <1>7 DEF Rows
<1>9. DaysSound'
  BY <1>1, <1>2, <1>8 DEF DayInv, DaysSound
<1>10. UsedToday' = OnDay(row.counted, deal, today)'
  <2>1. UsedToday' = tally.used
    BY <1>2, <1>8 DEF UsedToday
  <2>2. OnDay(row.counted, deal, today)' = OnDay(row.counted \cup {s}, deal, today)
    BY <1>2, <1>8 DEF OnDay
  <2>3. UsedToday = OnDay(row.counted, deal, today)
    BY DEF DayInv
  <2>4. CASE s \in row.counted
    <3>1. row.counted \cup {s} = row.counted
      BY <2>4
    <3> QED
      BY <1>7, <2>1, <2>2, <2>3, <2>4, <3>1
  <2>5. CASE s \notin row.counted
    <3>1. OnDay(row.counted \cup {s}, deal, today) = OnDay(row.counted, deal, today) + more
      <4>1. OnDay(row.counted \cup {s}, deal, today)
              = OnDay(row.counted, deal, today) + IF deal[s].day = today THEN deal[s].size ELSE 0
        <5>1. deal \in Deals /\ s \in Sends /\ s \notin row.counted
          BY <1>1, <1>3, <2>5
        <5> HIDE DEF more
        <5> QED
          BY <5>1, OnDayMore
      <4> QED
        BY <4>1
    <3> QED
      BY <1>7, <2>1, <2>2, <2>3, <2>5, <3>1
  <2> QED
    BY <2>4, <2>5
<1>11. ASSUME Single
       PROVE  /\ blind' = {} /\ PhaseOK(bot[b])'
              /\ \A d \in Nat : OnDay(Possible, deal, d)' <= MaxDay
  <2>1. AloneSound /\ PhaseOK(bot[b])
    BY <1>11 DEF DayInv, AloneSound
  <2>2. row.pending.trade = s
    BY <1>1, <2>1 DEF PhaseOK, s
  <2>3. row'.pending = NoPending
    BY <1>8, <2>2
  <2>4. PhaseOK(bot[b])'
    BY <1>1, <1>4, <2>3 DEF PhaseOK
  <2>5. ASSUME NEW d \in Nat PROVE OnDay(Possible, deal, d)' <= MaxDay
    <3>1. OnDay(Possible, deal, d)' = OnDay(Possible', deal, d)
      BY <1>2 DEF OnDay
    <3>2. \A t \in Sends : t \in Possible' <=> t \in Possible
      <4>1. \A t \in Sends : t # NoPending.trade
        BY FeeConstants DEF NoPending
      <4> QED
        BY <1>8, <2>2, <2>3, <4>1 DEF Possible
    <3>3. OnDay(Possible', deal, d) = OnDay(Possible, deal, d)
      BY <1>1, <3>2, OnDaySame
    <3> QED
      BY <2>1, <3>1, <3>3 DEF AloneSound
  <2> QED
    BY <1>2, <2>1, <2>4, <2>5 DEF AloneSound
<1> QED
  BY <1>1, <1>2, <1>4, <1>9, <1>10, <1>11, RowMoves

(* and so every step.                                                      *)
LEMMA NextDays == IInv /\ DayInv /\ [TradesNext]_<<landingVars, tradesVars>> => DayInv'
<1> SUFFICES ASSUME IInv, DayInv, [TradesNext]_<<landingVars, tradesVars>> PROVE DayInv'
  OBVIOUS
<1>1. ASSUME NEW b \in Bots,
             \/ Look(b) \/ Settle(b) \/ Drop(b) \/ Count(b) \/ Price(b) \/ Claim(b)
             \/ Reserve(b) \/ Sign(b) \/ Send(b) \/ Confirm(b) \/ Stop(b)
      PROVE  DayInv'
  BY <1>1, QuietDays, DropDays, CountDays, ClaimDays, ReserveDays, SignDays, SendDays
<1>2. CASE ReconcileFee \/ Decide
  BY <1>2, NobodyDays DEF ReconcileFee, Decide
<1>3. CASE NewDay
  BY <1>3, NewDayDays
<1>4. CASE UNCHANGED tradesVars
  BY <1>4, NobodyDays DEF tradesVars
<1> QED
  BY <1>1, <1>2, <1>3, <1>4 DEF TradesNext

(* The bounds of the model.                                                *)
Bounded ==
  /\ height <= MaxHeight /\ today <= MaxDays
  /\ \A s \in Sends : deal[s].size <= MaxTrade

(* They are kept.                                                          *)
LEMMA NextBounded == IInv /\ Bounded /\ [TradesNext]_<<landingVars, tradesVars>> => Bounded'
<1> SUFFICES ASSUME IInv, Bounded, [TradesNext]_<<landingVars, tradesVars>> PROVE Bounded'
  OBVIOUS
<1>1. ASSUME NEW b \in Bots,
             \/ Look(b) \/ Settle(b) \/ Drop(b) \/ Count(b) \/ Price(b)
             \/ Reserve(b) \/ Sign(b) \/ Send(b) \/ Confirm(b) \/ Stop(b)
      PROVE  Bounded'
  <2>1. height' = height /\ today' = today /\ deal' = deal
    BY <1>1 DEF Look, Settle, Drop, Count, Price, Reserve, Sign, Send, Confirm, Stop, OnlyBot, SignSend,
                Broadcast, landingVars
  <2> QED
    BY <2>1 DEF Bounded
<1>2. ASSUME NEW b \in Bots, Claim(b) PROVE Bounded'
  <2>1. height' = height /\ today' = today
    BY <1>2 DEF Claim, landingVars
  <2>2. PICK s : deal' = deal \/ deal' = [deal EXCEPT ![s] = [size |-> Min({MaxTrade, bot[b].left}), day |-> today]]
    BY <1>2 DEF Claim
  <2>3. Min({MaxTrade, bot[b].left}) <= MaxTrade
    <3>1. bot[b].left \in Nat
      BY DEF IInv, Typed
    <3>2. {MaxTrade, bot[b].left} = {bot[b].left, MaxTrade}
      OBVIOUS
    <3> QED
      BY <3>1, <3>2, LesserIs, FeeConstants
  <2>4. deal \in [Sends -> [size : Nat, day : Nat]]
    BY DEF IInv, Typed
  <2>5. \A t \in Sends : deal'[t] = deal[t] \/ deal'[t].size = Min({MaxTrade, bot[b].left})
    BY <2>2, <2>4
  <2> QED
    BY <2>1, <2>3, <2>5 DEF Bounded
<1>3. CASE ReconcileFee \/ Decide \/ UNCHANGED <<landingVars, tradesVars>>
  BY <1>3 DEF ReconcileFee, Decide, landingVars, tradesVars, Bounded
<1>4. CASE NewDay
  BY <1>4, FeeConstants DEF NewDay, landingVars, Bounded, IInv, Typed
<1>5. CASE ChainStep /\ UNCHANGED tradesVars
  <2>1. height' <= MaxHeight
    BY <1>5, LandingAssumption DEF ChainStep, Block, Finalize, Bounded, IInv, ChainSound, ChainTyped
  <2> QED
    BY <1>5, <2>1 DEF tradesVars, Bounded
<1> QED
  BY <1>1, <1>2, <1>3, <1>4, <1>5 DEF TradesNext

(* The types are those the run checks.                                     *)
LEMMA TypesHold == IInv /\ FeeInv /\ DayInv /\ Bounded => TradesTypeOK
<1> SUFFICES ASSUME IInv, FeeInv, DayInv, Bounded PROVE TradesTypeOK
  OBVIOUS
<1>1. LandingTypeOK
  BY LandingAssumption DEF IInv, ChainSound, ChainTyped, Bounded, LandingTypeOK
<1>2. /\ row \in [pending : Intents, counted : SUBSET Sends, day : Nat, used : Nat]
      /\ deal \in [Sends -> [size : Nat, day : Nat]] /\ today \in Nat
  BY DEF IInv, Typed
<1>3. /\ row.day <= today /\ today <= MaxDays
      /\ \A s \in Sends : deal[s].day <= today /\ deal[s].size <= MaxTrade
  BY DEF DayInv, DaysSound, Bounded
<1>4. row.day \in 0..MaxDays
  BY <1>2, <1>3, FeeConstants
<1>5. row \in [pending : Intents, counted : SUBSET Sends, day : 0..MaxDays, used : Nat]
  BY <1>2, <1>4
<1>6. deal \in [Sends -> [size : 0..MaxTrade, day : 0..MaxDays]]
  <2>1. \A s \in Sends : deal[s] \in [size : Nat, day : Nat]
    BY <1>2
  <2>2. \A s \in Sends : deal[s] \in [size : 0..MaxTrade, day : 0..MaxDays]
    <3> SUFFICES ASSUME NEW s \in Sends PROVE deal[s] \in [size : 0..MaxTrade, day : 0..MaxDays]
      OBVIOUS
    <3>1. /\ deal[s].size \in Nat /\ deal[s].day \in Nat
          /\ deal[s] = [size |-> deal[s].size, day |-> deal[s].day]
      BY <2>1
    <3>2. deal[s].size \in 0..MaxTrade /\ deal[s].day \in 0..MaxDays
      BY <1>2, <1>3, <3>1, FeeConstants
    <3> QED
      BY <3>1, <3>2
  <2> QED
    BY <1>2, <2>2
<1>7. fee \in [Sends -> 0..FeeEstimate]
  BY FeeConstants DEF FeeInv
<1>8. /\ decided \in [Sends -> {"none", "landed", "dropped"}] /\ today \in 0..MaxDays
      /\ ran \subseteq Bots /\ blind \subseteq Sends
  BY <1>2, <1>3, FeeConstants DEF IInv, Typed, DayInv, RanSound
<1> QED
  BY <1>1, <1>5, <1>6, <1>7, <1>8 DEF TradesTypeOK, Intents

(* All of it.                                                              *)
LimitsInv == IInv /\ FeeInv /\ DayInv /\ Bounded

(* Fees held never exceed the cap, whatever bots crash or time out, and one*)
(* bot alone never trades more than the day's limit (FeeCap.reserve,       *)
(* settleFee, check).                                                      *)
THEOREM LimitsAlwaysKept == TradesSpec => []LimitsKept
<1>1. TradesInit => LimitsInv
  <2>1. TradesInit => Bounded
    BY FeeConstants, LandingAssumption DEF TradesInit, LandingInit, Bounded, NoDeal
  <2> QED
    BY <2>1, TradesInitIInv, InitFees, InitDays DEF LimitsInv
<1>2. LimitsInv /\ [TradesNext]_<<landingVars, tradesVars>> => LimitsInv'
  BY NextKeeps, NextFees, NextDays, NextBounded DEF LimitsInv
<1>3. LimitsInv => LimitsKept
  BY TypesHold, FeesWithin, AloneWithin DEF LimitsInv, LimitsKept
<1> QED
  BY <1>1, <1>2, <1>3, PTL DEF TradesSpec

=============================================================================
