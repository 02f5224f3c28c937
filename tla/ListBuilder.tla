----------------------------- MODULE ListBuilder -----------------------------
(***************************************************************************)
(* The site's crank building and publishing rewards lists, against the     *)
(* vault of RewardLists.  A pass brings vault-list.json in line with the   *)
(* chain (syncList), and when no list waits reads the vault, the paid      *)
(* records and the balances one after the other, composes the next list,   *)
(* saves, pins and sends it (listStep, nextList, publish).  Between any    *)
(* two of its steps payments, funding, the guardian and the clock go on;   *)
(* a pass may stop anywhere, and a transaction land unseen, late (for as   *)
(* long as the blockhash it names is known, far less than a list's delay)  *)
(* or never.                                                               *)
(*                                                                         *)
(* The site's key stays the publisher.  A list's file is its root, which   *)
(* any gateway that serves its CID gives back; a gateway that fails stops  *)
(* the pass.  Anyone may pay, so the crank's own payments are among        *)
(* anyone's; a list built from records alone (allowListRebuild) is left    *)
(* out.                                                                    *)
(***************************************************************************)
EXTENDS RewardLists

CONSTANTS
    Balances,           \* what a scan of the token's holders may find
    MinCycle,           \* minCycleXnt, below which no list is made
    ACTIVATION_MARGIN_SECS,
    VALIDITY            \* how long a transaction may land after it was sent

ASSUME BuilderAssumption ==
    /\ Balances \subseteq [Wallets -> Nat]
    /\ MinCycle \in Nat /\ ACTIVATION_MARGIN_SECS \in Nat
    /\ VALIDITY \in Nat /\ VALIDITY < LIST_DELAY_SECS

VARIABLES
    active, next,       \* vault-list.json
    step,               \* where the pass is
    v,                  \* the vault as the pass read it
    records,            \* the paid records as it read them
    flying,             \* publish_list transactions that may still land, and until when
    fallback_then       \* history: fallback_paid when the records were read

file == <<active, next>>
site == <<file, step, v, records, flying, fallback_then>>
allVars == <<vars, site>>

NoFile == [epoch |-> 0, root |-> {}, total |-> 0, fallback |-> 0,
           pinned |-> FALSE, published |-> FALSE]
NoVault == [funded |-> 0, floor |-> 0, epoch |-> 0, prev |-> {}, forced |-> FALSE]

SumOf(f) == FoldFunction(LAMBDA a, b : a + b, 0, f)
AmountIn(root, w) ==
    IF \E leaf \in root : leaf[1] = w THEN (CHOOSE leaf \in root : leaf[1] = w)[2] ELSE 0
Is(n, l) == n.epoch = l.epoch /\ n.root = l.root

(* effectiveList and inFallback, a margin behind the clock.                *)
Behind == now - ACTIVATION_MARGIN_SECS
SeenDue == pending.epoch > 0 /\ Behind >= pending.active_at
SeenRoot == IF SeenDue THEN pending.root ELSE list.root
InFallback ==
    /\ SeenDue \/ (list.epoch > 0 /\ pending.epoch = 0)
    /\ Behind >= last_publish_at + FALLBACK_AFTER_SECS
Floor == Larger(Larger(list.total, pending.total), holders_paid)
LastEpoch == Larger(list.epoch, pending.epoch)

-----------------------------------------------------------------------------
(* allocate: every holder's part of the pot, rounded down.                 *)
Allocate(balances, pot) ==
    LET total == SumOf(balances)
    IN  [w \in Wallets |-> IF total = 0 THEN 0 ELSE (pot * balances[w]) \div total]

(* composeList.  Mutation: what was paid beyond the previous total is      *)
(* forgotten.                                                              *)
MutStart(seen) == [w \in Wallets |-> AmountIn(v.prev, w)]
Start(seen) == [w \in Wallets |-> Larger(AmountIn(v.prev, w), seen[w])]

Pot(seen) == Larger(v.funded - SumOf(Start(seen)), 0)

(* Who gets what is short of the floor: the largest share, or without any  *)
(* share the largest total.                                                *)
Picked(shares) ==
    LET weights == IF SumOf(shares) > 0 THEN shares ELSE Start(records)
    IN  CHOOSE w \in Wallets : \A other \in Wallets : weights[w] >= weights[other]

Compose(shares) ==
    LET totals == [w \in Wallets |-> Start(records)[w] + shares[w]]
        short == v.floor - SumOf(totals)
    IN  IF short > 0 /\ SumOf(totals) > 0
        THEN [totals EXCEPT ![Picked(shares)] = @ + short]
        ELSE totals

RootOf(totals) == {<<w, totals[w]>> : w \in {x \in Wallets : totals[x] > 0}}

-----------------------------------------------------------------------------
BuilderInit ==
    /\ Init
    /\ active = NoFile
    /\ next = NoFile
    /\ step = "idle"
    /\ v = NoVault
    /\ records = [w \in Wallets |-> 0]
    /\ flying = {}
    /\ fallback_then = 0

OnChain == next.epoch > 0 /\ (Is(next, list) \/ (pending.epoch > 0 /\ Is(next, pending)))

(* May the saved list be sent as it is?                                    *)
Resendable ==
    /\ next.epoch > LastEpoch
    /\ next.total >= Floor /\ next.total <= holders_funded
    /\ pending.epoch = 0
    /\ active.root = list.root

Adopted(file_active) ==
    IF list.epoch > 0 /\ ~Is(file_active, list)
    THEN [epoch |-> list.epoch, root |-> list.root, total |-> list.total,
          fallback |-> 0, pinned |-> TRUE, published |-> TRUE]
    ELSE file_active

(* syncList.                                                               *)
Sync ==
    /\ step = "idle"
    /\ CASE next.epoch > 0 /\ Is(next, list) ->
              /\ active' = [next EXCEPT !.published = TRUE]
              /\ next' = NoFile
              /\ step' = "list"
         [] next.epoch > 0 /\ ~Is(next, list) /\ OnChain ->
              /\ next' = [next EXCEPT !.published = TRUE]
              /\ active' = Adopted(active)
              /\ step' = "list"
         [] next.epoch > 0 /\ ~OnChain /\ ~next.published /\ Resendable ->
              /\ step' = "resend"
              /\ UNCHANGED file
         [] OTHER ->
              /\ next' = NoFile
              /\ active' = Adopted(active)
              /\ step' = "list"
    /\ UNCHANGED <<vars, v, records, flying, fallback_then>>

(* unpayablePending: a due list nobody is owed anything by.                *)
Stuck ==
    /\ next.published /\ pending.epoch > 0 /\ Is(next, pending)
    /\ now >= pending.active_at + ACTIVATION_MARGIN_SECS
    /\ \A w \in Wallets : AmountIn(next.root, w) <= paid[w]

(* listStep: one list at a time.  Mutation: a pending list is no reason to *)
(* wait.                                                                   *)
MutReadVault ==
    /\ step = "list"
    /\ v' = [funded |-> holders_funded, floor |-> Floor, epoch |-> LastEpoch + 1,
             prev |-> list.root, forced |-> InFallback]
    /\ step' = "records"
    /\ UNCHANGED <<vars, file, records, flying, fallback_then>>

ReadVault ==
    /\ step = "list"
    /\ IF (next.epoch > 0 \/ pending.epoch > 0) /\ ~Stuck
       THEN step' = "idle" /\ UNCHANGED v
       ELSE /\ v' = [funded |-> holders_funded, floor |-> Floor, epoch |-> LastEpoch + 1,
                     prev |-> SeenRoot, forced |-> InFallback]
            /\ step' = "records"
    /\ UNCHANGED <<vars, file, records, flying, fallback_then>>

(* nextList: the paid records, then the balances.                          *)
ReadRecords ==
    /\ step = "records"
    /\ records' = [w \in Wallets |-> paid[w]]
    /\ fallback_then' = fallback_paid
    /\ IF Pot(records') < MinCycle /\ ~v.forced THEN step' = "idle" ELSE step' = "balances"
    /\ UNCHANGED <<vars, file, v, flying>>

Build(balances) ==
    LET totals == Compose(Allocate(balances, Pot(records)))
        total == SumOf(totals)
        allocated == total - SumOf(Start(records))
    IN  /\ step = "balances"
        /\ IF total = 0 \/ total > v.funded \/ (allocated = 0 /\ ~v.forced)
           THEN step' = "idle" /\ UNCHANGED file
           ELSE /\ active' = IF next.epoch > 0 THEN next ELSE active
                /\ next' = [epoch |-> v.epoch, root |-> RootOf(totals), total |-> total,
                            fallback |-> fallback_then, pinned |-> FALSE, published |-> FALSE]
                /\ step' = "publish"
        /\ UNCHANGED <<vars, v, records, flying, fallback_then>>

(* publish: pin the file, then send publish_list.  Without a pin the pass  *)
(* fails here and the list waits in the file.                              *)
Pin ==
    /\ step \in {"publish", "resend"}
    /\ ~next.pinned
    /\ next' = [next EXCEPT !.pinned = TRUE]
    /\ UNCHANGED <<vars, active, step, v, records, flying, fallback_then>>

Send ==
    /\ step \in {"publish", "resend"}
    /\ next.pinned
    /\ flying' = flying \cup {[list |-> next, until |-> now + VALIDITY]}
    /\ step' = IF step = "publish" THEN "sent" ELSE "resent"
    /\ UNCHANGED <<vars, file, v, records, fallback_then>>

(* Its transaction landed and the pass saw that; after a re-sent list the  *)
(* pass goes on.                                                           *)
Confirmed ==
    /\ step \in {"landed", "relanded"}
    /\ next' = [next EXCEPT !.published = TRUE]
    /\ step' = IF step = "landed" THEN "idle" ELSE "list"
    /\ UNCHANGED <<vars, active, v, records, flying, fallback_then>>

(* A pin, a read or a send fails, or the process stops: what is on disk    *)
(* stays.                                                                  *)
Stop ==
    /\ step # "idle"
    /\ step' = "idle"
    /\ UNCHANGED <<vars, file, v, records, flying, fallback_then>>

Land(t) ==
    /\ t \in flying
    /\ PublishList(publisher, t.list.root, t.list.epoch, t.list.total)
    /\ flying' = flying \ {t}
    /\ step' = CASE t.list = next /\ step = "sent" -> "landed"
               []  t.list = next /\ step = "resent" -> "relanded"
               []  OTHER -> step
    /\ UNCHANGED <<file, v, records, fallback_then>>

(* A transaction the program refuses, or that is dropped on the way.       *)
Lose(t) ==
    /\ t \in flying
    /\ flying' = flying \ {t}
    /\ UNCHANGED <<vars, file, step, v, records, fallback_then>>

(* Time passes, and with it the blockhashes of what was sent.              *)
Expire ==
    /\ Tick
    /\ flying' = {t \in flying : now' <= t.until}
    /\ UNCHANGED <<file, step, v, records, fallback_then>>

Pass == Sync \/ ReadVault \/ ReadRecords \/ (\E b \in Balances : Build(b)) \/ Pin \/ Send \/ Confirmed
Ledger == Expire \/ \E t \in flying : Land(t) \/ Lose(t)
Others == (PayAny \/ PayFallbackAny \/ Sponsor \/ Cancel) /\ UNCHANGED site

BuilderNext == Pass \/ Stop \/ Ledger \/ Others
BuilderSpec == BuilderInit /\ [][BuilderNext]_allVars
-----------------------------------------------------------------------------
FileType == [epoch : Nat, root : SUBSET (Wallets \X Nat), total : Nat,
             fallback : Nat, pinned : BOOLEAN, published : BOOLEAN]

BuilderTypeOK ==
    /\ active \in FileType /\ next \in FileType
    /\ flying \subseteq [list : FileType, until : Nat]
    /\ step \in {"idle", "list", "records", "balances", "publish", "resend", "sent", "resent",
                "landed", "relanded"}
    /\ v \in [funded : Nat, floor : Nat, epoch : Nat, prev : SUBSET (Wallets \X Nat), forced : BOOLEAN]
    /\ records \in [Wallets -> Nat]
    /\ fallback_then \in Nat

(* README, "lists never pay anyone less than they already received": a     *)
(* list that is published names every wallet for no less than it was paid. *)
NeverPaysLess ==
    [][pending'.epoch > 0 /\ pending' # pending =>
         \A w \in Wallets : AmountIn(pending'.root, w) >= paid[w]]_allVars

(* composeList, syncList: the same for a list that lands, however late,    *)
(* with no fallback payment since its builder read the paid records.       *)
NobodyLeftBehind ==
    [][\A t \in flying \ flying' :
         t.list.fallback = fallback_paid /\ pending' # pending =>
             \A w \in Wallets : AmountIn(t.list.root, w) >= paid[w]]_allVars

(* composeList, syncList, pay: before a fallback, whoever is paid first,   *)
(* everyone's amount on the list that goes live fits its total: OverFunded *)
(* refuses nobody.  (Every variable has its type besides.)                 *)
EveryoneFits ==
    LET owed == [w \in Wallets |-> Larger(AmountIn(EffList.root, w), paid[w]) - paid[w]]
    IN  /\ BuilderTypeOK
        /\ fallback_paid = 0 => holders_paid + SumOf(owed) <= EffList.total

(* listStep, syncList: lists sent twice, dropped, cancelled or landing     *)
(* late never take back what an earlier live list allocated to a wallet.   *)
AllocationsKept ==
    [][list' # list => \A w \in Wallets : AmountIn(list'.root, w) >= AmountIn(list.root, w)]_allVars
=============================================================================
