---------------------------- MODULE HolderPasses ----------------------------
(***************************************************************************)
(* The holder-pass half of the tax_vault program, for a vault whose        *)
(* guardian turned passes on: wallets register a pass, a round reads every *)
(* registered wallet's live balance in batches over several transactions,  *)
(* the waiting pot is split over those balances, anyone sends the payments *)
(* and passes are removed, evicted and put into lookup tables meanwhile.   *)
(*                                                                         *)
(* The book is the sequence of its entries; pass[w] is the index (from 1)  *)
(* stored in w's pass account, 0 when the account does not exist.  One     *)
(* tick of the clock stands for a slot and for a second.  As in            *)
(* RewardLists, an instruction one of the program's self-checks stops sets *)
(* `fault`.                                                                *)
(***************************************************************************)
EXTENDS Integers, Sequences, FiniteSets, Functions

CONSTANTS
    Wallets,                \* wallets that may hold a pass
    Caller,                 \* whoever sends the permissionless instructions
    Auth,                   \* the vault's lamport account
    min_holding, min_pot, min_interval,
    MAX_PASSES, MAX_BATCH_SLOTS, ROUND_COOLDOWN_SLOTS,
    REGISTER_HOLDING_MULT, EVICT_MULT,
    POT_CAP_PCT_OF_TAX, ROUND_REWARD_BPS, ROUND_REWARD_CAP,
    BPS, TaxBps,            \* the token's transfer tax
    ReserveToken, Reserves, \* the pool's token side, and what its XNT side may be
    MAX_PASS_TABLES, LUT_CAPACITY, INDEX_BATCH,
    OmitTables,             \* callers may leave out the optional tables account
    Gifts, Moves,           \* amounts of XNT and of tokens moved
    InitialTokens,          \* what each wallet holds at first
    Rent,
    MaxSlot, MaxFunded, MaxMoves

Accounts == Wallets \cup {Caller, Auth}

ASSUME AccountsAssumption == Caller \notin Wallets /\ Auth \notin Wallets /\ Caller # Auth
ASSUME WindowAssumption ==
    /\ MAX_BATCH_SLOTS \in Nat /\ ROUND_COOLDOWN_SLOTS \in Nat /\ min_interval \in Nat
    /\ MAX_BATCH_SLOTS < ROUND_COOLDOWN_SLOTS

(* The program's constants are shares of wholes, and what goes in is there. *)
(* A batch of addresses fits a new table.                                  *)
ASSUME AmountsAssumption ==
    /\ IsFiniteSet(Wallets)
    /\ MAX_PASSES \in Nat /\ INDEX_BATCH \in Nat \ {0} /\ MAX_PASS_TABLES \in Nat
    /\ LUT_CAPACITY \in Nat /\ 3 + 2 * INDEX_BATCH <= LUT_CAPACITY
    /\ min_holding \in Nat /\ min_pot \in Nat
    /\ REGISTER_HOLDING_MULT \in Nat /\ EVICT_MULT \in Nat
    /\ BPS \in Nat \ {0} /\ TaxBps \in 0..BPS /\ ROUND_REWARD_BPS \in 0..BPS
    /\ POT_CAP_PCT_OF_TAX \in 0..100 /\ ROUND_REWARD_CAP \in Nat
    /\ ReserveToken \in Nat \ {0} /\ Reserves \subseteq Nat
    /\ Gifts \subseteq Nat /\ Moves \subseteq Nat /\ Rent \in Nat
    /\ InitialTokens \in [Wallets -> Nat]

VARIABLES
    book,               \* the entries, in book order
    pass,               \* the index in each wallet's pass account
    allocated,          \* ever allocated to passes (and round callers)
    round,              \* the round being read, or the last one
    tables,             \* the lookup tables' record
    holders_funded, holders_paid,
    lamports,
    tokens,             \* tax tokens in each wallet's associated account
    slot,
    fault,
    moves,              \* history: taxed transfers so far
    in_round,           \* history: the passes' holdings when the round opened, tax since
    unlocked            \* history: slots since the round opened without a live round

pool == <<holders_funded, holders_paid, lamports>>
history == <<moves, in_round, unlocked>>
vars == <<book, pass, allocated, round, tables, pool, tokens, slot, fault, history>>

Entry(w) == [wallet |-> w, weight |-> 0, owed |-> 0, paid |-> 0]
count == Len(book)

Smaller(a, b) == IF a <= b THEN a ELSE b
Larger(a, b) == IF a >= b THEN a ELSE b
SumOver(S, f(_)) == FoldFunctionOnSet(LAMBDA x, y : x + y, 0, [s \in S |-> f(s)], S)
CeilDiv(a, b) == (a + b - 1) \div b

-----------------------------------------------------------------------------
(* The program's rules as functions.                                       *)
RoundLive == round.open /\ slot <= round.start_slot + MAX_BATCH_SLOTS

(* Mutation: a new round as soon as the last one's window is over.         *)
MutCheckRoundOpen ==
    round.start_slot # 0 => slot > round.start_slot + MAX_BATCH_SLOTS

CheckRoundOpen ==
    round.start_slot # 0 =>
        /\ slot > round.start_slot
        /\ slot >= round.start_slot + ROUND_COOLDOWN_SLOTS

RegisterMinimum == Larger(min_holding * REGISTER_HOLDING_MULT, 1)
EvictMinimum(evicted_balance) == Larger(RegisterMinimum, evicted_balance * EVICT_MULT)

(* Token-2022's transfer fee.                                              *)
TransferFee(amount) == CeilDiv(amount * TaxBps, BPS)

PassCapBps(tax_on_weight, weight) ==
    IF weight = 0 THEN 0
    ELSE (((tax_on_weight * BPS) \div weight) * POT_CAP_PCT_OF_TAX) \div 100

(* Mutation: the pot capped at the eligible tokens' whole value.           *)
MutRoundAlloc(pot, weight, reserve_xnt) ==
    Smaller(pot, (weight * reserve_xnt) \div ReserveToken)

RoundAlloc(pot, weight, reserve_xnt) ==
    LET value == (weight * reserve_xnt) \div ReserveToken
        cap   == (value * PassCapBps(TransferFee(weight), weight)) \div BPS
    IN  Smaller(pot, cap)

RoundReward(alloc) == Smaller((alloc * ROUND_REWARD_BPS) \div BPS, ROUND_REWARD_CAP)

PassShare(alloc, weight, total) == (alloc * weight) \div total

(* The self-checks after a payment of `amount` out of auth.                *)
PaymentSound(amount, allocated_now) ==
    /\ holders_paid + amount <= allocated_now
    /\ allocated_now <= holders_funded
    /\ lamports[Auth] - amount >= Rent + (holders_funded - (holders_paid + amount))

Abort ==
    /\ fault' = TRUE
    /\ UNCHANGED <<book, pass, allocated, round, tables, pool, tokens, slot, history>>

-----------------------------------------------------------------------------
NoRound == [open |-> FALSE, start_slot |-> 0, weight |-> 0, next |-> 0, last_at |-> 0]
NoTables == [exists |-> FALSE, indexed |-> 0, lens |-> <<>>, holds |-> {}]

Init ==
    /\ book = <<>>
    /\ pass = [w \in Wallets |-> 0]
    /\ allocated = 0
    /\ round = NoRound
    /\ tables = NoTables
    /\ holders_funded = 0
    /\ holders_paid = 0
    /\ lamports = [a \in Accounts |-> IF a = Auth THEN Rent ELSE 0]
    /\ tokens = InitialTokens
    /\ slot = 1
    /\ fault = FALSE
    /\ moves = 0
    /\ in_round = [held |-> 0, tax |-> 0]
    /\ unlocked = 0

RegisterPass(w) ==
    /\ pass[w] = 0
    /\ tokens[w] >= RegisterMinimum
    /\ ~RoundLive
    /\ count < MAX_PASSES
    /\ book' = Append(book, Entry(w))
    /\ pass' = [pass EXCEPT ![w] = count + 1]
    /\ UNCHANGED <<allocated, round, tables, pool, tokens, slot, fault, history>>

(* Read n entries from `start` on.                                         *)
Held(i) == tokens[book[i].wallet]
Weight(i) == IF Held(i) >= min_holding THEN Held(i) ELSE 0

ReadEntries(start, n, weight_so_far) ==
    /\ n > 0
    /\ start + n <= count
    /\ book' = [i \in 1..count |->
                   IF i \in (start + 1)..(start + n)
                   THEN [book[i] EXCEPT !.weight = Weight(i)] ELSE book[i]]
    /\ round' = [open |-> TRUE,
                 start_slot |-> IF start = 0 THEN slot ELSE round.start_slot,
                 weight |-> weight_so_far + SumOver((start + 1)..(start + n), Weight),
                 next |-> start + n,
                 last_at |-> round.last_at]
    /\ UNCHANGED <<pass, allocated, tables, pool, tokens, slot, fault, moves>>

OpenRound(n) ==
    /\ ~RoundLive
    /\ CheckRoundOpen
    /\ slot >= round.last_at + min_interval
    /\ IF holders_funded < allocated THEN n > 0 /\ Abort
       ELSE /\ holders_funded > allocated
            /\ holders_funded - allocated >= min_pot
            /\ ReadEntries(0, n, 0)
            /\ in_round' = [held |-> SumOver(1..count, Held), tax |-> 0]
            /\ unlocked' = 0

NextBatch(start, n) ==
    /\ start > 0
    /\ RoundLive
    /\ start = round.next
    /\ ReadEntries(start, n, round.weight)
    /\ UNCHANGED <<in_round, unlocked>>

CloseRound(reserve_xnt) ==
    LET total  == round.weight
        alloc0 == RoundAlloc(holders_funded - allocated, total, reserve_xnt)
        reward == IF total > 0 THEN RoundReward(alloc0) ELSE 0
        alloc  == alloc0 - reward
        share(i) == IF total > 0 /\ alloc > 0 /\ book[i].weight > 0
                    THEN PassShare(alloc, book[i].weight, total) ELSE 0
        allocated_now == allocated + SumOver(1..count, share) + reward
    IN
    /\ RoundLive
    /\ round.next = count
    /\ IF holders_funded < allocated \/ ~PaymentSound(reward, allocated_now) THEN Abort
       ELSE /\ book' = [i \in 1..count |-> [book[i] EXCEPT !.owed = @ + share(i)]]
            /\ allocated' = allocated_now
            /\ round' = [round EXCEPT !.open = FALSE, !.last_at = slot]
            /\ holders_paid' = holders_paid + reward
            /\ lamports' = [lamports EXCEPT ![Auth] = @ - reward, ![Caller] = @ + reward]
            /\ UNCHANGED <<pass, tables, holders_funded, tokens, slot, fault, history>>

Unpaid(i) == book[i].owed - book[i].paid

(* Mutation: the payment not recorded in the entries.                      *)
MutPayPasses(indices) ==
    LET amount == SumOver(indices, Unpaid) IN
    /\ indices # {}
    /\ indices \subseteq 1..count
    /\ IF ~PaymentSound(amount, allocated) THEN Abort
       ELSE /\ holders_paid' = holders_paid + amount
            /\ lamports' = [a \in Accounts |->
                   IF a = Auth THEN lamports[a] - amount
                   ELSE lamports[a] + SumOver({i \in indices : book[i].wallet = a}, Unpaid)]
            /\ UNCHANGED <<book, pass, allocated, round, tables, holders_funded, tokens,
                           slot, fault, history>>

(* Pay the passes at `indices`; one named twice has nothing left the       *)
(* second time.                                                            *)
PayPasses(indices) ==
    LET amount == SumOver(indices, Unpaid) IN
    /\ indices # {}
    /\ indices \subseteq 1..count
    /\ IF ~PaymentSound(amount, allocated) THEN Abort
       ELSE /\ book' = [i \in 1..count |->
                           IF i \in indices THEN [book[i] EXCEPT !.paid = book[i].owed] ELSE book[i]]
            /\ holders_paid' = holders_paid + amount
            /\ lamports' = [a \in Accounts |->
                   IF a = Auth THEN lamports[a] - amount
                   ELSE lamports[a] + SumOver({i \in indices : book[i].wallet = a}, Unpaid)]
            /\ UNCHANGED <<pass, allocated, round, tables, holders_funded, tokens,
                           slot, fault, history>>

(* pay_leaving_pass: what wallet w leaves the book with.  Mutation: paid    *)
(* and not booked.                                                         *)
MutPayLeavingUnbooked(w, unpaid) ==
    /\ lamports' = [lamports EXCEPT ![Auth] = @ - unpaid, ![w] = @ + unpaid]
    /\ UNCHANGED <<holders_funded, holders_paid>>

PayLeaving(w, unpaid) ==
    /\ holders_paid' = holders_paid + unpaid
    /\ lamports' = [lamports EXCEPT ![Auth] = @ - unpaid, ![w] = @ + unpaid]
    /\ UNCHANGED holders_funded

(* The optional tables account: given, left out, or not there yet.         *)
TablesGiven == {given \in BOOLEAN : given => tables.exists}
             \cap (IF OmitTables \/ ~tables.exists THEN {TRUE, FALSE} ELSE {TRUE})

(* Mutation: the pass that moved into the gap taken for an indexed one.    *)
MutIndexedAfterRemoval(i, last) == Smaller(tables.indexed, last - 1)

IndexedAfterRemoval(i, last) ==
    Smaller(IF last > tables.indexed /\ i <= tables.indexed THEN i - 1 ELSE tables.indexed,
            last - 1)

(* Mutation: the pass that moves keeps its old index.                      *)
MutRemovePass(w, given) ==
    LET i == pass[w]
        last == count
    IN
    /\ i # 0
    /\ given \in TablesGiven
    /\ ~RoundLive
    /\ i <= last
    /\ book[i].wallet = w
    /\ tokens[w] < min_holding
    /\ IF Unpaid(i) > 0 /\ ~PaymentSound(Unpaid(i), allocated) THEN Abort
       ELSE /\ round' = [round EXCEPT !.open = FALSE]
            /\ book' = SubSeq([book EXCEPT ![i] = book[last]], 1, last - 1)
            /\ pass' = [pass EXCEPT ![w] = 0]
            /\ tables' = IF given THEN [tables EXCEPT !.indexed = IndexedAfterRemoval(i, last)]
                                  ELSE tables
            /\ PayLeaving(w, Unpaid(i))
            /\ UNCHANGED <<allocated, tokens, slot, fault, history>>

RemovePass(w, given) ==
    LET i == pass[w]
        last == count
        moved == book[last].wallet
    IN
    /\ i # 0
    /\ given \in TablesGiven
    /\ ~RoundLive
    /\ i <= last
    /\ book[i].wallet = w
    /\ tokens[w] < min_holding
    /\ IF Unpaid(i) > 0 /\ ~PaymentSound(Unpaid(i), allocated) THEN Abort
       ELSE /\ round' = [round EXCEPT !.open = FALSE]
            /\ book' = SubSeq([book EXCEPT ![i] = book[last]], 1, last - 1)
            /\ pass' = [[pass EXCEPT ![moved] = i] EXCEPT ![w] = 0]
            /\ tables' = IF given THEN [tables EXCEPT !.indexed = IndexedAfterRemoval(i, last)]
                                  ELSE tables
            /\ PayLeaving(w, Unpaid(i))
            /\ UNCHANGED <<allocated, tokens, slot, fault, history>>

CheckEvict(i, w) ==
    LET old == book[i] IN
    /\ count = MAX_PASSES
    /\ ~RoundLive
    /\ old.owed = old.paid \/ tokens[old.wallet] < min_holding
    /\ tokens[w] >= EvictMinimum(tokens[old.wallet])

RegisterPassEvict(w, evicted, given) ==
    LET i == pass[evicted] IN
    /\ pass[w] = 0
    /\ i # 0 /\ i <= count
    /\ given \in TablesGiven
    /\ book[i].wallet = evicted
    /\ CheckEvict(i, w)
    /\ IF Unpaid(i) > 0 /\ ~PaymentSound(Unpaid(i), allocated) THEN Abort
       ELSE /\ round' = [round EXCEPT !.open = FALSE]
            /\ book' = [book EXCEPT ![i] = Entry(w)]
            /\ pass' = [pass EXCEPT ![evicted] = 0, ![w] = i]
            /\ tables' = IF given THEN [tables EXCEPT !.indexed = Smaller(@, i - 1)]
                                  ELSE tables
            /\ PayLeaving(evicted, Unpaid(i))
            /\ UNCHANGED <<allocated, tokens, slot, fault, history>>

(* Two addresses a pass, and three of the vault's own first.               *)
IndexPasses(max_passes) ==
    LET batch == Smaller(Larger(max_passes, 1), INDEX_BATCH)
        end   == Smaller(count, tables.indexed + batch)
        added == {book[i].wallet : i \in (tables.indexed + 1)..end}
        addrs == (IF tables.exists THEN 0 ELSE 3)
                 + 2 * Cardinality((tables.indexed + 1)..end)
        n     == Len(tables.lens)
        grow  == n = 0 \/ tables.lens[Larger(n, 1)] + addrs > LUT_CAPACITY
    IN
    /\ addrs > 0
    /\ grow => n < MAX_PASS_TABLES
    /\ tables' = [exists |-> TRUE, indexed |-> end,
                  lens |-> IF grow THEN Append(tables.lens, addrs)
                                   ELSE [tables.lens EXCEPT ![n] = @ + addrs],
                  holds |-> tables.holds \cup added]
    /\ UNCHANGED <<book, pass, allocated, round, pool, tokens, slot, fault, history>>

SponsorHolders(amount) ==
    /\ holders_funded + amount <= MaxFunded
    /\ holders_funded' = holders_funded + amount
    /\ lamports' = [lamports EXCEPT ![Auth] = @ + amount]
    /\ UNCHANGED <<book, pass, allocated, round, tables, holders_paid, tokens, slot,
                   fault, history>>

-----------------------------------------------------------------------------
(* The token program and the cluster.  A transfer pays the tax; tokens     *)
(* come from and go to the market as well.                                 *)
PayTax(amount) ==
    in_round' = IF RoundLive THEN [in_round EXCEPT !.tax = @ + TransferFee(amount)] ELSE in_round

Transfer(from, to, amount) ==
    /\ moves < MaxMoves
    /\ from # to
    /\ tokens[from] >= amount
    /\ tokens' = [tokens EXCEPT ![from] = @ - amount, ![to] = @ + amount - TransferFee(amount)]
    /\ moves' = moves + 1
    /\ PayTax(amount)
    /\ UNCHANGED <<book, pass, allocated, round, tables, pool, slot, fault, unlocked>>

Buy(w, amount) ==
    /\ moves < MaxMoves
    /\ tokens' = [tokens EXCEPT ![w] = @ + amount - TransferFee(amount)]
    /\ moves' = moves + 1
    /\ PayTax(amount)
    /\ UNCHANGED <<book, pass, allocated, round, tables, pool, slot, fault, unlocked>>

Sell(w, amount) ==
    /\ moves < MaxMoves
    /\ tokens[w] >= amount
    /\ tokens' = [tokens EXCEPT ![w] = @ - amount]
    /\ moves' = moves + 1
    /\ PayTax(amount)
    /\ UNCHANGED <<book, pass, allocated, round, tables, pool, slot, fault, unlocked>>

Tick ==
    /\ slot < MaxSlot
    /\ slot' = slot + 1
    /\ unlocked' = IF RoundLive THEN unlocked ELSE unlocked + 1
    /\ UNCHANGED <<book, pass, allocated, round, tables, pool, tokens, fault, moves, in_round>>

Register == \E w \in Wallets : RegisterPass(w)
Open     == \E n \in 1..MAX_PASSES : OpenRound(n)
Batch    == \E start, n \in 1..MAX_PASSES : NextBatch(start, n)
Close    == \E reserve_xnt \in Reserves : CloseRound(reserve_xnt)
PaySome  == \E indices \in SUBSET (1..count) : PayPasses(indices)
Remove   == \E w \in Wallets, given \in BOOLEAN : RemovePass(w, given)
Evict    == \E w, evicted \in Wallets, given \in BOOLEAN : RegisterPassEvict(w, evicted, given)
Index    == \E n \in 0..INDEX_BATCH : IndexPasses(n)
Sponsor  == \E amount \in Gifts : SponsorHolders(amount)
Trade    == \E w, v \in Wallets, amount \in Moves :
                Transfer(w, v, amount) \/ Buy(w, amount) \/ Sell(w, amount)

Next == \/ Register \/ Open \/ Batch \/ Close \/ PaySome
        \/ Remove \/ Evict \/ Index
        \/ Sponsor \/ Trade \/ Tick

Spec == Init /\ [][Next]_vars
-----------------------------------------------------------------------------
PassEntryType == [wallet : Wallets, weight : Nat, owed : Nat, paid : Nat]

TypeOK ==
    /\ book \in Seq(PassEntryType) /\ count <= MAX_PASSES
    /\ pass \in [Wallets -> 0..MAX_PASSES]
    /\ allocated \in Nat
    /\ round \in [open : BOOLEAN, start_slot : Nat, weight : Nat, next : 0..MAX_PASSES,
                  last_at : Nat]
    /\ tables \in [exists : BOOLEAN, indexed : Nat, lens : Seq(1..LUT_CAPACITY),
                   holds : SUBSET Wallets]
    /\ holders_funded \in Nat /\ holders_paid \in Nat
    /\ lamports \in [Accounts -> Nat]
    /\ tokens \in [Wallets -> Nat]
    /\ slot \in Nat /\ moves \in Nat /\ unlocked \in Nat
    /\ fault \in BOOLEAN
    /\ in_round \in [held : Nat, tax : Nat]

(* close_round, pay_passes, pay_leaving_pass: the self-checks after every   *)
(* payment (OverFunded, Insolvent) never stop one, so no sequence of rounds,*)
(* evictions and removals freezes the passes' money.                        *)
NoFault == ~fault

(* register_pass, remove_pass, register_pass_evict: a wallet has at most    *)
(* one place in the book and its pass account points at it, through every   *)
(* swap and eviction, so nobody is counted or paid twice.                   *)
OnePassPerWallet ==
    /\ \A i \in 1..count : pass[book[i].wallet] = i
    /\ \A w \in Wallets : pass[w] # 0 => pass[w] <= count /\ book[pass[w]].wallet = w

(* Together: the book keeps its types and its order, and its payments never *)
(* freeze.                                                                 *)
BookSound == TypeOK /\ NoFault /\ OnePassPerWallet

(* close_round, pay_passes, pay_leaving_pass: what was allocated is either  *)
(* paid or still owed to a pass in the book; none leaves with its dues.     *)
EntitlementsAddUp == holders_paid + SumOver(1..count, Unpaid) = allocated

(* close_round: within one round, tokens bought in or moved between two     *)
(* batches to be counted again earn less than the transfer tax they paid,   *)
(* at the price the round is closed at.                                     *)
MovingNeverPays ==
    [][\A reserve_xnt \in Reserves :
          CloseRound(reserve_xnt) =>
              (allocated' - allocated) * (round.weight - in_round.held) * ReserveToken
                  <= in_round.tax * reserve_xnt * round.weight]_vars

(* check_round_open: rounds opened one after the other and left to expire   *)
(* still leave registering and removing most of the slots between them.     *)
NoLockout ==
    [][round'.start_slot # round.start_slot /\ round.start_slot # 0 =>
          unlocked + MAX_BATCH_SLOTS + 1 >= ROUND_COOLDOWN_SLOTS]_vars

(* remove_pass, register_pass_evict: as long as callers pass the tables'    *)
(* record, the passes it counts as indexed are in the tables, also after    *)
(* passes moved and were replaced.                                          *)
IndexedCovers ==
    /\ tables.indexed <= count
    /\ \A i \in 1..tables.indexed : book[i].wallet \in tables.holds

(* The passes together keep the promise of HolderPool to the wallets and to *)
(* whoever closes the rounds.                                               *)
Pool == INSTANCE HolderPool WITH
            Payees <- Wallets \cup {Caller}, funded <- holders_funded, spent <- holders_paid,
            received <- [a \in Wallets \cup {Caller} |-> lamports[a]]
KeepsPromise == Pool!PoolSpec
=============================================================================
