# Verification of 99 + Tax (x1-reflection-token)

TLA+ modules that model the on-chain programs and off-chain services of this repository, TLC
configurations that check them on small instances, and proofs, checked by TLAPS, of the properties
that matter most for every value of the constants. Paths below are relative to the repository.

Short names: **T** = `lp-locker/programs/tax_vault/src/lib.rs`, **B** =
`lp-locker/programs/bonding_curve/src/lib.rs`, **K** = `lp-locker/programs/lp_locker/src/lib.rs`.

## 1. The system

A token launched here taxes transfers. The tax is turned into XNT and shared between liquidity, the
creator and the holders. Three Solana-style programs hold the money; an off-chain distributor and a
crank move it along; trading bots, bridge scripts and a site live around them.

| Component | State | Operations | What is hard about it |
|---|---|---|---|
| tax_vault, rewards lists (T) | `Vault` (publisher, active list, pending list, totals, clocks), one `PaidRecord` per wallet, `auth` lamports | `publish_list`, `cancel_list`, `set_publisher`, `appoint_publisher`, `pay`, `pay_fallback`, `sponsor_holders` | a list goes live lazily, inside the next instruction that looks; publisher, guardian, sponsors and payers act in any order; scaled fallback shares round |
| tax_vault, holder passes (T, `src/passes.ts`) | the pass book (entries, round, totals), one pass account per wallet, lookup tables | `init_passes`, `register_pass`, `register_pass_evict`, `remove_pass`, `snapshot_batch`, `close_round`, `pay_passes`, `index_passes` | a round reads balances over many transactions while tokens move and passes come and go; entries change position |
| tax_vault, tax flow (T, `vault-crank.ts`) | counters of what waits for sale, for liquidity, for the creator, for holders; three token accounts | `collect`, `sell`, `add_liquidity`, `fund_creator`, `fund_holders`; the crank's pass | one token account holds two obligations; a sale's proceeds are split pro rata and every split rounds; anyone runs the same instructions as the crank |
| bonding_curve (B) | `Curve` (status, reserves, counters, a field of three meanings), a `Position` per buyer, `auth` | `buy`, `sell`, `graduate_pool`, `graduate_lock`, `start_burn_clock`, `graduate_burn`, `deliver`, `refund`, `close_curve` | every trade rounds; graduation, burning, delivery and refunds exclude each other; a program upgrade between two steps |
| lp_locker, locks and fees (K) | `Lock`, `LockSchedule`, LP account, the pool around it | `lock`, `lock_timed`, `unlock`, `collect_fees` | an integer square root beside a principal that must stay whole while strangers trade in the pool |
| lp_locker, reward vaults (K) | counters, ten vesting slots, token account | `deposit_reward`, `claim_reward` | slots freed lazily; days grouped in buckets |
| lp_locker holder pool, distributor's claim roots (K, `claims.ts`) | root, epoch, claimed totals; the journaled root, what is owed to passes | `publishRoot`, `reconcileRoot`, `settleRoot`; `set_root`, `claim_pass` | a root given up as expired lands all the same; claims go on under the old one |
| distributor, payouts (`distribute.ts`, `state.ts`, `tx.ts`) | `journal` file: what is owed, the batches being sent | allocate, plan, send, settle | stops between any two steps, transactions that land late; what is owed must be paid once |
| distributor, the cycle's other steps (`distribute.ts`) | counters of the state file, one journaled transaction | withdraw, burn, sell, deposit LP, swap, reward, allocate | a counter is changed from a confirmed transaction by this cycle or a later one |
| distributor, run lock (`state.ts`), and "Distribute now" | lock file holding a process id | `acquireLock`, release, loops, one-cycle runs | each file-system call is a step; owners die |
| vault crank, list builder (`vault-crank.ts`, `factory/vault.ts`) | `vault-list.json`, the transaction in flight | `syncList`, `listStep`, `nextList`, `publish` | four reads at four moments, a save, a pin, a send; the chain moves between all of them |
| publisher quorum (`squads.ts`, `list-verify.ts`, `scripts/cosigner.ts`) | a multisig's proposals, what each member has done | propose, verify, approve, reject, cancel, execute, follow up | proposals have no expiry; a carried one runs when anybody likes |
| send fate and intents (`send-fate.ts`, `send-intent.ts`, `peg.ts`, `limit.ts`, `arb-guard.ts`) | an order's one intent slot, counted trades, fee entries | `claim`, `sign`, `count`, `drop`, `fateOfSend`, fee reserve and reconcile | several processes on one order; nodes that lag or forget |
| bridge scripts (`scripts/bridge-usdc.ts`, `bridge-journal.ts`) | the transfers' journal | settle, check, send, wait | each run works on its own copy of the journal, without a lock |
| file lock (`withFileLock` in `arb-guard.ts`) | lock file, breaker file, the shared file | take, judge, break, change, leave | a dead holder is removed by several at once |
| factory, launch (`factory/launch.ts`, `durable.ts`) | the files of a launch in two directories, what is in memory | journal, hand out, watch, save, tidy, collect | the only copy of a key; several files, a crash between any two; forks |
| the rest | display, HTTP, decoding, one-shot commands | | no state of their own worth a model |

Interactions. The programs meet only through lamports and tokens: a curve that fills creates an XDEX
pool and has lp_locker lock its LP; a vault sells its tax to that pool and funds a lock's reward
vault. The crank and the distributor hold no privilege but the publisher's key; nearly everything
else they send anyone may send, so the programs are modelled with *any* caller in *any* order, and
off-chain code is modelled where it decides something.
On-chain instructions are atomic: one action each, an error disables it. Off-chain code is cut at
every await, file-system call or broadcast that another actor can fall between.

`PROJECT.json` lists every component with its status, and the hazards line by line with the
properties aimed at each.

## 2. The modules

| Module | Models | Correspondence |
|---|---|---|
| `HolderPool` | what any way of sharing promises | abstract: the pool gains, and each payment comes out of it and reaches its payee; nothing is taken back |
| `RewardLists` | T, rewards lists | a variable per field of `Vault`; `paid` for the records, `lamports` for the accounts; `ActivateIfDue` is conjoined with every action whose handler calls `activate_if_due` (`CancelList` does not). A root is the set of leaves it commits to; a Merkle proof is membership. The program's second line of defence (OverFunded in `pay`, Insolvent) sets `fault` instead of silently disabling the action |
| `HolderPasses` | T, holder passes | the book is a sequence; `remove_pass` swaps as the code does; a round's fields and the lookup tables' length and record are separate; one tick is a slot and a second |
| `TaxFlow` | T, tax flow, and the crank's pass | `bucket` has a field per counter of `Vault`; three kinds of vault (XNT, payout token, payout token that is also the creator's reward and shares its account); each crank step is the read and quote, then the send, with others in between |
| `BondingCurve` | B | constants are the program's; quotes are the program's integer formulas; the `delivered` field keeps its three meanings; upgrade from the version that recorded no times is an action |
| `LpLocker` | K, locks and fee collection | the pool is two reserves with protocol fees inside; `Isqrt` by definition, `NewtonSqrt` as the loop the program runs, from the power of two it starts with; others swap, add, remove, pause, collect protocol fees, give LP |
| `RewardVault` | K, reward vaults | slots as in the source, release at every deposit and claim |
| `Landing` | the chain as RPC nodes show it, `fateOfSend` | blocks, finality, a blockhash's last block; every question is answered by a node that may lag behind or have pruned |
| `ClaimRoots` | `claims.ts` with `set_root` and `claim_pass` | over `Landing`; one journaled root at a time |
| `PayoutJournal` | the distributor's payouts | memory and file agree at every await, so one copy stands for both; a run may stop anywhere; transactions land, fail or expire by block height |
| `TaxCycle` | the cycle's other journaled steps | a stage per step in the code's order; `inflight` is the journaled transaction; the counters are `books`, the accounts `wallet` |
| `DistributorLock` | `acquireLock` and its users | one action per file-system call |
| `ListBuilder` | `factory/vault.ts`, `vault-crank.ts` | EXTENDS `RewardLists`: the site is its publisher, and each await of a pass is a step; anybody's payments, funding, the guardian and time go on between; what it sent may land until the blockhash it names is forgotten (`VALIDITY`) |
| `QuorumLists` | the publisher quorum | EXTENDS `ListBuilder`: `publish` proposes instead; co-signers read vault and records at different moments, approve or reject, and remember what they are done with; the backup is a person who may do anything a member may |
| `Trades` | intents, the counts of `peg.ts` and `limit.ts`, the fee cap | over `Landing`; every change to a state file is one step because `FileLock` holds, everything between two changes is steps |
| `Bridge` | `bridge-usdc.ts` (`bridge-stock.ts` likewise) | over `Landing`; a copy of the journal per run |
| `FileLock` | `withFileLock` | one action per file-system call; death anywhere |
| `LaunchJournal` | one launch's files | over `Landing`; one action per file written, moved or removed, with disk errors and restarts between any two |
| `FiniteSums`, `RewardListsProofs`, `TaxVaultProofs`, `BondingCurveProofs`, `LpLockerProofs`, `DistributorProofs`, `TradesProofs`, `JournalsProofs` | theorems | section 5 |

All four ways of sharing implement `HolderPool`. For `RewardLists` and `HolderPasses`
(`KeepsPromise`) what was funded is `holders_funded`, what was spent is `holders_paid`, and what each
payee received are the lamports of their account. For `ClaimRoots` (`ClaimsKeepPromise`) the pool is
what the root in force allocates and spending is claiming. For `PayoutJournal` (`PaysPromise`) the
pool is what was allocated, spending is what left the wallet on chain, whether or not the journal
knows, and the promise is kept as long as no payout was raced. `ListBuilder` composes the crank with the vault's program, `QuorumLists`
those two with a multisig; `Trades`, `Bridge`, `ClaimRoots` and `LaunchJournal` each compose
services with `Landing`.

One run may host several independent systems: an `MC` module extends their modules and has one more
variable (`part`, `program`, `service`) that says which one a behaviour is of; the others stand still
in a final state. Nothing is lost, since they share no state, and a temporal property of one
is checked under its own fairness. `MCVaultFlow` also instantiates `HolderPasses` a second time,
with other constants.

Conventions: `MutX` beside a definition `X` is a plausible slip in the code that a property is
tested against. `Max...` constants are bounds on counters and clocks; they appear only in guards.

## 3. The runs

All constants are scaled down so that each boundary is crossed in a few steps: delays of one to four
ticks (with the order between them that the source has), percentages kept, amounts of a few units
so that every division rounds somewhere.

| Run | Shows | Bounds, and why they are enough |
|---|---|---|
| `reward_lists` | the books balance, the self-checks never trip and totals are funded (`BooksSound`), the guardian always has the delay and cannot stall (`GuardianHeard`), fallback shares are fair, the pool's promise is kept; with the publisher gone every wallet of a truthful live list gets its whole scaled share | two wallets, two keys, three units, two epochs, time 5 with fallback at 4: replace, cancel, late activation, rotation of the publisher and fallback after a partial payment all occur, at ratios that round |
| `passes` | *rounds*: no wallet holds two passes, what was allocated is paid or owed, moving a token into a round never pays, registering is never shut out for good, the pool's promise is kept. *tables*: entries counted as indexed are in the tables. *flow*: the accounts hold exactly what the counters promise (`EveryUnitBooked`) and the crank brings a vault to dust once trading stops (`TaxMoves`) | rounds: three wallets for two places (so eviction and the swap in `remove_pass` happen), one move of 400 tokens, two pool prices, five slots: two rounds and a lapsed one. tables: four wallets for three places, tables smaller than a book. flow: three kinds of vault, 10 units of tax, shares of 1, 3 and 1 in ten so that all splits round, a sale capped at 12 and a swap at 4 (so both need several), one gift, one failed send |
| `payouts` | *payouts*: unless a payout landed between the two reads of its fate nobody is paid twice and what is owed is covered; nothing allocated is lost; any stop can be resumed from (`JournalResumes`). *tax*: what the books set aside is in the wallet. *vault*: a slot is always free (`NeverFull`), deposits vest when they should and the books agree (`VestsOnTime`) | three interchangeable holders (symmetry; the run has no temporal property), two per batch, three blocks with validity 1: a transaction may land, fail, expire and be re-sent; three sends, two raises. tax: 4 tokens, shares 3/4/3 of ten, three transactions, all four combinations of pairing and reward. vault: three slots, two-tick buckets and vesting 4 = (3 - 1) x 2, the tightest the assumption allows; time 10, past the reuse of every slot |
| `curve` | *curve*: the product never shrinks, own checks never refuse a trade, positions add up to the counters and it ends clean, fair refunds, nothing before its wait is over (`WaitsOut`); every buyer of a filled curve gets tokens or XNT. *locker*: the principal stays in the lock and fees there are can be collected (`LockKeepsPrincipal`) | three traders, supply 25 and target 8, so every trade rounds and the last one fills exactly; time 4 with waits of 2. Lock of 7 or 17 out of 23 LP, so that a lock is a minority or most of a pool, reserves 20 and 30, four operations of others: the roundings of two collections add up. `IsqrtExact` compares the Newton loop with the definition up to 2000 |
| `list_builder` | unless a fallback payment was made after its records were read no published list names a wallet for less than it was paid; without any, whoever is paid first everyone's amount fits the live list's total; no live list takes back an allocation | two holders, one of whom holds all at a time (so what a list names moves between them), three units, delay 2, a transaction valid for 1, fallback at 4, time 9. Two beginnings: a new vault, and a fallback that a pending list which owes nobody anything is about to end (the `unpayablePending` exception). Lost, late and repeated transactions, one cancel, also of a due list, one tick of margin |
| `quorum` | a checked list that runs, however late, names nobody for less than they were paid, but for fallback payments after the co-signer's read and for due lists cancelled after the proposal; every proposal is settled but in the three cases of `Stranded` | a co-signer, the site and a backup with threshold 2, two proposals, one fault (a lost send or stopped process). It starts from four states the system gets to: a rejected first list, one whose rejection by the site was lost, a live list followed by long silence, and a list just proposed to follow one that is due but not yet activated; from the very beginning the state space is out of reach |
| `files` | cycles never overlap while no process that ran has ended; nobody's change to a trading file is written over; a launch's only key is never lost (`KeyKept`); dead owners' locks come free (`LocksComeFree`); each launch is settled | two loops, two one-cycle runs, one crash; three lock processes, any of which dies anywhere (the third breaks a breaker's lock); one launch, two faults, three blocks with validity 1, so a fork and a lagging node both occur |
| `services` | never-landed is never said of what landed or may; a trade stays counted or journaled unless dropped blindly; fees keep to the cap and one bot alone to the day (`LimitsKept`); one transfer at a time while bridge runs do not overlap; no pass loses or gains by a root given up too early | two interchangeable bots (symmetry), three trades, a day's limit of 3 with trades of 2, one midnight while at most one bot has run, fee cap 5 with reservations of 3 and charges of 2 (so the cap refuses); three transfers, a sending and a status run; three roots for two passes (interchangeable); validity 1 and two to four blocks, as many as keep each part's states in reach |

`CHECK_DEADLOCK FALSE` everywhere: with bounded clocks and budgets every one of these systems
legitimately comes to rest, and a finished curve or an idle crank is a real final state.

Four runs expect a violation. They are findings: places where what a comment or a document says is
not what the code does (quotes in `PROJECT.json`).

| Run | What happens |
|---|---|
| `payouts_race` | a payout that lands between the read of its status and the read of the block height is taken for expired and paid again |
| `lock_overlap` | a run that read the owner's id just before the owner finished takes the lock from the next run |
| `lists_fallback` | a `pay_fallback` between the builder's read of the paid records and the landing of `publish_list` leaves a wallet on the new list for less than it was paid; since the list's total is then too small for the rest, someone else's `pay` can be refused |
| `trades_forgotten` | a bot that looked before another one signed the intent drops it after it was signed; the trade lands uncounted |

Each has a passing counterpart that states what is promised when the race does not happen:
`PaidOnceUnlessRaced`, `OneCycleWhileAllLive`, `NobodyLeftBehind`, `TradesRemembered`.

Three more findings have no run of their own.
- A list that a quorum executed and the guardian cancelled before the site's next pass stays in the
  site's file for ever. It is the first disjunct of `Stranded` in `QuorumLists`; without that
  disjunct `ProposalsSettle` is violated by exactly that behaviour.
- A list that is due but that no instruction has activated yet may still be cancelled by the guardian
  (`cancel_list`, "any time until it has been activated"), after the site, or a co-signer, read it as
  live. The list built to follow it then follows nothing. A proposal for it is refused at every
  execution and never counts as stale, as `stale` (`factory/vault.ts:822`) looks only for lists the
  vault is past, so the site waits for ever; the comment at `factory/vault.ts:846` says that "A list
  the vault no longer accepts is caught as stale by the next pass". Or, once another list takes the
  cancelled one's epoch, the proposal runs on top of that list, whose allocations and payments it
  does not know, although `README.md:438` says that "lists never pay anyone less than they already
  received". It came to light when the invariant of `ListBuilder` would not prove. Without a quorum
  the protection is the blockhash: a transaction is dead long before another list can be due, which
  `BuilderAssumption` states (`VALIDITY < LIST_DELAY_SECS`). With one there is none; `overtaken` and
  the second case of `Stranded` exclude exactly these behaviours, and without them TLC violates
  `CheckedListsReach` and `ProposalsSettle`.
- A bridge run with `--status` that started before another run and settles an earlier transfer after
  it writes its older copy of the journal back, without the transfer that run sent.
  `UnderWayBlocksNext` in `Bridge` is what the script's header says; TLC refutes it from `BridgeOnly`
  in `MCServices`. `OneTransferUnlessOverlap` in `services` is what holds while runs do not overlap.

One limit of the code is inside a property rather than a finding, because no comment promises more:
bots that share an order check its daily limit and then trade, so two of them together may pass it
(`peg.ts:216`, `:257`; `AloneWithinDay` is about one).

## 4. Fairness

Liveness is stated only where the code justifies it.
- `reward_lists`: weak fairness on time and on fallback payments to each wallet. Anyone may send
  them, the crank does so in every pass, and they need no key. The publisher and the guardian owe
  nothing.
- `passes` (`FlowFair`): fairness on the crank's next step (it always has one, so weak fairness is
  written as taking one again and again), and weak fairness on slots, which allow the next sale. None on trading, on others' instructions or on gifts.
- `curve`: weak fairness on time, on `start_burn_clock`, `graduate_burn`, each delivery and each
  refund, which anyone may send and the curve crank does. No fairness on `graduate_pool` and
  `graduate_lock`: XDEX and lp_locker may fail for ever. Weak fairness on the upgrade: the source
  gives a curve recorded without times a way out only after it.
- `files`: on each live process's next step and on a loop's next cycle (the operating system
  schedules processes; a loop sleeps a bounded time); on the next call of a process inside
  `withFileLock`, whose loop is synchronous; for a launch on the server coming back up, on its sweep
  and collections, which run on timers, on time and blocks, and on a node showing a token that exists.
  No fairness on the creator's sending anything or on disk errors, of which there are boundedly many.
- `quorum`: on the site's and the co-signer's next steps, which are loops. None on the backup, the
  guardian, payers, or time.

The safety properties of these runs are checked under the same specifications; fairness does not
add or remove states. `NoLockout` in `passes` is a step property: a round that has lapsed blocks
nobody.

## 5. The proofs

Every theorem holds for all wallets, keys, roots, amounts, members and bounds, under the ASSUMEs of
the module it is about: roles are distinct, delays are ordered as the source orders them, shares are
parts of a whole, holders and passes are finitely many, and a transaction's validity is shorter than
a list's delay. TLC evaluates each of these ASSUMEs on its instance. Some theorems have a hypothesis
of their own, explained below: `MovingNeverEarns`, `IndexedAlwaysCovered`, `VotesAlwaysDecide`, and
the three about publishers. What no run checks (`ClaimsKeepPromise`, `PaysPromise`, `ChangesAtomic`,
and the statements of `VotesAlwaysDecide`, `SiteIsPublisher` and `QuorumIsPublisher`) was tried with
TLC on such small instances before it was proved. `PaysPromise` without its `raced` is violated
there, by a payout that lands between two reads of its fate.

Sums. Most of these systems promise that counters equal sums over holders, passes, batches or trades.
The models write them as folds of the community modules. `FiniteSums` proves of such a fold that it
does not depend on the order of its terms, what one changed, added or removed term does to it, that
it is monotone, and how it splits over two sets. Induction over a finite set is used in the form
that takes the *set* of all subsets with a property, so that no lemma takes an operator.

`RewardListsProofs`
- *The vault, whoever publishes.* The invariants of the run are not inductive alone: nothing in
  `GuardianWindow` says when the *pending* list was posted, so `IInv` adds `ClocksAgree` (a pending
  list's `active_at` is its posting time plus the delay, it is newer than the active one, and the
  counter of cancels agrees with history). `NoFault` needs `BooksBalance` (for Insolvent) and
  `TotalsFunded` (for OverFunded) as its hypotheses, so all are proved together. From it:
  `BooksStaySound`, `GuardianIsHeard`, `ListsNeverShrink`, `NothingTakenBack`, and `ListsKeepPromise`,
  the step simulation of `HolderPool`.
- *Fallback.* `FallbackAlwaysFair` needs `RecordsAddUp` (`holders_paid` is the sum of the records) and
  that floors of scaled shares add up to no more than what is scaled (`SharesFitFunded`).
- *The site.* `BuilderInv` follows a list from where it was read to where it is live. Of every list
  the site has read, composed, saved, or sent and not yet seen expire, it says that it allocates at
  least what the list before it does, and at least what was paid, for as long as nothing newer is
  posted and no fallback has paid since; and of the vault that records stay within the live list but
  for fallbacks. The hard case is a transaction in flight while another list is posted, goes due and
  is cancelled; it is closed by `Flights`: a transaction is gone before a list posted after it is
  due. Hence `EveryoneAlwaysFits`, `NobodyEverLeftBehind`, `AllocationsAlwaysKept`.
- *The quorum.* `QuorumInv` says what remains true of what a co-signer found. Its core,
  `FindingsStand`: from the moment a co-signer looked, as long as the list it looked at follows the
  live one and no fallback paid since, every payment is of an amount the list covers. It holds
  whoever else votes, executes or restarts, so `CheckedListsAlwaysReach` is about any number of
  co-signers and proposals, where the run has one and two. `overtaken` is needed, see section 3.
  `VotesAlwaysDecide` is a part of what `ProposalsSettle` rests on: an open proposal has a member
  whose vote is still to come, as neither side has reached its cutoff and nobody's vote counts for
  both. It assumes finitely many members and a threshold they can reach, as the multisig's program
  requires.
- *The compositions.* `SiteIsPublisher` and `QuorumIsPublisher`: every step of the site, of the members,
  of the network and of others is a step of `RewardLists` or leaves the vault alone, so each composed
  specification implements that of the vault. `RewardLists` takes what may be posted from constants
  (`Roots`, `MaxEpoch`), so the statement is of behaviours whose lists are among these
  (`ListsPostable`); the constants may be any. Hence `PublishersKeepBooks`: what is proved of the
  vault under any publisher (books, guardian, fallback, promise) holds of both compositions.

`TaxVaultProofs`
- *Tax flow.* `AlwaysBooked`: each account equals the counters it backs plus gifts; the work is
  arithmetic about shares (`burn + lp + rest` of what is collected, the pro-rata split of a sale,
  what the crank's reward leaves).
- *Passes.* `PassesInv` is `BookSound` with two sums: what entries are owed and not paid is
  `allocated` less `holders_paid`, and an open round's weight is that of the entries it has read. The
  swap in `remove_pass` permutes the terms. Hence `BookAlwaysSound` (types, self-checks, one pass per
  wallet, `EntitlementsAddUp`), `NeverLockedOut`, and the simulation `PassesKeepPromise`.
- `IndexedAlwaysCovered` assumes that callers pass the tables' account (`~OmitTables`), which the
  program leaves optional in `remove_pass` and `register_pass_evict`; the property says so too.
- `MovingNeverEarns` assumes `DustFree`: `POT_CAP_PCT_OF_TAX * BPS <= (100 - POT_CAP_PCT_OF_TAX) *
  TaxBps * min_holding`. The reason is a rounding the proof turned up. A
  round's cap is four fifths of the transfer tax on the weight it counted, and that tax is rounded
  *up*: where the weight is a few base units and the rate a few hundredths of a percent, the cap is
  a larger part of the weight than the tax rate, and more than what moving tokens costs.
  `init_passes` does not bound `min_holding` from below. At a tax of 5% the
  hypothesis asks for 80 base units, far less than any token's smallest sensible holding.

`BondingCurveProofs`: `IInv` ties the virtual reserves to the counters they are recomputed from, as
`k0` is not stored; the rounding facts are `CeilDivBounds`, `FeeInBounds`, `BuyQuoteSound` and
`SellQuoteSound`. `MoneyInv` adds the sums of the positions, what each stage of a curve has in which
account, and what refunds left. Hence `ProductNeverShrinks`, `NeitherEarly`, `ChecksNeverRefuse`
(no self-check of the program stops a trade), `AlwaysSettles` and `AlwaysFair` (refunds in any order).

`LpLockerProofs`
- `PrincipalAlwaysKept`: the inductive form compares *squares*, what the vault's LP covers of the
  product of the reserves against the square of the principal, since the root itself is only known
  up to rounding; each pool operation keeps product per squared LP from falling. `Isqrt` exists and
  is unique by the least-number principle.
- `NewtonIsExact`: `isqrt` returns the root rounded down for every number. A step never goes below the
  root and goes down from anything above it (`NewtonStep`, from four times a product being at most
  the square of the sum), so among starts there is no least one from which the loop goes wrong; and
  the power of two the code starts with is not below the root, as its square is at least a power
  above the number. The recursion is a recursive function over `1..start`; that it exists and is the
  only one is proved too, again by a least counterexample. In 128 bits the start is at most 2^64, so
  nothing in the loop overflows.
- `SlotsNeverFull`: every occupied slot vests at a bucket boundary within the vesting period, and two
  slots never share a bucket; were all taken there would be as many buckets as slots in a window with
  room for one fewer. `AlwaysVestsOnTime` needs that invariant and the sum of the slots.

`DistributorProofs`
- *Payouts.* `JournalInv`: what was allocated to a holder is what they received, what is owed to
  them, less what landed and is not yet booked, exactly while no race happened and at most with one;
  at most one batch is in doubt (`OneInDoubt`), and what is written down comes first (`JournalFirst`).
  Hence `AlwaysPaidOnce`, `NothingIsLost`, `AlwaysResumes`. `JournalKeepsPromise` adds `WalletAdds`, that
  the wallet and what holders received is all that was raised, and shows a landing batch to be one
  payment of the pool to many payees.
- *The other steps.* `TaxInv` treats a transaction that landed and is not booked as if it were.
  Pro-rata shares taken of a shrinking rest stay covered but for one unit a sale: `TaxSetAside`.

`TradesProofs`: `NeverIsNever` (only a finalized block past a transaction's last one, and an answer at
least as new, gives that verdict) and `NeverForgotten`, with one invariant per concern: the chain's,
what each bot's step knows of the trade it is at, what a verdict it holds means, and what the
journaled intent allows. History `blind` is exactly the drop of `trades_forgotten`.
`LimitsAlwaysKept` adds the sums of what is reserved, spent and counted (`FeeInv`, `DayInv`).

`JournalsProofs`
- `FilesKept`: the only copy of a launch's key; `OneTransfer` of bridge runs that do not overlap;
  `ClaimsAlwaysCovered`: `ClaimsInv` bounds what any root that may still land could pay each pass.
  `ClaimRootsKeepPromise`: each root that lands allocates no less to any pass than the one before,
  so the pool only gains, and a claim is within it.
- `CyclesApart`: while nobody has ended, whoever is in a cycle is named by the lock file, and any id a
  run has read is a live process's, so `acquireLock`'s last branch, the overwriting one, is never
  taken; the finding `lock_overlap` is the case this needs excluded.
- `OneInside` and from it `NoChangeIsLost`: a process between reading the breaker as its own and
  removing the lock knows who held it and that this holder is dead, so the lock can pass from a dead
  holder to a new one, never from a live one. `ChangesAreAtomic`: who replaces the file has read what
  it holds at that moment, and only that change is added, so the whole of `withFileLock` is one step
  to others, which is what `Trades` takes it for.

Model-checked only, and why.
- Liveness is out of the prover's reach: `FallbackReaches`, `TaxMoves`, `BuyersSettled`,
  `LocksComeFree`, `LaunchSettles`, `ProposalsSettle`.
- `BookStaysSound` puts `BookSound` and `IndexedCovers` of two instances together for one run; both
  parts are theorems (`BookAlwaysSound`, `IndexedAlwaysCovered`).
- The four properties of the runs that expect a violation are false.

Every other property of a run is a theorem.

## 6. Not modelled

- Merkle trees, account layouts, signatures, PDAs and rent of ordinary accounts: a list's root is
  its contents, an instruction sees the accounts it should.
- `init_vault`, `upgrade_vault` and the other set-up instructions; `mint_pass`, which creates an
  account once; `alloc_pass_book`, which grows one.
- A vault that pays *lists* in another token (`pay_token_inner` keeps the same books over another
  account), and a vault that changes from lists to passes.
- XDEX, gateways and the cluster: environment actions that may happen, fail, or come late; in
  `ListBuilder` a transaction lives for `VALIDITY` ticks, in the services for `Validity` blocks. XDEX's own
  swap and deposit formulas are in `LpLocker`, because the locker's promise rests on them.
- In `TaxFlow`: one price; impact caps as constants; a wrong or paused pool; `collect` over several
  transactions. In `LpLocker`: slippage minimums; other locks on the pool count among "others". In
  `TaxCycle`: quotes, thresholds and network fees; `SetAsideThere` allows one unit per sale, which
  is what its pro-rata rounding can promise twice. In `BondingCurve`: slippage limits and the check
  for one early buy per transaction, which only refuse.
- In `ListBuilder`: `allowListRebuild`, the payout thresholds (a wallet below them is only paid later,
  which anyone's payments cover). In `QuorumLists`: what `verifyList` recomputes of balances (a list
  it finds wrong is any list), setting up or changing the multisig, more than one co-signer.
- In `Trades`: prices and routes, the 24 hours after which a fee entry is forgotten, the 200 counted
  trades that are kept. In `Bridge`: the guardians' side.
- In `LaunchJournal`: pinning, forms, and the orphaned key file a save leaves when it is cut short
  for a launch that then fails.
- A run lock file left empty by a power loss, or an id reused by another process (`state.ts:177`):
  `DistributorLock` writes the id in the same step that creates the file.
- The tip check of "Distribute now" (`factory/trigger.ts:118`): used tips are read before and
  written after an await, so two requests with one tip may both start a run; nothing else relies on
  it, and the run lock keeps their cycles apart.
- The crank's rent budget (`vault-crank.ts:498`), which is in memory and starts over with it.
- Site, dashboards, agents, launch forms, deployment and rehearsal scripts: most of the TypeScript by
  size, with no shared mutable state and no correctness property beyond input checks. The programs,
  where the money is, are Rust.

## 7. What could come next

1. `pay_token` and the switch to passes in `RewardLists`; lists rebuilt from records alone.
2. Lookup tables only grow (T:1334), so a book with enough newcomers outgrows them and rounds fall
   back to plain transactions: a statement of how much of a book stays indexed.
3. What liveness rests on as theorems: for each `~>` of a run, the step that makes progress and the
   invariant that keeps it possible, as `VotesAlwaysDecide` does for one of them.
4. Splitting the write of the run lock's file from its creation; several co-signers.
