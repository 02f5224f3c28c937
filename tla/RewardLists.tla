----------------------------- MODULE RewardLists -----------------------------
(***************************************************************************)
(* The rewards-list half of the tax_vault program: a publisher posts a     *)
(* Merkle list of cumulative amounts, a guardian may cancel it while it is *)
(* pending, after a delay it goes live and anyone may have the program pay *)
(* the wallets it names.  When no list is published for a month the last   *)
(* list, scaled up to everything funded, is paid instead.                  *)
(*                                                                         *)
(* An instruction is one atomic step: one that returns an error leaves the *)
(* state as it was, so an error path is a conjunct that disables the       *)
(* action.  The two run-time self-checks the source keeps as a second line *)
(* of defence (OverFunded in `pay` and Insolvent after every payment) are  *)
(* modelled apart: an instruction they stop sets `fault`.                  *)
(*                                                                         *)
(* A root is the set of <<wallet, cumulative>> leaves it commits to, and a *)
(* valid proof is membership.  The cleared root of the source is {}.       *)
(***************************************************************************)
EXTENDS Integers, FiniteSets, Functions

CONSTANTS
    Wallets,            \* accounts a list may name
    Auth,               \* the vault's own lamport account (PDA "auth")
    Keys,               \* signers: publishers, the guardian
    Guardian,           \* the guardian's key, fixed at creation
    Roots,              \* the roots a publisher may post
    LIST_DELAY_SECS, APPOINT_AFTER_SECS, FALLBACK_AFTER_SECS,
    MAX_CANCELS_IN_ROW,
    Rent,               \* auth's rent-exempt reserve
    MaxTime,            \* bound on the clock
    MaxFunded,          \* bound on what the holders' share receives
    MaxEpoch,           \* bound on list numbers
    MaxDonated          \* bound on lamports sent to auth without a booking

Accounts == Wallets \cup {Auth}

ASSUME RolesAssumption == Guardian \in Keys
ASSUME RootsAssumption ==
    /\ IsFiniteSet(Wallets)
    /\ {} \in Roots
    /\ \A root \in Roots : IsFiniteSet(root) /\ root \subseteq Accounts \X Nat
ASSUME ClockAssumption ==
    /\ LIST_DELAY_SECS \in Nat \ {0}
    /\ APPOINT_AFTER_SECS \in Nat
    /\ FALLBACK_AFTER_SECS \in Nat
    /\ LIST_DELAY_SECS < APPOINT_AFTER_SECS
    /\ APPOINT_AFTER_SECS < FALLBACK_AFTER_SECS
ASSUME BoundsAssumption ==
    /\ MAX_CANCELS_IN_ROW \in Nat
    /\ Rent \in Nat
    /\ MaxTime \in Nat
    /\ MaxFunded \in Nat
    /\ MaxEpoch \in Nat
    /\ MaxDonated \in Nat
ASSUME AuthAssumption == Auth \notin Wallets

VARIABLES
    publisher,          \* the key that may publish
    list,               \* the active list (epoch 0: none yet)
    pending,            \* the pending list (epoch 0: none)
    last_publish_at, cancels_in_row,
    holders_funded, holders_paid, fallback_paid,
    paid,               \* PaidRecord.paid of every account
    lamports,           \* what each account holds
    now,                \* the cluster's unix clock
    donated,            \* history: lamports sent to auth outside the program
    posted_at,          \* history: when the pending list was posted
    live_posted_at,     \* history: when the active list was posted
    cancels,            \* history: lists cancelled since one went live
    fault               \* a self-check stopped an instruction

vault == <<publisher, list, pending, last_publish_at, cancels_in_row,
           holders_funded, holders_paid, fallback_paid>>
history == <<donated, posted_at, live_posted_at, cancels, fault>>
vars == <<vault, paid, lamports, now, history>>

NoList    == [epoch |-> 0, root |-> {}, total |-> 0]
NoPending == [epoch |-> 0, root |-> {}, total |-> 0, active_at |-> 0]

-----------------------------------------------------------------------------
(* activate_if_due: what the lists are once a pending list whose time has  *)
(* come has taken over.                                                    *)
Due == pending.epoch # 0 /\ now >= pending.active_at

EffList ==
    IF Due THEN [epoch |-> pending.epoch, root |-> pending.root, total |-> pending.total]
           ELSE list
EffPending == IF Due THEN NoPending ELSE pending

ActivateIfDue ==
    /\ list' = EffList
    /\ cancels_in_row' = IF Due THEN 0 ELSE cancels_in_row
    /\ live_posted_at' = IF Due THEN posted_at ELSE live_posted_at
    /\ cancels' = IF Due THEN 0 ELSE cancels

Larger(a, b) == IF a >= b THEN a ELSE b

(* Mutations: a total that may be under what was paid, or may exceed what  *)
(* was funded.                                                             *)
MutPublishForgetsPaid(epoch, total) ==
    /\ epoch = Larger(EffList.epoch, EffPending.epoch) + 1
    /\ total >= Larger(EffList.total, EffPending.total)
    /\ total <= holders_funded

CheckPublish(epoch, total) ==
    /\ epoch = Larger(EffList.epoch, EffPending.epoch) + 1
    /\ total >= Larger(Larger(EffList.total, EffPending.total), holders_paid)
    /\ total <= holders_funded

CheckAppoint == now >= last_publish_at + APPOINT_AFTER_SECS

CheckFallback ==
    /\ EffList.epoch > 0
    /\ EffPending.epoch = 0
    /\ now >= last_publish_at + FALLBACK_AFTER_SECS

(* When a list posted now may go live.  Mutation: a list that replaces a   *)
(* pending one inherits its clock.                                         *)
MutActiveAt ==
    IF EffPending.epoch # 0 THEN EffPending.active_at ELSE now + LIST_DELAY_SECS

ActiveAt == now + LIST_DELAY_SECS

(* A wallet's share of the list scaled up to everything funded.            *)
MutEntitledRoundsUp(cumulative, total) ==
    IF total = 0 THEN 0 ELSE (cumulative * holders_funded + total - 1) \div total

Entitled(cumulative, total) ==
    IF total = 0 THEN 0 ELSE (cumulative * holders_funded) \div total

-----------------------------------------------------------------------------
Init ==
    /\ publisher \in Keys \ {Guardian}
    /\ list = NoList
    /\ pending = NoPending
    /\ last_publish_at = 0
    /\ cancels_in_row = 0
    /\ holders_funded = 0
    /\ holders_paid = 0
    /\ fallback_paid = 0
    /\ paid = [a \in Accounts |-> 0]
    /\ lamports = [a \in Accounts |-> IF a = Auth THEN Rent ELSE 0]
    /\ now = 0
    /\ donated = 0
    /\ posted_at = 0
    /\ live_posted_at = 0
    /\ cancels = 0
    /\ fault = FALSE

PublishList(signer, root, epoch, total) ==
    /\ signer = publisher
    /\ CheckPublish(epoch, total)
    /\ ActivateIfDue
    /\ pending' = [epoch |-> epoch, root |-> root, total |-> total,
                   active_at |-> ActiveAt]
    /\ last_publish_at' = now
    /\ posted_at' = now
    /\ UNCHANGED <<publisher, holders_funded, holders_paid, fallback_paid,
                   paid, lamports, now, donated, fault>>

(* A due list is not activated here: the guardian can still clear it.      *)
CancelList(signer) ==
    /\ signer = Guardian
    /\ pending.epoch # 0
    /\ cancels_in_row < MAX_CANCELS_IN_ROW
    /\ cancels_in_row' = cancels_in_row + 1
    /\ pending' = NoPending
    /\ cancels' = cancels + 1
    /\ UNCHANGED <<publisher, list, last_publish_at, holders_funded,
                   holders_paid, fallback_paid, paid, lamports, now, donated,
                   posted_at, live_posted_at, fault>>

SetPublisher(signer, new) ==
    /\ signer = publisher
    /\ publisher' = new
    /\ UNCHANGED <<list, pending, last_publish_at, cancels_in_row,
                   holders_funded, holders_paid, fallback_paid, paid,
                   lamports, now, history>>

AppointPublisher(signer, new) ==
    /\ signer = Guardian
    /\ CheckAppoint
    /\ publisher' = new
    /\ UNCHANGED <<list, pending, last_publish_at, cancels_in_row,
                   holders_funded, holders_paid, fallback_paid, paid,
                   lamports, now, history>>

(* The part common to both payments: move the lamports and re-check that   *)
(* auth covers its promises.  A self-check that fails aborts the whole     *)
(* instruction and is remembered in `fault`.                               *)
Solvent(amount) ==
    lamports[Auth] - amount >= Rent + (holders_funded - (holders_paid + amount))

(* Mutation: fallback payments counted apart from the others.              *)
MutSettle(w, cumulative, amount, scaled) ==
    /\ ActivateIfDue
    /\ pending' = EffPending
    /\ paid' = [paid EXCEPT ![w] = cumulative]
    /\ holders_paid' = holders_paid + (IF scaled THEN 0 ELSE amount)
    /\ fallback_paid' = fallback_paid + (IF scaled THEN amount ELSE 0)
    /\ lamports' = [lamports EXCEPT ![Auth] = @ - amount, ![w] = @ + amount]
    /\ UNCHANGED <<publisher, last_publish_at, holders_funded, now,
                   donated, posted_at, fault>>

Settle(w, cumulative, amount, scaled) ==
    IF holders_paid + amount <= holders_funded /\ Solvent(amount)
    THEN /\ ActivateIfDue
         /\ pending' = EffPending
         /\ paid' = [paid EXCEPT ![w] = cumulative]
         /\ holders_paid' = holders_paid + amount
         /\ fallback_paid' = fallback_paid + (IF scaled THEN amount ELSE 0)
         /\ lamports' = [lamports EXCEPT ![Auth] = @ - amount, ![w] = @ + amount]
         /\ UNCHANGED <<publisher, last_publish_at, holders_funded, now,
                        donated, posted_at, fault>>
    ELSE /\ fault' = TRUE
         /\ UNCHANGED <<vault, paid, lamports, now, donated, posted_at,
                        live_posted_at, cancels>>

Pay(w, cumulative) ==
    /\ w # Auth
    /\ EffList.epoch > 0
    /\ <<w, cumulative>> \in EffList.root
    /\ cumulative > paid[w]
    /\ holders_paid + (cumulative - paid[w]) <= EffList.total
    /\ Settle(w, cumulative, cumulative - paid[w], FALSE)

(* Mutation: the fallback keeps to the list's unscaled total.              *)
MutFallbackUnscaled(w, cumulative) ==
    LET entitled == Entitled(cumulative, EffList.total) IN
    /\ w # Auth
    /\ CheckFallback
    /\ <<w, cumulative>> \in EffList.root
    /\ entitled > paid[w]
    /\ holders_paid + (entitled - paid[w]) <= EffList.total
    /\ Settle(w, entitled, entitled - paid[w], TRUE)

PayFallback(w, cumulative) ==
    LET entitled == Entitled(cumulative, EffList.total) IN
    /\ w # Auth
    /\ CheckFallback
    /\ <<w, cumulative>> \in EffList.root
    /\ entitled > paid[w]
    /\ holders_paid + (entitled - paid[w]) <= holders_funded
    /\ Settle(w, entitled, entitled - paid[w], TRUE)

(* Anyone adds to the holders' share.                                      *)
SponsorHolders(amount) ==
    /\ amount > 0
    /\ holders_funded + amount <= MaxFunded
    /\ holders_funded' = holders_funded + amount
    /\ lamports' = [lamports EXCEPT ![Auth] = @ + amount]
    /\ UNCHANGED <<publisher, list, pending, last_publish_at, cancels_in_row,
                   holders_paid, fallback_paid, paid, now, history>>

(* A plain transfer to auth, which the program never sees.                 *)
Donate ==
    /\ donated < MaxDonated
    /\ donated' = donated + 1
    /\ lamports' = [lamports EXCEPT ![Auth] = @ + 1]
    /\ UNCHANGED <<vault, paid, now, posted_at, live_posted_at, cancels, fault>>

Tick ==
    /\ now < MaxTime
    /\ now' = now + 1
    /\ UNCHANGED <<vault, paid, lamports, history>>

Publish == \E signer \in Keys, root \in Roots, epoch \in 1..MaxEpoch, total \in 0..MaxFunded :
               PublishList(signer, root, epoch, total)
Cancel  == \E signer \in Keys : CancelList(signer)
Rotate  == \E signer, new \in Keys : SetPublisher(signer, new)
Appoint == \E signer, new \in Keys : AppointPublisher(signer, new)
PayAny  == \E leaf \in EffList.root : Pay(leaf[1], leaf[2])
PayFallbackAny == \E leaf \in EffList.root : PayFallback(leaf[1], leaf[2])
Sponsor == \E amount \in 1..MaxFunded : SponsorHolders(amount)

Next == \/ Publish \/ Cancel \/ Rotate \/ Appoint
        \/ PayAny \/ PayFallbackAny
        \/ Sponsor \/ Donate \/ Tick

Spec == Init /\ [][Next]_vars

(* Anyone may send a payment, so one that stays possible is sent; the      *)
(* publisher and the guardian owe the system nothing.                      *)
ListsFair ==
    /\ WF_vars(Tick)
    /\ \A w \in Wallets :
          WF_vars(\E leaf \in EffList.root : leaf[1] = w /\ PayFallback(leaf[1], leaf[2]))

LiveSpec == Spec /\ ListsFair
-----------------------------------------------------------------------------
ListType == [epoch : Nat, root : Roots, total : Nat]
PendingType == [epoch : Nat, root : Roots, total : Nat, active_at : Nat]

TypeOK ==
    /\ publisher \in Keys
    /\ list \in ListType
    /\ pending \in PendingType
    /\ last_publish_at \in Nat /\ cancels_in_row \in Nat
    /\ holders_funded \in Nat /\ holders_paid \in Nat /\ fallback_paid \in Nat
    /\ paid \in [Accounts -> Nat]
    /\ lamports \in [Accounts -> Int]
    /\ now \in Nat
    /\ donated \in Nat /\ posted_at \in Nat /\ live_posted_at \in Nat
    /\ cancels \in Nat
    /\ fault \in BOOLEAN

(* The self-checks (OverFunded in book_pay, check_solvent) never stop a    *)
(* payment: the books alone already rule out what they look for, so no     *)
(* order of publishing, cancelling, sponsoring and paying freezes payouts. *)
NoFault == ~fault

(* book_pay: auth holds exactly what the books say is still promised, and  *)
(* each wallet holds exactly what its record says it was paid.             *)
BooksBalance ==
    /\ lamports[Auth] = Rent + donated + holders_funded - holders_paid
    /\ \A w \in Wallets : lamports[w] = paid[w]

(* check_publish, book_pay: no list ever allocates more than was funded,   *)
(* and payments never reach beyond a list waiting to go live, so that list *)
(* starts with holders_paid <= list_total even after a fallback.           *)
TotalsFunded ==
    /\ holders_paid <= holders_funded
    /\ list.total <= holders_funded
    /\ pending.epoch # 0 =>
          /\ pending.total <= holders_funded
          /\ list.total <= pending.total
          /\ holders_paid <= pending.total

(* Together, with the types: no order of instructions brings the books out of    *)
(* step with what auth holds, with the lists, or to a freeze.              *)
BooksSound == TypeOK /\ NoFault /\ BooksBalance /\ TotalsFunded

(* v3 notes: payments exceed the active list's total only through          *)
(* pay_fallback, and then by no more than it paid.                         *)
ExcessIsFallback == holders_paid <= list.total + fallback_paid

(* publish_list, activate_if_due: a list pays nobody until it has been     *)
(* public for the whole delay, whatever was replaced or cancelled before.  *)
GuardianWindow ==
    /\ list.epoch > 0 => live_posted_at + LIST_DELAY_SECS <= now
    /\ Due => posted_at + LIST_DELAY_SECS <= now

(* cancel_list: between two lists going live the guardian stops at most    *)
(* MAX_CANCELS_IN_ROW, so it can not hold back payouts for good.           *)
CancelsBounded == cancels <= MAX_CANCELS_IN_ROW

(* v3 notes: the guardian always has the delay to stop a list, and can not *)
(* use it to stop them all.                                                *)
GuardianHeard == GuardianWindow /\ CancelsBounded

(* A list changes only by a newer one, with a total that is not lower,     *)
(* going live.                                                             *)
ListsOnlyGrow ==
    [][list' # list => list'.epoch > list.epoch /\ list'.total >= list.total]_vars

(* No wallet's record, and nothing already paid, ever goes down.           *)
PaidNeverDrops ==
    [][/\ holders_paid' >= holders_paid
       /\ \A w \in Wallets : paid'[w] >= paid[w] /\ lamports'[w] >= lamports[w]]_vars

(* publish_list ... sponsor_holders together keep the promise of           *)
(* HolderPool: wallets get, out of what was funded, exactly what is booked.*)
Pool == INSTANCE HolderPool WITH
            Payees <- Wallets, funded <- holders_funded, spent <- holders_paid,
            received <- [w \in Wallets |-> lamports[w]]
KeepsPromise == Pool!PoolSpec

-----------------------------------------------------------------------------
Leaves(w) == {leaf \in EffList.root : leaf[1] = w}
ListAmount(w) ==
    IF Leaves(w) = {} THEN 0
    ELSE LET top == CHOOSE leaf \in Leaves(w) : \A l \in Leaves(w) : leaf[2] >= l[2]
         IN  top[2]

Sum(f) == FoldFunction(LAMBDA x, y : x + y, 0, f)

(* The list a truthful publisher leaves behind: it names every wallet that *)
(* was paid, once, for no less in scale than it got, and adds up.          *)
HonestList ==
    /\ \A leaf \in EffList.root : leaf[1] # Auth
    /\ Sum([w \in Wallets |-> ListAmount(w)]) <= EffList.total
    /\ \A w \in Wallets : paid[w] <= Entitled(ListAmount(w), EffList.total)

(* pay_fallback: with such a list, whatever was paid first and however     *)
(* much arrived since, everyone's scaled share still fits what is funded,  *)
(* so no wallet starves because others were faster.                        *)
FallbackFair ==
    CheckFallback /\ HonestList =>
        \A leaf \in EffList.root :
            LET entitled == Entitled(leaf[2], EffList.total)
            IN  entitled > paid[leaf[1]] =>
                    holders_paid + (entitled - paid[leaf[1]]) <= holders_funded

(* pay_fallback: with the operator gone, anyone's payments bring each      *)
(* wallet of such a live list its whole scaled share, unless a new list    *)
(* ends the fallback first.                                                *)
FallbackReaches ==
    \A w \in Wallets :
        (CheckFallback /\ HonestList /\ pending.epoch = 0)
        ~> (~CheckFallback \/ paid[w] >= Entitled(ListAmount(w), EffList.total))
=============================================================================
