-------------------------- MODULE RewardListsProofs --------------------------
(***************************************************************************)
(* Safety of the rewards lists: of the vault whoever publishes             *)
(* (RewardLists), of the site that builds the lists (ListBuilder), and of  *)
(* the quorum that checks them (QuorumLists), for every set of wallets,    *)
(* keys, roots and members, every delay and every bound.                   *)
(*                                                                         *)
(*   IInv         what the vault's books are, under any publisher          *)
(*   RecordsAddUp IInv, and the paid records add up to holders_paid        *)
(*   BuilderInv   every list the site has built, saved, sent or that the   *)
(*                vault holds covers the one before it and what was paid   *)
(*   QuorumInv    what a co-signer has found of a list stays true until    *)
(*                somebody is paid past the lists                          *)
(*   KeyAndShare  with either of the two, every step is one of the vault's *)
(*   VotesCounted an open proposal is short of votes on both sides         *)
(***************************************************************************)
EXTENDS QuorumLists, FiniteSums, TLAPS

(* The pending list's clock is the one it was posted with, a pending list  *)
(* is newer than the active one, and the counter of cancels is exact.      *)
ClocksAgree ==
    /\ pending.epoch # 0 =>
          /\ pending.active_at = posted_at + LIST_DELAY_SECS
          /\ pending.epoch > list.epoch
    /\ list.epoch > 0 => live_posted_at + LIST_DELAY_SECS <= now
    /\ cancels = cancels_in_row
    /\ cancels_in_row <= MAX_CANCELS_IN_ROW

(* The inductive invariant.                                                *)
IInv ==
    /\ TypeOK
    /\ NoFault
    /\ BooksBalance
    /\ TotalsFunded
    /\ ExcessIsFallback
    /\ ClocksAgree

(* A quotient of naturals is a natural.                                    *)
LEMMA DivNat == ASSUME NEW a \in Nat, NEW b \in Nat, b # 0
                PROVE  a \div b \in Nat
  OBVIOUS

(* A scaled share is a natural number.                                     *)
LEMMA EntitledNat == ASSUME holders_funded \in Nat, NEW c \in Nat, NEW t \in Nat
                     PROVE  Entitled(c, t) \in Nat
  <1>1. c * holders_funded \in Nat
    OBVIOUS
  <1>2. QED  BY <1>1, DivNat DEF Entitled

(* What activate_if_due leaves: a list of the right type whose total is    *)
(* funded and not under the active one's, posted long enough ago.          *)
LEMMA EffFacts ==
  ASSUME IInv
  PROVE  /\ EffList \in ListType
         /\ EffPending \in PendingType
         /\ EffList.total <= holders_funded
         /\ list.total <= EffList.total
         /\ EffList.epoch >= list.epoch
         /\ Due => posted_at + LIST_DELAY_SECS <= now /\ pending.epoch > list.epoch
         /\ EffPending.epoch # 0 =>
               /\ EffPending = pending
               /\ EffList = list
<1>1. NoPending \in PendingType /\ NoPending.epoch = 0
  BY RootsAssumption DEF NoPending, PendingType
<1>2. /\ list \in ListType /\ pending \in PendingType
      /\ holders_funded \in Nat /\ posted_at \in Nat /\ now \in Nat
  BY DEF IInv, TypeOK
<1>3. CASE Due
  <2>1. /\ EffList = [epoch |-> pending.epoch, root |-> pending.root, total |-> pending.total]
        /\ EffPending = NoPending
        /\ pending.epoch # 0 /\ now >= pending.active_at
    BY <1>3 DEF EffList, EffPending, Due
  <2>2. EffList \in ListType
    BY <2>1, <1>2 DEF ListType, PendingType
  <2>3. QED
    BY <2>1, <2>2, <1>1, <1>2, <1>3, ClockAssumption
       DEF IInv, TotalsFunded, ClocksAgree, ListType, PendingType
<1>4. CASE ~Due
  <2>1. EffList = list /\ EffPending = pending
    BY <1>4 DEF EffList, EffPending
  <2>2. QED
    BY <2>1, <1>2, <1>4 DEF IInv, TotalsFunded, ListType, PendingType
<1>5. QED  BY <1>3, <1>4

(* The initial state satisfies the inductive invariant.                    *)
LEMMA InitIInv == Init => IInv
<1> SUFFICES ASSUME Init PROVE IInv
  OBVIOUS
<1>1. list \in ListType /\ pending \in PendingType
  BY RootsAssumption DEF Init, NoList, NoPending, ListType, PendingType
<1>2. paid \in [Accounts -> Nat] /\ lamports \in [Accounts -> Int]
  BY BoundsAssumption DEF Init
<1>3. TypeOK
  BY <1>1, <1>2 DEF Init, TypeOK
<1>4. BooksBalance
  BY AuthAssumption, BoundsAssumption DEF Init, BooksBalance, Accounts
<1>5. NoFault /\ TotalsFunded /\ ExcessIsFallback /\ ClocksAgree
  BY BoundsAssumption
     DEF Init, NoFault, TotalsFunded, ExcessIsFallback, ClocksAgree, NoList, NoPending
<1>6. QED  BY <1>3, <1>4, <1>5 DEF IInv

-----------------------------------------------------------------------------
(* publish_list keeps the invariant.                                       *)
LEMMA PublishStep ==
  ASSUME IInv, NEW signer \in Keys, NEW root \in Roots, NEW epoch \in Nat,
         NEW total \in Nat, PublishList(signer, root, epoch, total)
  PROVE  IInv'
<1>1. /\ EffList \in ListType /\ EffPending \in PendingType
      /\ list.total <= EffList.total
      /\ EffList.epoch >= list.epoch
      /\ Due => posted_at + LIST_DELAY_SECS <= now
      /\ EffPending.epoch # 0 => EffList = list
  BY EffFacts
<1>2. /\ pending' = [epoch |-> epoch, root |-> root, total |-> total,
                     active_at |-> now + LIST_DELAY_SECS]
      /\ list' = EffList
      /\ epoch > EffList.epoch
      /\ total >= EffList.total /\ total >= holders_paid /\ total <= holders_funded
      /\ posted_at' = now
  BY <1>1 DEF PublishList, CheckPublish, ActivateIfDue, ActiveAt, Larger, ListType, PendingType,
              IInv, TypeOK
<1>3. TypeOK'
  <2>1. list' \in ListType /\ pending' \in PendingType
    BY <1>1, <1>2, ClockAssumption DEF IInv, TypeOK, PendingType
  <2>2. QED
    BY <2>1 DEF PublishList, ActivateIfDue, IInv, TypeOK
<1>4. BooksBalance'
  BY DEF PublishList, IInv, BooksBalance
<1>5. TotalsFunded'
  BY <1>1, <1>2, EffFacts DEF PublishList, IInv, TypeOK, TotalsFunded, ListType
<1>6. ExcessIsFallback'
  BY <1>1, <1>2 DEF PublishList, IInv, TypeOK, ExcessIsFallback, ListType
<1>7. ClocksAgree'
  <2>1. CASE Due
    BY <2>1, <1>1, <1>2, BoundsAssumption
       DEF PublishList, ActivateIfDue, IInv, TypeOK, ClocksAgree
  <2>2. CASE ~Due
    BY <2>2, <1>1, <1>2, BoundsAssumption
       DEF PublishList, ActivateIfDue, IInv, TypeOK, ClocksAgree, EffList, ListType
  <2>3. QED  BY <2>1, <2>2
<1>8. NoFault'
  BY DEF PublishList, IInv, NoFault
<1>9. QED  BY <1>3, <1>4, <1>5, <1>6, <1>7, <1>8 DEF IInv

(* cancel_list keeps the invariant.                                        *)
LEMMA CancelStep ==
  ASSUME IInv, NEW signer \in Keys, CancelList(signer)
  PROVE  IInv'
<1>1. pending' \in PendingType /\ pending'.epoch = 0
  BY RootsAssumption DEF CancelList, NoPending, PendingType
<1>2. TypeOK'
  BY <1>1 DEF CancelList, IInv, TypeOK
<1>3. ClocksAgree'
  BY <1>1, BoundsAssumption DEF CancelList, IInv, TypeOK, ClocksAgree
<1>4. NoFault' /\ BooksBalance' /\ TotalsFunded' /\ ExcessIsFallback'
  BY <1>1 DEF CancelList, IInv, NoFault, BooksBalance, TotalsFunded, ExcessIsFallback
<1>5. QED  BY <1>2, <1>3, <1>4 DEF IInv

(* A payment of `amount` to w that both self-checks let through.           *)
PaidOut(w, cumulative, amount, scaled) ==
    /\ ActivateIfDue
    /\ pending' = EffPending
    /\ paid' = [paid EXCEPT ![w] = cumulative]
    /\ holders_paid' = holders_paid + amount
    /\ fallback_paid' = fallback_paid + (IF scaled THEN amount ELSE 0)
    /\ lamports' = [lamports EXCEPT ![Auth] = @ - amount, ![w] = @ + amount]
    /\ UNCHANGED <<publisher, last_publish_at, holders_funded, now,
                   donated, posted_at, fault>>

(* A payment that fits what was funded passes both self-checks.            *)
LEMMA SettleSucceeds ==
  ASSUME IInv, NEW w \in Wallets, NEW cumulative \in Nat, NEW amount \in Nat,
         NEW scaled \in BOOLEAN,
         holders_paid + amount <= holders_funded,
         Settle(w, cumulative, amount, scaled)
  PROVE  PaidOut(w, cumulative, amount, scaled)
<1>1. Auth \in Accounts
  BY DEF Accounts
<1>2. /\ holders_funded \in Nat /\ holders_paid \in Nat
      /\ donated \in Nat /\ lamports \in [Accounts -> Int]
  BY DEF IInv, TypeOK
<1>3. Solvent(amount)
  BY <1>1, <1>2, BoundsAssumption DEF Solvent, IInv, BooksBalance
<1>4. QED  BY <1>3 DEF Settle, PaidOut

(* Such a payment keeps the invariant.                                     *)
LEMMA SettleStep ==
  ASSUME IInv, NEW w \in Wallets, NEW cumulative \in Nat, NEW amount \in Nat,
         NEW scaled \in BOOLEAN,
         amount = cumulative - paid[w],
         holders_paid + amount <= holders_funded,
         ~scaled => holders_paid + amount <= EffList.total,
         EffPending.epoch # 0 => holders_paid + amount <= EffPending.total,
         Settle(w, cumulative, amount, scaled)
  PROVE  IInv'
<1>1. /\ w \in Accounts /\ Auth \in Accounts /\ w # Auth
  BY AuthAssumption DEF Accounts
<1>2. /\ holders_funded \in Nat /\ holders_paid \in Nat /\ fallback_paid \in Nat
      /\ donated \in Nat /\ paid \in [Accounts -> Nat]
      /\ lamports \in [Accounts -> Int]
  BY DEF IInv, TypeOK
<1>4. PaidOut(w, cumulative, amount, scaled)
  BY SettleSucceeds
<1> USE DEF PaidOut
<1>5. TypeOK'
  <2>1. list' \in ListType /\ pending' \in PendingType
    BY <1>4, EffFacts DEF ActivateIfDue
  <2>2. /\ paid' \in [Accounts -> Nat] /\ lamports' \in [Accounts -> Int]
        /\ holders_paid' \in Nat /\ fallback_paid' \in Nat
    BY <1>1, <1>2, <1>4
  <2>3. cancels_in_row' \in Nat /\ live_posted_at' \in Nat /\ cancels' \in Nat
    BY <1>4 DEF ActivateIfDue, IInv, TypeOK
  <2>4. QED  BY <2>1, <2>2, <2>3, <1>4 DEF IInv, TypeOK
<1>6. NoFault'
  BY <1>4 DEF IInv, NoFault
<1>7. BooksBalance'
  <2>1. lamports'[Auth] = lamports[Auth] - amount
    BY <1>1, <1>2, <1>4
  <2>2. lamports'[w] = lamports[w] + amount /\ paid'[w] = paid[w] + amount
    BY <1>1, <1>2, <1>4
  <2>3. \A x \in Wallets \ {w} : lamports'[x] = lamports[x] /\ paid'[x] = paid[x]
    BY <1>1, <1>2, <1>4, AuthAssumption DEF Accounts
  <2>4. lamports'[Auth] = Rent + donated' + holders_funded' - holders_paid'
    BY <2>1, <1>1, <1>2, <1>4, BoundsAssumption DEF IInv, BooksBalance
  <2>5. \A x \in Wallets : lamports'[x] = paid'[x]
    BY <2>2, <2>3 DEF IInv, BooksBalance
  <2>6. QED  BY <2>4, <2>5 DEF BooksBalance
<1>8. TotalsFunded'
  BY <1>4, EffFacts, <1>2 DEF ActivateIfDue, IInv, TotalsFunded, ListType
<1>9. ExcessIsFallback'
  BY <1>4, EffFacts, <1>2 DEF ActivateIfDue, IInv, TypeOK, ExcessIsFallback, ListType
<1>10. ClocksAgree'
  <2>1. CASE Due
    BY <2>1, <1>4, EffFacts, BoundsAssumption
       DEF ActivateIfDue, IInv, TypeOK, ClocksAgree, EffPending, NoPending
  <2>2. CASE ~Due
    BY <2>2, <1>4 DEF ActivateIfDue, IInv, ClocksAgree, EffList, EffPending
  <2>3. QED  BY <2>1, <2>2
<1>11. QED  BY <1>5, <1>6, <1>7, <1>8, <1>9, <1>10 DEF IInv

(* Every leaf of the list payments are made from is an account's, for a    *)
(* natural amount.                                                         *)
LEMMA LeafType ==
  ASSUME IInv, NEW leaf \in EffList.root
  PROVE  leaf[1] \in Accounts /\ leaf[2] \in Nat /\ leaf = <<leaf[1], leaf[2]>>
<1>1. EffList.root \in Roots
  BY EffFacts DEF ListType
<1>2. leaf \in Accounts \X Nat
  BY <1>1, RootsAssumption
<1>3. QED  BY <1>2

(* pay keeps the invariant.                                                *)
LEMMA PayStep ==
  ASSUME IInv, NEW w \in Accounts, NEW c \in Nat, Pay(w, c)
  PROVE  IInv'
<1>1. w \in Wallets /\ paid[w] \in Nat
  BY DEF Pay, Accounts, IInv, TypeOK
<1>2. /\ EffList.total \in Nat /\ EffList.total <= holders_funded
      /\ EffPending.epoch # 0 => EffPending = pending /\ EffList = list
  BY EffFacts DEF ListType
<1>3. /\ holders_paid \in Nat /\ holders_funded \in Nat
      /\ pending.epoch # 0 => list.total <= pending.total /\ pending.total \in Nat
  BY DEF IInv, TypeOK, TotalsFunded, PendingType
<1>4. c - paid[w] \in Nat
  BY <1>1 DEF Pay
<1>8. holders_paid + (c - paid[w]) <= EffList.total /\ Settle(w, c, c - paid[w], FALSE)
  BY DEF Pay
<1>5. EffPending.epoch # 0 => holders_paid + (c - paid[w]) <= EffPending.total
  BY <1>2, <1>3, <1>4, <1>8
<1>6. holders_paid + (c - paid[w]) <= holders_funded
  BY <1>2, <1>3, <1>4, <1>8
<1>7. QED  BY <1>1, <1>4, <1>5, <1>6, <1>8, SettleStep

(* pay_fallback keeps the invariant.                                       *)
LEMMA PayFallbackStep ==
  ASSUME IInv, NEW w \in Accounts, NEW c \in Nat, PayFallback(w, c)
  PROVE  IInv'
<1> DEFINE e == Entitled(c, EffList.total)
<1>1. w \in Wallets /\ paid[w] \in Nat
  BY DEF PayFallback, Accounts, IInv, TypeOK
<1>2. EffList.total \in Nat /\ holders_funded \in Nat
  BY EffFacts DEF ListType, IInv, TypeOK
<1>3. e \in Nat
  BY <1>2, EntitledNat
<1>4. /\ e > paid[w]
      /\ holders_paid + (e - paid[w]) <= holders_funded
      /\ EffPending.epoch = 0
      /\ Settle(w, e, e - paid[w], TRUE)
  BY DEF PayFallback, CheckFallback
<1> HIDE DEF e
<1>5. e - paid[w] \in Nat
  BY <1>1, <1>3, <1>4
<1>6. QED  BY <1>1, <1>3, <1>4, <1>5, SettleStep

(* Sponsoring the holders' share keeps the invariant.                      *)
LEMMA SponsorStep ==
  ASSUME IInv, NEW amount \in Nat, SponsorHolders(amount)
  PROVE  IInv'
<1>1. TypeOK'
  BY DEF SponsorHolders, history, Accounts, IInv, TypeOK
<1>2. BooksBalance'
  <2>1. Auth \in Accounts /\ \A w \in Wallets : w \in Accounts /\ w # Auth
    BY AuthAssumption DEF Accounts
  <2>2. QED
    BY <2>1, BoundsAssumption DEF SponsorHolders, history, IInv, TypeOK, BooksBalance
<1>3. TotalsFunded'
  BY DEF SponsorHolders, IInv, TypeOK, TotalsFunded, ListType, PendingType
<1>4. NoFault' /\ ExcessIsFallback' /\ ClocksAgree'
  BY DEF SponsorHolders, history, IInv, NoFault, ExcessIsFallback, ClocksAgree
<1>5. QED  BY <1>1, <1>2, <1>3, <1>4 DEF IInv

(* Lamports sent straight to auth keep the invariant.                      *)
LEMMA DonateStep == ASSUME IInv, Donate PROVE IInv'
<1>1. TypeOK'
  BY DEF Donate, vault, Accounts, IInv, TypeOK
<1>2. BooksBalance'
  <2>1. Auth \in Accounts /\ \A w \in Wallets : w \in Accounts /\ w # Auth
    BY AuthAssumption DEF Accounts
  <2>2. QED
    BY <2>1, BoundsAssumption DEF Donate, vault, IInv, TypeOK, BooksBalance
<1>3. NoFault' /\ TotalsFunded' /\ ExcessIsFallback' /\ ClocksAgree'
  BY DEF Donate, vault, IInv, NoFault, TotalsFunded, ExcessIsFallback, ClocksAgree
<1>4. QED  BY <1>1, <1>2, <1>3 DEF IInv

(* Time passing keeps the invariant.                                       *)
LEMMA TickStep == ASSUME IInv, Tick PROVE IInv'
<1>1. TypeOK'
  BY DEF Tick, vault, history, IInv, TypeOK
<1>2. ClocksAgree'
  BY ClockAssumption DEF Tick, vault, history, IInv, TypeOK, ClocksAgree
<1>3. NoFault' /\ BooksBalance' /\ TotalsFunded' /\ ExcessIsFallback'
  BY DEF Tick, vault, history, IInv, NoFault, BooksBalance, TotalsFunded, ExcessIsFallback
<1>4. QED  BY <1>1, <1>2, <1>3 DEF IInv

(* A change of publisher keeps the invariant, which does not name it.      *)
LEMMA PublisherStep ==
  ASSUME IInv, publisher' \in Keys,
         UNCHANGED <<list, pending, last_publish_at, cancels_in_row,
                     holders_funded, holders_paid, fallback_paid, paid,
                     lamports, now, history>>
  PROVE  IInv'
  BY DEF history, IInv, TypeOK, NoFault, BooksBalance, TotalsFunded, ExcessIsFallback,
         ClocksAgree

(* Every step of the program keeps the invariant.                          *)
LEMMA NextIInv == IInv /\ [Next]_vars => IInv'
<1> SUFFICES ASSUME IInv, [Next]_vars PROVE IInv'
  OBVIOUS
<1>1. CASE Publish
  <2>1. PICK signer \in Keys, root \in Roots, epoch \in 1..MaxEpoch, total \in 0..MaxFunded :
            PublishList(signer, root, epoch, total)
    BY <1>1 DEF Publish
  <2>2. epoch \in Nat /\ total \in Nat
    BY BoundsAssumption
  <2>3. QED  BY <2>1, <2>2, PublishStep
<1>2. CASE Cancel
  BY <1>2, CancelStep DEF Cancel
<1>3. CASE Rotate
  BY <1>3, PublisherStep DEF Rotate, SetPublisher
<1>4. CASE Appoint
  BY <1>4, PublisherStep DEF Appoint, AppointPublisher
<1>5. CASE PayAny
  BY <1>5, LeafType, PayStep DEF PayAny
<1>6. CASE PayFallbackAny
  BY <1>6, LeafType, PayFallbackStep DEF PayFallbackAny
<1>7. CASE Sponsor
  <2>1. PICK amount \in 1..MaxFunded : SponsorHolders(amount)
    BY <1>7 DEF Sponsor
  <2>2. amount \in Nat
    BY BoundsAssumption
  <2>3. QED  BY <2>1, <2>2, SponsorStep
<1>8. CASE Donate
  BY <1>8, DonateStep
<1>9. CASE Tick
  BY <1>9, TickStep
<1>10. CASE UNCHANGED vars
  BY <1>10 DEF vars, vault, history, IInv, TypeOK, NoFault, BooksBalance,
               TotalsFunded, ExcessIsFallback, ClocksAgree
<1>11. QED
  BY <1>1, <1>2, <1>3, <1>4, <1>5, <1>6, <1>7, <1>8, <1>9, <1>10 DEF Next

(* The inductive invariant holds throughout.                               *)
LEMMA InvariantHolds == Spec => []IInv
  BY InitIInv, NextIInv, PTL DEF Spec

-----------------------------------------------------------------------------
(* The state keeps its types.                                              *)
THEOREM TypesHold == Spec => []TypeOK
<1>1. IInv => TypeOK
  BY DEF IInv
<1>2. QED  BY <1>1, InvariantHolds, PTL

(* The program's self-checks on payments never stop one: OverFunded in     *)
(* book_pay and Insolvent after it are unreachable.                        *)
THEOREM SelfChecksNeverTrip == Spec => []NoFault
<1>1. IInv => NoFault
  BY DEF IInv
<1>2. QED  BY <1>1, InvariantHolds, PTL

(* auth always holds exactly its reserve, what was given to it and what is *)
(* still promised; each wallet exactly what its record says.               *)
THEOREM BooksAlwaysBalance == Spec => []BooksBalance
<1>1. IInv => BooksBalance
  BY DEF IInv
<1>2. QED  BY <1>1, InvariantHolds, PTL

(* Lists stay within what was funded, and a waiting list within reach of   *)
(* every payment made before it goes live.                                 *)
THEOREM TotalsStayFunded == Spec => []TotalsFunded
<1>1. IInv => TotalsFunded
  BY DEF IInv
<1>2. QED  BY <1>1, InvariantHolds, PTL

(* The books stay in step with auth, with every list, and are never frozen.*)
THEOREM BooksStaySound == Spec => []BooksSound
  BY TypesHold, SelfChecksNeverTrip, BooksAlwaysBalance, TotalsStayFunded, PTL DEF BooksSound

(* Payments pass the active list's total only by what pay_fallback paid.   *)
THEOREM OnlyFallbackExceeds == Spec => []ExcessIsFallback
<1>1. IInv => ExcessIsFallback
  BY DEF IInv
<1>2. QED  BY <1>1, InvariantHolds, PTL

(* No list pays before it was public for LIST_DELAY_SECS.                  *)
THEOREM GuardianAlwaysHasTime == Spec => []GuardianWindow
<1>1. IInv => GuardianWindow
  BY EffFacts DEF IInv, ClocksAgree, GuardianWindow
<1>2. QED  BY <1>1, InvariantHolds, PTL

(* The guardian stops at most MAX_CANCELS_IN_ROW lists between two that go *)
(* live.                                                                   *)
THEOREM GuardianCannotStall == Spec => []CancelsBounded
<1>1. IInv => CancelsBounded
  BY DEF IInv, ClocksAgree, CancelsBounded
<1>2. QED  BY <1>1, InvariantHolds, PTL

(* The guardian always has the delay to stop a list, and can not stop more *)
(* than MAX_CANCELS_IN_ROW on end.                                         *)
THEOREM GuardianIsHeard == Spec => []GuardianHeard
<1>1. GuardianWindow /\ CancelsBounded => GuardianHeard
  BY DEF GuardianHeard
<1>2. QED  BY <1>1, GuardianAlwaysHasTime, GuardianCannotStall, PTL

(* A list that goes live is newer than the one it replaces, and allocates  *)
(* no less.                                                                *)
THEOREM ListsNeverShrink == Spec => ListsOnlyGrow
<1>1. IInv /\ [Next]_vars =>
         [list' # list => list'.epoch > list.epoch /\ list'.total >= list.total]_vars
  <2> SUFFICES ASSUME IInv, Next, list' # list
               PROVE  list'.epoch > list.epoch /\ list'.total >= list.total
    BY DEF vars, vault
  <2>1. list' = EffList /\ Due
    BY DEF Next, Publish, PublishList, Cancel, CancelList, Rotate, SetPublisher,
           Appoint, AppointPublisher, PayAny, Pay, PayFallbackAny, PayFallback,
           Settle, Sponsor, SponsorHolders, Donate, Tick, vault, ActivateIfDue, EffList
  <2>2. list'.epoch = pending.epoch
    BY <2>1 DEF EffList
  <2>3. QED  BY <2>1, <2>2, EffFacts
<1>2. QED  BY <1>1, InvariantHolds, PTL DEF Spec, ListsOnlyGrow

-----------------------------------------------------------------------------
(* What a payment moves: amount, to w, within what was funded.             *)
Moves(w, amount) ==
    /\ holders_paid' = holders_paid + amount
    /\ holders_paid' <= holders_funded
    /\ holders_funded' = holders_funded
    /\ paid' = [paid EXCEPT ![w] = paid[w] + amount]
    /\ lamports' = [lamports EXCEPT ![Auth] = @ - amount, ![w] = @ + amount]

(* pay and pay_fallback move a positive amount to one wallet.              *)
LEMMA PaymentMoves ==
  ASSUME IInv, PayAny \/ PayFallbackAny
  PROVE  \E w \in Wallets, amount \in Nat \ {0} : Moves(w, amount)
<1>1. PICK leaf \in EffList.root : Pay(leaf[1], leaf[2]) \/ PayFallback(leaf[1], leaf[2])
  BY DEF PayAny, PayFallbackAny
<1> DEFINE w == leaf[1]
           c == leaf[2]
           e == Entitled(c, EffList.total)
<1>2. w \in Accounts /\ c \in Nat
  BY LeafType
<1>3. w \in Wallets
  BY <1>1, <1>2 DEF Pay, PayFallback, Accounts
<1>4. /\ paid \in [Accounts -> Nat] /\ paid[w] \in Nat /\ holders_paid \in Nat
      /\ holders_funded \in Nat /\ EffList.total \in Nat
      /\ EffList.total <= holders_funded
  BY <1>2, EffFacts DEF IInv, TypeOK, ListType
<1>5. e \in Nat
  BY <1>2, <1>4, EntitledNat
<1> HIDE DEF w, c, e
<1>6. ASSUME NEW t \in Nat, NEW scaled \in BOOLEAN, t > paid[w],
             holders_paid + (t - paid[w]) <= holders_funded,
             Settle(w, t, t - paid[w], scaled)
      PROVE  t - paid[w] \in Nat \ {0} /\ Moves(w, t - paid[w])
  <2>1. t - paid[w] \in Nat \ {0}
    BY <1>4, <1>6
  <2>2. PaidOut(w, t, t - paid[w], scaled)
    BY <2>1, <1>3, <1>6, SettleSucceeds
  <2>3. paid[w] + (t - paid[w]) = t
    BY <1>4
  <2>4. QED  BY <2>1, <2>2, <2>3, <1>6 DEF PaidOut, Moves
<1>7. CASE Pay(w, c)
  <2>1. c > paid[w] /\ holders_paid + (c - paid[w]) <= EffList.total
        /\ Settle(w, c, c - paid[w], FALSE)
    BY <1>7 DEF Pay
  <2>2. holders_paid + (c - paid[w]) <= holders_funded
    BY <2>1, <1>2, <1>4 DEF c
  <2>3. QED  BY <2>1, <2>2, <1>2, <1>3, <1>6 DEF c
<1>8. CASE PayFallback(w, c)
  <2>1. e > paid[w] /\ holders_paid + (e - paid[w]) <= holders_funded
        /\ Settle(w, e, e - paid[w], TRUE)
    BY <1>8 DEF PayFallback, e
  <2>2. QED  BY <2>1, <1>3, <1>5, <1>6
<1>9. QED  BY <1>1, <1>7, <1>8 DEF w, c

(* The other instructions leave the records alone.                         *)
LEMMA OthersKeepRecords ==
  ASSUME IInv, Next, ~(PayAny \/ PayFallbackAny)
  PROVE  /\ holders_paid' = holders_paid /\ paid' = paid
         /\ \A w \in Wallets : lamports'[w] = lamports[w]
<1>1. \A w \in Wallets : w \in Accounts /\ w # Auth
  BY AuthAssumption DEF Accounts
<1>2. QED
  BY <1>1 DEF Next, Publish, PublishList, Cancel, CancelList, Rotate, SetPublisher,
              Appoint, AppointPublisher, Sponsor, SponsorHolders, Donate, Tick, vault,
              IInv, TypeOK

(* Nothing paid is ever taken back: no record, balance or total drops.     *)
THEOREM NothingTakenBack == Spec => PaidNeverDrops
<1>1. IInv /\ [Next]_vars =>
         [/\ holders_paid' >= holders_paid
          /\ \A w \in Wallets : paid'[w] >= paid[w] /\ lamports'[w] >= lamports[w]]_vars
  <2> SUFFICES ASSUME IInv, Next
               PROVE  /\ holders_paid' >= holders_paid
                      /\ \A w \in Wallets : paid'[w] >= paid[w] /\ lamports'[w] >= lamports[w]
    OBVIOUS
  <2>1. /\ holders_paid \in Nat /\ paid \in [Accounts -> Nat]
        /\ lamports \in [Accounts -> Int]
        /\ \A w \in Wallets : w \in Accounts /\ w # Auth
    BY AuthAssumption DEF IInv, TypeOK, Accounts
  <2>2. CASE PayAny \/ PayFallbackAny
    <3>1. PICK x \in Wallets, amount \in Nat \ {0} : Moves(x, amount)
      BY <2>2, PaymentMoves
    <3>2. QED  BY <3>1, <2>1 DEF Moves
  <2>3. CASE ~(PayAny \/ PayFallbackAny)
    BY <2>1, <2>3, OthersKeepRecords
  <2>4. QED  BY <2>2, <2>3
<1>2. QED  BY <1>1, InvariantHolds, PTL DEF Spec, PaidNeverDrops

(* The lists keep what HolderPool promises: each step funds the pool, pays *)
(* one wallet exactly what is booked, or leaves the pool alone.            *)
THEOREM ListsKeepPromise == Spec => KeepsPromise
<1> DEFINE received == [w \in Wallets |-> lamports[w]]
<1>1. Init => Pool!PoolInit
  <2> SUFFICES ASSUME Init PROVE Pool!PoolInit
    OBVIOUS
  <2>1. \A w \in Wallets : lamports[w] = 0
    BY AuthAssumption DEF Init, Accounts
  <2>2. received = [w \in Wallets |-> 0]
    BY <2>1
  <2>3. QED  BY <2>2 DEF Init, Pool!PoolInit
<1>2. IInv /\ [Next]_vars => [Pool!PoolNext]_(Pool!pool)
  <2> SUFFICES ASSUME IInv, Next
               PROVE  Pool!PoolNext \/ UNCHANGED <<holders_funded, holders_paid, received>>
    BY DEF Pool!pool, vars, vault
  <2>1. /\ holders_paid \in Nat /\ holders_funded \in Nat
        /\ lamports \in [Accounts -> Int]
        /\ \A w \in Wallets : w \in Accounts /\ w # Auth
    BY AuthAssumption DEF IInv, TypeOK, Accounts
  <2>2. CASE PayAny \/ PayFallbackAny
    <3>1. PICK x \in Wallets, amount \in Nat \ {0} : Moves(x, amount)
      BY <2>2, PaymentMoves
    <3>2. holders_paid' \in Nat /\ holders_paid < holders_paid'
          /\ holders_paid' - holders_paid = amount
          /\ holders_paid' <= holders_funded /\ UNCHANGED holders_funded
      BY <3>1, <2>1 DEF Moves
    <3>3. \A w \in Wallets :
              lamports'[w] = IF w = x THEN lamports[w] + amount ELSE lamports[w]
      BY <3>1, <2>1 DEF Moves
    <3>4. [w \in Wallets |-> lamports'[w]]
             = [received EXCEPT ![x] = @ + (holders_paid' - holders_paid)]
      BY <3>2, <3>3
    <3>5. Pool!PayOne(x)
      BY <3>2, <3>4 DEF Pool!PayOne
    <3>6. QED  BY <3>5 DEF Pool!PoolNext
  <2>3. CASE Sponsor
    <3>1. PICK amount \in 1..MaxFunded : SponsorHolders(amount)
      BY <2>3 DEF Sponsor
    <3>2. holders_funded' \in Nat /\ holders_funded' > holders_funded
      BY <3>1, <2>1, BoundsAssumption DEF SponsorHolders
    <3>3. \A w \in Wallets : lamports'[w] = lamports[w]
      BY <3>1, <2>1 DEF SponsorHolders
    <3>4. received' = received /\ UNCHANGED holders_paid
      BY <3>1, <3>3 DEF SponsorHolders
    <3>5. QED  BY <3>2, <3>4 DEF Pool!PoolNext, Pool!Fund
  <2>4. CASE ~(PayAny \/ PayFallbackAny \/ Sponsor)
    <3>1. holders_paid' = holders_paid /\ \A w \in Wallets : lamports'[w] = lamports[w]
      BY <2>4, OthersKeepRecords
    <3>2. holders_funded' = holders_funded
      BY <2>4 DEF Next, Publish, PublishList, Cancel, CancelList, Rotate, SetPublisher,
                  Appoint, AppointPublisher, Donate, Tick, vault
    <3>3. QED  BY <3>1, <3>2
  <2>5. QED  BY <2>2, <2>3, <2>4
<1>3. QED
  BY <1>1, <1>2, InvariantHolds, PTL DEF Spec, KeepsPromise, Pool!PoolSpec

-----------------------------------------------------------------------------
(* What was paid is what the wallets' records add up to.                   *)
PaidOf == [w \in Wallets |-> paid[w]]
RecordsAddUp == IInv /\ holders_paid = FSum(PaidOf, Wallets)

(* The records hold naturals.                                              *)
LEMMA RecordsTyped ==
  ASSUME IInv
  PROVE  \A w \in Wallets : PaidOf[w] = paid[w] /\ paid[w] \in Nat
  BY DEF IInv, TypeOK, Accounts, PaidOf

(* Nothing was paid at first.                                              *)
LEMMA InitRecords == Init => RecordsAddUp
<1> SUFFICES ASSUME Init PROVE RecordsAddUp
  OBVIOUS
<1>1. IInv
  BY InitIInv
<1> DEFINE f == PaidOf
<1>2. \A w \in Wallets : f[w] = 0
  BY <1>1, RecordsTyped DEF Init, Accounts
<1> HIDE DEF f
<1>3. FSum(f, Wallets) = 0
  BY <1>2, RootsAssumption, SumZero
<1>4. QED  BY <1>1, <1>3 DEF Init, RecordsAddUp, f

(* A payment adds as much to a record as to the total.                     *)
LEMMA NextRecords == RecordsAddUp /\ [Next]_vars => RecordsAddUp'
<1> SUFFICES ASSUME RecordsAddUp, [Next]_vars PROVE RecordsAddUp'
  OBVIOUS
<1>1. IInv /\ IInv' /\ holders_paid = FSum(PaidOf, Wallets)
  BY NextIInv DEF RecordsAddUp
<1>2. CASE Next /\ (PayAny \/ PayFallbackAny)
  <2>1. PICK x \in Wallets, amount \in Nat \ {0} : Moves(x, amount)
    BY <1>1, <1>2, PaymentMoves
  <2> DEFINE f == PaidOf
             g == PaidOf'
  <2>2. /\ \A w \in Wallets : f[w] \in Int
        /\ g[x] = f[x] + amount /\ \A w \in Wallets \ {x} : g[w] = f[w]
    <3>1. paid \in [Accounts -> Nat] /\ Wallets \subseteq Accounts
      BY <1>1 DEF IInv, TypeOK, Accounts
    <3>2. \A w \in Wallets : paid'[w] = IF w = x THEN paid[w] + amount ELSE paid[w]
      BY <2>1, <3>1 DEF Moves
    <3>3. QED  BY <3>1, <3>2 DEF PaidOf
  <2> HIDE DEF f, g
  <2>3. FSum(g, Wallets) = FSum(f, Wallets) + amount
    BY <2>2, RootsAssumption, SumGrows
  <2>4. QED  BY <1>1, <2>1, <2>3 DEF Moves, RecordsAddUp, f, g
<1>3. CASE Next /\ ~(PayAny \/ PayFallbackAny)
  <2>1. holders_paid' = holders_paid /\ PaidOf' = PaidOf
    BY <1>1, <1>3, OthersKeepRecords DEF PaidOf
  <2>2. QED  BY <1>1, <2>1 DEF RecordsAddUp
<1>4. CASE UNCHANGED vars
  <2>1. holders_paid' = holders_paid /\ PaidOf' = PaidOf
    BY <1>4 DEF vars, vault, PaidOf
  <2>2. QED  BY <1>1, <2>1 DEF RecordsAddUp
<1>5. QED  BY <1>2, <1>3, <1>4

(* The greatest amount a list has for a wallet.                            *)
LEMMA ListAmountIsTop ==
  ASSUME IInv, NEW w
  PROVE  /\ ListAmount(w) \in Nat
         /\ \A leaf \in Leaves(w) : leaf[2] \in Nat /\ leaf[2] <= ListAmount(w)
<1>1. IsFiniteSet(Leaves(w)) /\ \A leaf \in Leaves(w) : leaf[2] \in Nat
  <2>1. EffList.root \in Roots
    BY EffFacts DEF ListType
  <2>2. IsFiniteSet(EffList.root)
    BY <2>1, RootsAssumption
  <2>3. Leaves(w) \subseteq EffList.root
    BY DEF Leaves
  <2>4. QED  BY <2>2, <2>3, FS_Subset, LeafType
<1>2. CASE Leaves(w) = {}
  BY <1>2 DEF ListAmount
<1>3. CASE Leaves(w) # {}
  <2> DEFINE S == Leaves(w)
             f == [leaf \in S |-> leaf[2]]
             top == CHOOSE leaf \in S : \A l \in S : leaf[2] >= l[2]
  <2>1. \A leaf \in S : f[leaf] = leaf[2] /\ f[leaf] \in Int
    BY <1>1
  <2> HIDE DEF S, f
  <2>2. \E leaf \in S : \A l \in S : f[l] <= f[leaf]
    BY <1>1, <1>3, <2>1, GreatestOf DEF S
  <2>3. \E leaf \in S : \A l \in S : leaf[2] >= l[2]
    BY <1>1, <2>1, <2>2 DEF S
  <2>4. top \in S /\ \A l \in S : top[2] >= l[2]
    BY <2>3
  <2>5. ListAmount(w) = top[2]
    BY <1>3 DEF ListAmount, S
  <2> HIDE DEF top
  <2>6. QED  BY <1>1, <2>4, <2>5 DEF S
<1>4. QED  BY <1>2, <1>3

(* Products with a natural keep an order, and a positive factor cancels.   *)
LEMMA TimesOrder ==
  ASSUME NEW a \in Int, NEW b \in Int, NEW c \in Nat
  PROVE  /\ a * c \in Int /\ b * c \in Int
         /\ a <= b => a * c <= b * c
         /\ c > 0 /\ a * c <= b * c => a <= b
  OBVIOUS

(* A scaled share is no more than its part, and grows with the amount.     *)
LEMMA EntitledIsPart ==
  ASSUME holders_funded \in Nat, NEW c \in Nat, NEW d \in Nat, c <= d, NEW t \in Nat \ {0}
  PROVE  /\ Entitled(c, t) \in Nat /\ Entitled(d, t) \in Nat
         /\ t * Entitled(d, t) <= holders_funded * d
         /\ Entitled(c, t) <= Entitled(d, t)
<1> DEFINE f == holders_funded
           m == c * f
           n == d * f
<1>1. m \in Nat /\ n \in Nat /\ m <= n /\ n = f * d
  BY TimesOrder
<1>2. Entitled(c, t) = m \div t /\ Entitled(d, t) = n \div t
  BY DEF Entitled
<1> HIDE DEF m, n
<1>3. m \div t \in Nat /\ n \div t \in Nat /\ t * (n \div t) <= n /\ m \div t <= n \div t
  BY <1>1
<1>4. QED  BY <1>1, <1>2, <1>3

(* The scaled shares of a list that adds up fit what was funded.           *)
LEMMA SharesFitFunded ==
  ASSUME holders_funded \in Nat, NEW t \in Nat \ {0}, NEW c,
         \A w \in Wallets : c[w] \in Nat, FSum(c, Wallets) <= t
  PROVE  FSum([w \in Wallets |-> Entitled(c[w], t)], Wallets) <= holders_funded
<1> DEFINE f == holders_funded
           e == [w \in Wallets |-> Entitled(c[w], t)]
           te == [w \in Wallets |-> t * e[w]]
           fc == [w \in Wallets |-> f * c[w]]
<1>1. \A w \in Wallets : e[w] \in Nat /\ t * e[w] <= f * c[w] /\ c[w] \in Int
  BY EntitledIsPart
<1> HIDE DEF e
<1>2. f \in Nat
  OBVIOUS
<1> HIDE DEF f
<1>3. \A w \in Wallets : te[w] = t * e[w] /\ fc[w] = f * c[w] /\ te[w] \in Int /\ fc[w] \in Int
                         /\ te[w] <= fc[w]
  BY <1>1, <1>2
<1> HIDE DEF te, fc
<1>4. FSum(te, Wallets) <= FSum(fc, Wallets)
  BY <1>3, RootsAssumption, SumMonotone
<1>5. FSum(te, Wallets) = t * FSum(e, Wallets) /\ FSum(fc, Wallets) = f * FSum(c, Wallets)
  BY <1>1, <1>2, <1>3, RootsAssumption, SumScale
<1> DEFINE se == FSum(e, Wallets)
           sc == FSum(c, Wallets)
<1>6. se \in Int /\ sc \in Int /\ sc <= t
  BY <1>1, RootsAssumption, SumType
<1> HIDE DEF se, sc
<1>7. se * t <= f * t
  <2>1. t * se <= f * sc
    BY <1>4, <1>5 DEF se, sc
  <2>2. sc * f <= t * f
    BY <1>2, <1>6, TimesOrder
  <2>3. t * se = se * t /\ f * sc = sc * f /\ t * f = f * t
        /\ se * t \in Int /\ sc * f \in Int /\ f * t \in Int
    BY <1>2, <1>6
  <2>4. QED  BY <2>1, <2>2, <2>3
<1>8. se <= f
  BY <1>2, <1>6, <1>7, TimesOrder
<1>9. QED  BY <1>8 DEF se, e, f

(* pay_fallback: with a list that adds up and that scales to no less than  *)
(* each wallet's record, whatever was paid first and however much arrived  *)
(* since, what any wallet has still to come of its scaled share fits what  *)
(* is funded and not paid.                                                 *)
THEOREM FallbackAlwaysFair == Spec => []FallbackFair
<1>1. RecordsAddUp => FallbackFair
  <2> SUFFICES ASSUME RecordsAddUp, HonestList, NEW leaf \in EffList.root,
                      Entitled(leaf[2], EffList.total) > paid[leaf[1]]
               PROVE  holders_paid + (Entitled(leaf[2], EffList.total) - paid[leaf[1]]) <= holders_funded
    BY DEF FallbackFair
  <2> DEFINE w == leaf[1]
             t == EffList.total
             e == [o \in Wallets |-> Entitled(ListAmount(o), t)]
             c == [o \in Wallets |-> ListAmount(o)]
             mine == Entitled(leaf[2], t)
  <2>1. IInv /\ holders_paid = FSum(PaidOf, Wallets) /\ holders_funded \in Nat
    BY DEF RecordsAddUp, IInv, TypeOK
  <2>2. w \in Wallets /\ leaf[2] \in Nat /\ leaf[2] <= ListAmount(w)
    <3>1. w \in Accounts /\ leaf[2] \in Nat
      BY <2>1, LeafType
    <3>2. w # Auth
      BY DEF HonestList
    <3>3. leaf \in Leaves(w)
      BY DEF Leaves
    <3>4. QED  BY <2>1, <3>1, <3>2, <3>3, ListAmountIsTop DEF Accounts
  <2>3. t \in Nat /\ \A o \in Wallets : paid[o] \in Nat /\ PaidOf[o] = paid[o] /\ ListAmount(o) \in Nat
    BY <2>1, EffFacts, RecordsTyped, ListAmountIsTop DEF ListType
  <2>4. t # 0
    BY <2>2, <2>3 DEF Entitled
  <2>5. FSum(c, Wallets) <= t
    <3>1. Sum(c) = FSum(c, DOMAIN c)
      BY DEF Sum, FSum, FoldFunction
    <3>2. Sum(c) <= t
      BY DEF HonestList
    <3>3. QED  BY <3>1, <3>2
  <2>6. \A o \in Wallets : c[o] = ListAmount(o) /\ c[o] \in Nat
    BY <2>3
  <2>7. e = [o \in Wallets |-> Entitled(c[o], t)]
    BY <2>6
  <2>8. /\ mine \in Nat /\ e[w] \in Nat /\ mine <= e[w]
    BY <2>1, <2>2, <2>3, <2>4, EntitledIsPart
  <2>9. \A o \in Wallets : paid[o] <= e[o] /\ e[o] \in Nat
    <3>1. \A o \in Wallets : e[o] \in Nat
      BY <2>1, <2>3, <2>4, EntitledIsPart
    <3>2. QED  BY <3>1 DEF HonestList
  <2>10. mine > paid[w]
    OBVIOUS
  <2> HIDE DEF c, mine
  <2>11. FSum(e, Wallets) <= holders_funded
    BY <2>1, <2>3, <2>4, <2>5, <2>6, <2>7, SharesFitFunded
  <2> HIDE DEF e, t, w
  <2> DEFINE p == PaidOf
             g == [o \in Wallets |-> IF o = w THEN mine ELSE p[o]]
  <2>12. /\ \A o \in Wallets : p[o] \in Int /\ p[o] = paid[o] /\ g[o] \in Int /\ e[o] \in Int /\ g[o] <= e[o]
         /\ g[w] = mine /\ \A o \in Wallets \ {w} : g[o] = p[o]
    BY <2>2, <2>3, <2>8, <2>9
  <2> HIDE DEF p, g
  <2>13. FSum(g, Wallets) = FSum(p, Wallets) + (g[w] - p[w])
    <3>1. /\ \A o \in Wallets : p[o] \in Int /\ g[o] \in Int
          /\ \A o \in Wallets \ {w} : g[o] = p[o]
          /\ w \in Wallets /\ IsFiniteSet(Wallets)
      BY <2>2, <2>12, RootsAssumption
    <3>2. QED  BY <3>1, SumUpdate
  <2>14. FSum(g, Wallets) <= FSum(e, Wallets)
    BY <2>12, RootsAssumption, SumMonotone
  <2>15. FSum(g, Wallets) \in Int /\ FSum(e, Wallets) \in Int
    BY <2>12, RootsAssumption, SumType
  <2>16. holders_paid + (mine - paid[w]) <= holders_funded
    BY <2>1, <2>2, <2>11, <2>12, <2>13, <2>14, <2>15 DEF p
  <2>17. QED  BY <2>16 DEF mine, w, t
<1>2. Spec => []RecordsAddUp
  BY InitRecords, NextRecords, PTL DEF Spec
<1>3. QED  BY <1>1, <1>2, PTL

-----------------------------------------------------------------------------
(***************************************************************************)
(* The site that builds the lists.  Its sends go unseen and may land late, *)
(* it stops and starts again, and records and balances are read apart, so  *)
(* the invariant follows each list from where it was read to where it is   *)
(* active.                                                                 *)
(***************************************************************************)
(* The amounts of a list, wallet by wallet.                                *)
Amounts(root) == [w \in Wallets |-> AmountIn(root, w)]
Covers(root, other) == \A w \in Wallets : AmountIn(root, w) >= AmountIn(other, w)
CoversPaid(root) == \A w \in Wallets : AmountIn(root, w) >= paid[w]

(* A list names each wallet once and adds up to its total.                 *)
RootType == SUBSET (Wallets \X Nat)
Named(root) == \A leaf \in root : AmountIn(root, leaf[1]) = leaf[2]
WellMade(l) ==
    /\ Named(l.root)
    /\ FSum(Amounts(l.root), Wallets) = l.total

VaultTyped ==
    /\ list \in [epoch : Nat, root : RootType, total : Nat]
    /\ pending \in [epoch : Nat, root : RootType, total : Nat, active_at : Nat]
    /\ holders_funded \in Nat /\ holders_paid \in Nat /\ fallback_paid \in Nat
    /\ now \in Nat
    /\ paid \in [Accounts -> Nat]

(* What the vault is whoever publishes.                                    *)
VaultBasic ==
    /\ VaultTyped
    /\ Named(list.root) /\ Named(pending.root)
    /\ pending.epoch # 0 => pending.epoch > list.epoch

(* A pending list follows the live one.                                    *)
PendingFollows ==
    pending.epoch # 0 =>
        /\ pending.epoch > list.epoch
        /\ Covers(pending.root, list.root)

(* A transaction is gone before a list posted after it is due.             *)
Flights ==
    /\ \A t \in flying : now <= t.until /\ t.until <= now + VALIDITY
    /\ pending.epoch # 0 =>
          \/ ~Is(next, pending)
          \/ \A t \in flying : Is(t.list, pending) \/ t.until < pending.active_at
    /\ step \in {"records", "balances"} /\ pending.epoch = v.epoch =>
          \A t \in flying : t.until < pending.active_at

(* What epoch and a root of at least these amounts may still come after.   *)
Follows(epoch, root) ==
    /\ list.epoch < epoch => Covers(root, list.root)
    /\ pending.epoch # 0 /\ pending.epoch < epoch => Covers(root, pending.root)
    /\ \A t \in flying :
          list.epoch < t.list.epoch /\ t.list.epoch < epoch => Covers(root, t.list.root)

PassFollows == step \in {"records", "balances"} => Follows(v.epoch, v.prev) /\ v.epoch > 0
NextFollows ==
    /\ next.epoch # 0 => Follows(next.epoch, next.root)
    /\ step \in {"publish", "resend"} => next.epoch # 0
FlyingFollows ==
    \A t \in flying :
        /\ t.list.epoch > 0
        /\ list.epoch < t.list.epoch => Covers(t.list.root, list.root)
        /\ pending.epoch # 0 /\ pending.epoch < t.list.epoch /\ pending.active_at <= t.until =>
              Covers(t.list.root, pending.root)

(* Unless a fallback paid since the records were read.                     *)
Reaches(l) == list.epoch < l.epoch /\ l.fallback = fallback_paid => CoversPaid(l.root)
RecordsCover ==
    /\ fallback_then <= fallback_paid /\ next.fallback <= fallback_paid
    /\ \A t \in flying : t.list.fallback <= fallback_paid /\ Reaches(t.list)
    /\ Reaches(next)
    /\ step = "balances" /\ list.epoch < v.epoch /\ fallback_then = fallback_paid =>
          \A w \in Wallets : Start(records)[w] >= paid[w]

(* Before any fallback what was paid is on the live list.                  *)
PaidFromLists ==
    /\ holders_paid = FSum([w \in Wallets |-> paid[w]], Wallets)
    /\ fallback_paid = 0 => CoversPaid(list.root)

VaultGood ==
    /\ VaultTyped /\ WellMade(list) /\ WellMade(pending)
    /\ PendingFollows /\ PaidFromLists
SiteGood ==
    /\ BuilderTypeOK /\ WellMade(next) /\ \A t \in flying : WellMade(t.list)
    /\ Flights /\ PassFollows /\ NextFollows /\ FlyingFollows /\ RecordsCover
BuilderInv == VaultGood /\ SiteGood
-----------------------------------------------------------------------------
(* Lists as the builder makes them.                                        *)

(* An amount on a list is a natural.                                       *)
LEMMA AmountNat ==
  ASSUME NEW root \in RootType, NEW w
  PROVE  AmountIn(root, w) \in Nat
<1>1. CASE \E leaf \in root : leaf[1] = w
  <2> DEFINE top == CHOOSE leaf \in root : leaf[1] = w
  <2>1. top \in root
    BY <1>1
  <2>2. top \in Wallets \X Nat
    BY <2>1 DEF RootType
  <2>3. AmountIn(root, w) = top[2]
    BY <1>1 DEF AmountIn
  <2> HIDE DEF top
  <2>4. QED  BY <2>2, <2>3
<1>2. CASE ~\E leaf \in root : leaf[1] = w
  BY <1>2 DEF AmountIn
<1>3. QED  BY <1>1, <1>2

(* The list of some totals names each wallet for its total.                *)
LEMMA RootHolds ==
  ASSUME NEW totals \in [Wallets -> Nat]
  PROVE  /\ RootOf(totals) \in RootType
         /\ \A w \in Wallets : AmountIn(RootOf(totals), w) = totals[w]
         /\ \A leaf \in RootOf(totals) : AmountIn(RootOf(totals), leaf[1]) = leaf[2]
<1> DEFINE root == RootOf(totals)
<1>1. \A leaf \in root : \E w \in Wallets : leaf = <<w, totals[w]>> /\ totals[w] > 0
  BY DEF RootOf
<1>2. \A w \in Wallets : totals[w] > 0 => <<w, totals[w]>> \in root
  BY DEF RootOf
<1>3. root \in RootType
  BY <1>1 DEF RootType
<1> HIDE DEF root
<1>4. ASSUME NEW w \in Wallets PROVE AmountIn(root, w) = totals[w]
  <2>1. CASE totals[w] > 0
    <3> DEFINE top == CHOOSE leaf \in root : leaf[1] = w
    <3>1. <<w, totals[w]>> \in root /\ <<w, totals[w]>>[1] = w
      BY <1>2, <2>1
    <3>2. \E leaf \in root : leaf[1] = w
      BY <3>1
    <3>3. top \in root /\ top[1] = w
      BY <3>2
    <3>4. AmountIn(root, w) = top[2]
      BY <3>2 DEF AmountIn
    <3> HIDE DEF top
    <3>5. PICK x \in Wallets : top = <<x, totals[x]>>
      BY <1>1, <3>3
    <3>6. QED  BY <3>3, <3>4, <3>5
  <2>2. CASE ~(totals[w] > 0)
    <3>1. ~\E leaf \in root : leaf[1] = w
      BY <1>1, <2>2
    <3>2. QED  BY <2>2, <3>1 DEF AmountIn
  <2>3. QED  BY <2>1, <2>2
<1>5. \A leaf \in root : AmountIn(root, leaf[1]) = leaf[2]
  <2> TAKE leaf \in root
  <2>1. PICK w \in Wallets : leaf = <<w, totals[w]>>
    BY <1>1
  <2>2. QED  BY <1>4, <2>1
<1>6. QED  BY <1>3, <1>4, <1>5 DEF root

(* The fold of the model is the sum.                                       *)
LEMMA SumOfIs ==
  ASSUME NEW f, DOMAIN f = Wallets
  PROVE  SumOf(f) = FSum(f, Wallets)
<1>1. SumOf(f) = FSum(f, DOMAIN f)
  BY DEF SumOf, FSum, FoldFunction
<1>2. QED  BY <1>1

LEMMA SumOfNat ==
  ASSUME NEW f \in [Wallets -> Nat]
  PROVE  SumOf(f) \in Nat /\ SumOf(f) = FSum(f, Wallets)
<1>1. SumOf(f) = FSum(f, Wallets)
  BY SumOfIs
<1>2. FSum(f, Wallets) \in Nat
  BY RootsAssumption, SumNat
<1>3. QED  BY <1>1, <1>2

(* Shares of a pot are naturals.                                           *)
LEMMA AllocateType ==
  ASSUME NEW balances \in Balances, NEW pot \in Nat
  PROVE  Allocate(balances, pot) \in [Wallets -> Nat]
<1> DEFINE total == SumOf(balances)
<1>1. balances \in [Wallets -> Nat]
  BY BuilderAssumption
<1>2. total \in Nat
  BY <1>1, SumOfNat
<1>3. Allocate(balances, pot) =
        [w \in Wallets |-> IF total = 0 THEN 0 ELSE (pot * balances[w]) \div total]
  BY DEF Allocate
<1> HIDE DEF total
<1>4. ASSUME NEW w \in Wallets, total # 0 PROVE (pot * balances[w]) \div total \in Nat
  <2>1. pot * balances[w] \in Nat
    BY <1>1
  <2>2. QED  BY <1>2, <1>4, <2>1, DivNat
<1>5. \A w \in Wallets : (IF total = 0 THEN 0 ELSE (pot * balances[w]) \div total) \in Nat
  BY <1>4
<1>6. QED  BY <1>3, <1>5

(* Where a new list starts.                                                *)
LEMMA StartFacts ==
  ASSUME v.prev \in RootType, NEW seen \in [Wallets -> Nat]
  PROVE  /\ Start(seen) \in [Wallets -> Nat]
         /\ \A w \in Wallets : Start(seen)[w] >= AmountIn(v.prev, w) /\ Start(seen)[w] >= seen[w]
<1>1. \A w \in Wallets : AmountIn(v.prev, w) \in Nat
  BY AmountNat
<1>2. QED  BY <1>1 DEF Start, Larger

LEMMA PotNat ==
  ASSUME v.prev \in RootType, v.funded \in Nat, NEW seen \in [Wallets -> Nat]
  PROVE  Pot(seen) \in Nat
<1> DEFINE s == SumOf(Start(seen))
<1>1. s \in Nat
  BY StartFacts, SumOfNat
<1>2. Pot(seen) = Larger(v.funded - s, 0)
  BY DEF Pot
<1> HIDE DEF s
<1>3. QED  BY <1>1, <1>2 DEF Larger

(* composeList: nobody gets less than where they start.                    *)
LEMMA ComposeFacts ==
  ASSUME v.prev \in RootType, v.floor \in Nat, records \in [Wallets -> Nat],
         NEW shares \in [Wallets -> Nat]
  PROVE  /\ Compose(shares) \in [Wallets -> Nat]
         /\ \A w \in Wallets : Compose(shares)[w] >= Start(records)[w]
<1> DEFINE start == Start(records)
           totals == [w \in Wallets |-> start[w] + shares[w]]
           sum == SumOf(totals)
           short == v.floor - sum
           who == Picked(shares)
<1>1. start \in [Wallets -> Nat]
  BY StartFacts
<1>2. Compose(shares) = IF short > 0 /\ sum > 0 THEN [totals EXCEPT ![who] = @ + short] ELSE totals
  BY DEF Compose
<1> HIDE DEF start, who
<1>3. totals \in [Wallets -> Nat] /\ \A w \in Wallets : totals[w] >= start[w]
  BY <1>1
<1> HIDE DEF totals
<1>4. sum \in Nat
  BY <1>3, SumOfNat
<1> HIDE DEF sum
<1>5. short \in Int
  BY <1>4
<1> HIDE DEF short
<1>6. CASE short > 0 /\ sum > 0
  <2>1. \A w \in Wallets : totals[w] + short \in Nat /\ totals[w] + short >= totals[w]
    BY <1>3, <1>5, <1>6
  <2>2. Compose(shares) = [w \in Wallets |-> IF w = who THEN totals[w] + short ELSE totals[w]]
    BY <1>2, <1>3, <1>6
  <2>3. \A w \in Wallets : Compose(shares)[w] \in Nat /\ Compose(shares)[w] >= totals[w]
    BY <1>3, <2>1, <2>2
  <2>4. QED  BY <1>1, <1>3, <2>2, <2>3 DEF start
<1>7. CASE ~(short > 0 /\ sum > 0)
  BY <1>2, <1>3, <1>7 DEF start
<1>8. QED  BY <1>6, <1>7

(* Being named for at least as much is transitive.                         *)
LEMMA CoversTrans ==
  ASSUME NEW a \in RootType, NEW b \in RootType, NEW c \in RootType, Covers(a, b), Covers(b, c)
  PROVE  Covers(a, c)
<1>1. \A w \in Wallets : AmountIn(a, w) \in Nat /\ AmountIn(b, w) \in Nat /\ AmountIn(c, w) \in Nat
  BY AmountNat
<1>2. QED  BY <1>1 DEF Covers

LEMMA CoversSelf ==
  ASSUME NEW a \in RootType
  PROVE  Covers(a, a)
BY AmountNat DEF Covers

LEMMA NoneWellMade ==
  AmountIn({}, 0) = 0 /\ {} \in RootType /\ FSum(Amounts({}), Wallets) = 0
<1>1. \A w : AmountIn({}, w) = 0
  BY DEF AmountIn
<1> DEFINE f == Amounts({})
<1>2. \A w \in Wallets : f[w] = 0
  BY <1>1 DEF Amounts
<1> HIDE DEF f
<1>3. FSum(f, Wallets) = 0
  BY <1>2, RootsAssumption, SumZero
<1>4. QED  BY <1>1, <1>3 DEF f, RootType
-----------------------------------------------------------------------------
(* The vault's part of the builder's state.                                *)
ListRecord == [epoch : Nat, root : RootType, total : Nat]
vaultView == <<list, pending, holders_funded, holders_paid, fallback_paid, paid, now>>

LEMMA Views == UNCHANGED vars => UNCHANGED vaultView
BY DEF vars, vault, vaultView

(* What is live once a due list has taken over.                            *)
LEMMA EffLists ==
  ASSUME BuilderInv
  PROVE  /\ EffList \in ListRecord /\ WellMade(EffList)
         /\ EffList.epoch >= list.epoch /\ Covers(EffList.root, list.root)
         /\ EffPending \in [epoch : Nat, root : RootType, total : Nat, active_at : Nat]
         /\ WellMade(EffPending)
         /\ EffPending.epoch # 0 => EffPending = pending /\ EffList = list
         /\ EffList # list => /\ pending.epoch # 0 /\ pending.active_at <= now
                              /\ EffList.epoch = pending.epoch /\ EffList.root = pending.root
         /\ EffPending # pending => EffPending.epoch = 0
<1>1. /\ list \in ListRecord
      /\ pending \in [epoch : Nat, root : RootType, total : Nat, active_at : Nat]
      /\ now \in Nat
  BY DEF BuilderInv, VaultGood, VaultTyped, ListRecord
<1>2. WellMade(list) /\ WellMade(pending)
  BY DEF BuilderInv, VaultGood
<1>3. CASE Due
  <2>1. /\ EffList = [epoch |-> pending.epoch, root |-> pending.root, total |-> pending.total]
        /\ EffPending = NoPending /\ pending.epoch # 0 /\ now >= pending.active_at
    BY <1>3 DEF EffList, EffPending, Due
  <2>2. EffList \in ListRecord /\ EffList.epoch = pending.epoch /\ EffList.root = pending.root
    BY <1>1, <2>1 DEF ListRecord
  <2>3. WellMade(EffList)
    BY <1>2, <2>1 DEF WellMade, Named
  <2>4. pending.epoch > list.epoch /\ Covers(pending.root, list.root)
    BY <2>1 DEF BuilderInv, VaultGood, PendingFollows
  <2>5. /\ NoPending \in [epoch : Nat, root : RootType, total : Nat, active_at : Nat]
        /\ NoPending.epoch = 0
    BY DEF NoPending, RootType
  <2>6. WellMade(NoPending)
    BY NoneWellMade DEF NoPending, WellMade, Named
  <2>7. EffList.epoch >= list.epoch
    BY <1>1, <2>2, <2>4 DEF ListRecord
  <2>8. QED
    BY <1>1, <2>1, <2>2, <2>3, <2>4, <2>5, <2>6, <2>7
<1>4. CASE ~Due
  <2>1. EffList = list /\ EffPending = pending
    BY <1>4 DEF EffList, EffPending
  <2>2. Covers(list.root, list.root) /\ list.epoch >= list.epoch
    BY <1>1, CoversSelf DEF ListRecord
  <2>3. QED  BY <1>1, <1>2, <2>1, <2>2
<1>5. QED  BY <1>3, <1>4

(* The same of the vault alone.                                            *)
LEMMA EffBasic ==
  ASSUME VaultBasic
  PROVE  /\ EffList \in ListRecord /\ Named(EffList.root) /\ EffList.epoch >= list.epoch
         /\ EffPending \in [epoch : Nat, root : RootType, total : Nat, active_at : Nat]
         /\ Named(EffPending.root)
         /\ EffPending.epoch # 0 => EffPending.epoch > EffList.epoch /\ EffPending = pending /\ ~Due
<1>1. /\ list \in ListRecord
      /\ pending \in [epoch : Nat, root : RootType, total : Nat, active_at : Nat]
      /\ now \in Nat /\ list.epoch \in Nat /\ pending.epoch \in Nat
  BY DEF VaultBasic, VaultTyped, ListRecord
<1>2. Named(list.root) /\ Named(pending.root) /\ (pending.epoch # 0 => pending.epoch > list.epoch)
  BY DEF VaultBasic
<1>3. CASE Due
  <2>1. /\ EffList = [epoch |-> pending.epoch, root |-> pending.root, total |-> pending.total]
        /\ EffPending = NoPending /\ pending.epoch # 0
    BY <1>3 DEF EffList, EffPending, Due
  <2>2. EffList \in ListRecord /\ EffList.epoch = pending.epoch /\ EffList.root = pending.root
    BY <1>1, <2>1 DEF ListRecord
  <2>3. /\ NoPending \in [epoch : Nat, root : RootType, total : Nat, active_at : Nat]
        /\ NoPending.epoch = 0 /\ Named(NoPending.root)
    BY DEF NoPending, RootType, Named
  <2>4. QED  BY <1>1, <1>2, <2>1, <2>2, <2>3
<1>4. CASE ~Due
  <2>1. EffList = list /\ EffPending = pending
    BY <1>4 DEF EffList, EffPending
  <2>2. QED  BY <1>1, <1>2, <1>4, <2>1
<1>5. QED  BY <1>3, <1>4

LEMMA BuilderBasic == BuilderInv => VaultBasic
BY DEF BuilderInv, VaultGood, WellMade, PendingFollows, VaultBasic

(* A payment: from the live list, or scaled by a fallback.                 *)
Paying(w, amount) ==
    /\ list' = EffList /\ pending' = EffPending
    /\ paid' = [paid EXCEPT ![w] = paid[w] + amount]
    /\ holders_paid' = holders_paid + amount
    /\ \/ fallback_paid' = fallback_paid + amount
       \/ fallback_paid' = fallback_paid /\ paid[w] + amount = AmountIn(EffList.root, w)
    /\ UNCHANGED <<holders_funded, now>>

LEMMA PaymentEffect ==
  ASSUME VaultBasic, PayAny \/ PayFallbackAny
  PROVE  \/ UNCHANGED vaultView
         \/ \E w \in Wallets, amount \in Nat \ {0} : Paying(w, amount)
<1>1. /\ paid \in [Accounts -> Nat] /\ EffList \in ListRecord /\ holders_funded \in Nat
      /\ Named(EffList.root)
  BY EffBasic DEF VaultBasic, VaultTyped
<1>2. ASSUME NEW leaf \in EffList.root, leaf[1] # Auth
      PROVE  leaf[1] \in Wallets /\ leaf[2] \in Nat /\ paid[leaf[1]] \in Nat
             /\ leaf[2] = AmountIn(EffList.root, leaf[1])
  <2>1. leaf \in Wallets \X Nat
    BY <1>1 DEF ListRecord, RootType
  <2>2. QED  BY <1>1, <2>1 DEF Accounts, Named
<1>3. ASSUME NEW w \in Wallets, NEW c \in Nat, NEW scaled \in BOOLEAN, c > paid[w],
             scaled \/ c = AmountIn(EffList.root, w),
             Settle(w, c, c - paid[w], scaled)
      PROVE  \/ UNCHANGED vaultView
             \/ \E x \in Wallets, amount \in Nat \ {0} : Paying(x, amount)
  <2>1. paid[w] \in Nat
    BY <1>1 DEF Accounts
  <2> DEFINE a == c - paid[w]
  <2>2. a \in Nat \ {0} /\ paid[w] + a = c
    BY <1>3, <2>1
  <2> HIDE DEF a
  <2>3. Settle(w, c, a, scaled)
    BY <1>3 DEF a
  <2>4. CASE holders_paid + a <= holders_funded /\ Solvent(a)
    <3>1. /\ list' = EffList /\ pending' = EffPending
          /\ paid' = [paid EXCEPT ![w] = c]
          /\ holders_paid' = holders_paid + a
          /\ fallback_paid' = fallback_paid + (IF scaled THEN a ELSE 0)
          /\ UNCHANGED <<holders_funded, now>>
      BY <2>3, <2>4 DEF Settle, ActivateIfDue
    <3>2. fallback_paid \in Nat
      BY DEF VaultBasic, VaultTyped
    <3>3. CASE scaled
      BY <2>2, <3>1, <3>3 DEF Paying
    <3>4. CASE ~scaled
      <4>1. fallback_paid' = fallback_paid
        BY <3>1, <3>2, <3>4
      <4>2. QED  BY <1>3, <2>2, <3>1, <3>4, <4>1 DEF Paying
    <3>5. QED  BY <3>3, <3>4
  <2>5. CASE ~(holders_paid + a <= holders_funded /\ Solvent(a))
    BY <2>3, <2>5 DEF Settle, vault, vaultView
  <2>6. QED  BY <2>4, <2>5
<1>4. CASE PayAny
  <2>1. PICK leaf \in EffList.root : Pay(leaf[1], leaf[2])
    BY <1>4 DEF PayAny
  <2>2. /\ leaf[1] # Auth /\ leaf[2] > paid[leaf[1]]
        /\ Settle(leaf[1], leaf[2], leaf[2] - paid[leaf[1]], FALSE)
    BY <2>1 DEF Pay
  <2>3. QED  BY <1>2, <1>3, <2>2
<1>5. CASE PayFallbackAny
  <2>1. PICK leaf \in EffList.root : PayFallback(leaf[1], leaf[2])
    BY <1>5 DEF PayFallbackAny
  <2> DEFINE c == Entitled(leaf[2], EffList.total)
  <2>2. leaf[1] # Auth /\ c > paid[leaf[1]] /\ Settle(leaf[1], c, c - paid[leaf[1]], TRUE)
    BY <2>1 DEF PayFallback
  <2>3. c \in Nat
    BY <1>1, <1>2, <2>2, EntitledNat DEF ListRecord
  <2> HIDE DEF c
  <2>4. QED  BY <1>2, <1>3, <2>2, <2>3
<1>6. QED  BY <1>4, <1>5

(* A list lands: the due one takes over, the new one waits its delay.      *)
Landing(l) ==
    /\ l.epoch = Larger(EffList.epoch, EffPending.epoch) + 1
    /\ l.total <= holders_funded
    /\ list' = EffList
    /\ pending' = [epoch |-> l.epoch, root |-> l.root, total |-> l.total,
                   active_at |-> now + LIST_DELAY_SECS]
    /\ UNCHANGED <<holders_funded, holders_paid, fallback_paid, paid, now>>

LEMMA LandingEffect ==
  ASSUME NEW signer, NEW l, PublishList(signer, l.root, l.epoch, l.total)
  PROVE  Landing(l)
BY DEF PublishList, CheckPublish, ActivateIfDue, ActiveAt, Landing
-----------------------------------------------------------------------------
(* What others do to the vault, as the site may see it.                    *)
Activates ==
    /\ pending'.epoch # 0 => pending' = pending /\ list' = list
    /\ list' # list => /\ pending.epoch # 0 /\ pending.active_at <= now
                       /\ list'.epoch = pending.epoch /\ list'.root = pending.root
Pays ==
    \/ fallback_paid' > fallback_paid
    \/ /\ fallback_paid' = fallback_paid
       /\ \A w \in Wallets : paid'[w] = paid[w] \/ paid'[w] = AmountIn(list'.root, w)

(* What may follow the lists may follow what becomes of them.              *)
LEMMA FollowsKept ==
  ASSUME BuilderInv, Activates, flying' \subseteq flying,
         NEW epoch \in Nat, NEW root, Follows(epoch, root)
  PROVE  /\ list'.epoch < epoch => Covers(root, list'.root)
         /\ pending'.epoch # 0 /\ pending'.epoch < epoch => Covers(root, pending'.root)
         /\ \A t \in flying' :
               list'.epoch < t.list.epoch /\ t.list.epoch < epoch => Covers(root, t.list.root)
<1>1. /\ list.epoch \in Nat /\ pending.epoch \in Nat
      /\ pending.epoch # 0 => pending.epoch > list.epoch
      /\ \A t \in flying : t.list.epoch \in Nat
  BY DEF BuilderInv, VaultGood, VaultTyped, PendingFollows, SiteGood, BuilderTypeOK, FileType
<1>2. CASE list' = list
  BY <1>1, <1>2 DEF Follows, Activates
<1>3. CASE list' # list
  <2>1. list'.epoch = pending.epoch /\ list'.root = pending.root /\ pending.epoch # 0
        /\ pending'.epoch = 0
    BY <1>3 DEF Activates
  <2>2. QED  BY <1>1, <2>1 DEF Follows
<1>4. QED  BY <1>2, <1>3

(* What others do keeps what the site relies on.                           *)
LEMMA SiteKept ==
  ASSUME BuilderInv, VaultGood', Activates, Pays, now' >= now,
         UNCHANGED <<file, step, v, records, fallback_then>>,
         flying' \subseteq flying, \A t \in flying' : now' <= t.until
  PROVE  SiteGood'
<1> USE DEF file
<1>1. /\ BuilderTypeOK /\ now \in Nat /\ now' \in Nat /\ VALIDITY \in Nat
      /\ list.epoch \in Nat /\ pending.epoch \in Nat /\ pending.active_at \in Nat
      /\ list'.epoch \in Nat /\ fallback_paid \in Nat /\ fallback_paid' \in Nat
      /\ list.root \in RootType /\ list'.root \in RootType /\ paid' \in [Accounts -> Nat]
      /\ pending.epoch # 0 => pending.epoch > list.epoch
  BY BuilderAssumption DEF BuilderInv, VaultGood, VaultTyped, SiteGood, PendingFollows
<1>2. /\ next.epoch \in Nat /\ next.root \in RootType
      /\ v.epoch \in Nat /\ v.prev \in RootType /\ records \in [Wallets -> Nat]
      /\ next.fallback \in Nat /\ fallback_then \in Nat
      /\ \A t \in flying : t.list.epoch \in Nat /\ t.list.root \in RootType /\ t.list.fallback \in Nat
                           /\ t.until \in Nat
  BY <1>1 DEF BuilderTypeOK, FileType, RootType
<1>3. /\ BuilderTypeOK' /\ WellMade(next') /\ \A t \in flying' : WellMade(t.list)
  BY DEF BuilderInv, SiteGood, BuilderTypeOK
<1>4. Flights'
  <2>1. \A t \in flying' : now' <= t.until /\ t.until <= now' + VALIDITY
    BY <1>1, <1>2 DEF BuilderInv, SiteGood, Flights
  <2>2. step \in {"records", "balances"} => v.epoch # 0
    BY <1>2 DEF BuilderInv, SiteGood, PassFollows
  <2>3. QED  BY <2>1, <2>2 DEF BuilderInv, SiteGood, Flights, Activates, Is
<1>5. PassFollows'
  BY <1>2, FollowsKept DEF BuilderInv, SiteGood, PassFollows, Follows
<1>6. NextFollows'
  BY <1>2, FollowsKept DEF BuilderInv, SiteGood, NextFollows, Follows
<1>7. FlyingFollows'
  <2>1. \A t \in flying : /\ t.list.epoch > 0 /\ now <= t.until
                          /\ list.epoch < t.list.epoch => Covers(t.list.root, list.root)
                          /\ pending.epoch # 0 /\ pending.epoch < t.list.epoch /\ pending.active_at <= t.until =>
                                Covers(t.list.root, pending.root)
    BY DEF BuilderInv, SiteGood, FlyingFollows, Flights
  <2>2. CASE list' = list
    BY <2>1, <2>2 DEF Activates, FlyingFollows
  <2>3. CASE list' # list
    <3>1. list'.epoch = pending.epoch /\ list'.root = pending.root /\ pending.epoch # 0
          /\ pending'.epoch = 0 /\ pending.active_at <= now
      BY <2>3 DEF Activates
    <3>2. \A t \in flying : pending.active_at <= t.until
      BY <1>1, <1>2, <2>1, <3>1
    <3>3. QED  BY <2>1, <3>1, <3>2 DEF FlyingFollows
  <2>4. QED  BY <2>2, <2>3
<1>8. RecordsCover'
  <2>1. /\ fallback_then <= fallback_paid /\ next.fallback <= fallback_paid
        /\ \A t \in flying : t.list.fallback <= fallback_paid /\ Reaches(t.list)
        /\ Reaches(next)
        /\ step = "balances" /\ list.epoch < v.epoch /\ fallback_then = fallback_paid =>
              \A w \in Wallets : Start(records)[w] >= paid[w]
    BY DEF BuilderInv, SiteGood, RecordsCover
  <2>2. CASE fallback_paid' > fallback_paid
    BY <1>1, <1>2, <2>1, <2>2 DEF RecordsCover, Reaches
  <2>3. CASE fallback_paid' = fallback_paid
    <3>1. \A w \in Wallets : paid'[w] = paid[w] \/ paid'[w] = AmountIn(list'.root, w)
      BY <1>1, <2>3 DEF Pays
    <3>2. list'.epoch >= list.epoch
      BY <1>1 DEF Activates
    <3>3. ASSUME NEW root, CoversPaid(root), Covers(root, list'.root)
          PROVE  \A w \in Wallets : AmountIn(root, w) >= paid'[w]
      BY <3>1, <3>3 DEF CoversPaid, Covers
    <3>4. ASSUME NEW t \in flying', list'.epoch < t.list.epoch, t.list.fallback = fallback_paid'
          PROVE  \A w \in Wallets : AmountIn(t.list.root, w) >= paid'[w]
      <4>1. CoversPaid(t.list.root)
        BY <1>1, <1>2, <2>1, <2>3, <3>2, <3>4 DEF Reaches
      <4>2. Covers(t.list.root, list'.root)
        BY <1>7, <3>4 DEF FlyingFollows
      <4>3. QED  BY <4>1, <4>2, <3>3
    <3>5. ASSUME list'.epoch < next.epoch, next.fallback = fallback_paid'
          PROVE  \A w \in Wallets : AmountIn(next.root, w) >= paid'[w]
      <4>1. CoversPaid(next.root)
        BY <1>1, <1>2, <2>1, <2>3, <3>2, <3>5 DEF Reaches
      <4>2. Covers(next.root, list'.root)
        BY <1>1, <1>2, <1>6, <3>5 DEF NextFollows, Follows
      <4>3. QED  BY <4>1, <4>2, <3>3
    <3>6. ASSUME step = "balances", list'.epoch < v.epoch, fallback_then = fallback_paid'
          PROVE  \A w \in Wallets : Start(records)[w] >= paid'[w]
      <4>1. \A w \in Wallets : Start(records)[w] >= paid[w]
        BY <1>1, <1>2, <2>1, <2>3, <3>2, <3>6
      <4>2. Covers(v.prev, list'.root)
        BY <1>5, <3>6 DEF PassFollows, Follows
      <4>3. \A w \in Wallets : /\ Start(records)[w] >= AmountIn(v.prev, w)
                               /\ Start(records)[w] \in Nat /\ AmountIn(v.prev, w) \in Nat
                               /\ AmountIn(list'.root, w) \in Nat
        BY <1>1, <1>2, StartFacts, AmountNat
      <4>4. QED  BY <3>1, <4>1, <4>2, <4>3 DEF Covers
    <3>7. Start(records)' = Start(records)
      BY DEF Start
    <3>8. QED  BY <2>1, <2>3, <3>4, <3>5, <3>6, <3>7 DEF RecordsCover, Reaches, CoversPaid
  <2>4. QED  BY <2>2, <2>3 DEF Pays
<1>9. QED  BY <1>3, <1>4, <1>5, <1>6, <1>7, <1>8 DEF SiteGood
-----------------------------------------------------------------------------
(* A payment keeps the vault's part.                                       *)
LEMMA PayingVault ==
  ASSUME BuilderInv, NEW w \in Wallets, NEW amount \in Nat \ {0}, Paying(w, amount)
  PROVE  VaultGood' /\ Activates /\ Pays /\ now' >= now
<1>1. /\ VaultTyped /\ PaidFromLists /\ Wallets \subseteq Accounts
      /\ EffList \in ListRecord /\ WellMade(EffList) /\ WellMade(EffPending)
      /\ EffPending \in [epoch : Nat, root : RootType, total : Nat, active_at : Nat]
      /\ Covers(EffList.root, list.root)
  BY EffLists DEF BuilderInv, VaultGood, Accounts
<1>2. /\ paid \in [Accounts -> Nat] /\ holders_paid \in Nat /\ fallback_paid \in Nat
      /\ now \in Nat /\ list.root \in RootType /\ EffList.root \in RootType
  BY <1>1 DEF VaultTyped, ListRecord
<1>3. /\ list' = EffList /\ pending' = EffPending
      /\ paid' = [paid EXCEPT ![w] = paid[w] + amount]
      /\ holders_paid' = holders_paid + amount
      /\ UNCHANGED <<holders_funded, now>>
  BY DEF Paying
<1>4. fallback_paid' \in Nat /\ fallback_paid' >= fallback_paid
  BY <1>2 DEF Paying
<1>5. Activates
  <2>1. pending'.epoch # 0 => pending' = pending /\ list' = list
    BY <1>3, EffLists
  <2>2. list' # list => /\ pending.epoch # 0 /\ pending.active_at <= now
                        /\ list'.epoch = pending.epoch /\ list'.root = pending.root
    BY <1>3, EffLists
  <2>3. QED  BY <2>1, <2>2 DEF Activates
<1>6. \A x \in Wallets : /\ paid[x] \in Nat /\ paid'[x] \in Nat
                         /\ paid'[x] = IF x = w THEN paid[w] + amount ELSE paid[x]
  BY <1>1, <1>2, <1>3
<1>7. Pays
  <2>1. CASE fallback_paid' = fallback_paid + amount
    BY <1>2, <2>1 DEF Pays
  <2>2. CASE fallback_paid' = fallback_paid /\ paid[w] + amount = AmountIn(EffList.root, w)
    BY <1>3, <1>6, <2>2 DEF Pays
  <2>3. QED  BY <2>1, <2>2 DEF Paying
<1>8. VaultTyped'
  BY <1>1, <1>2, <1>3, <1>4 DEF VaultTyped, ListRecord
<1>9. WellMade(list') /\ WellMade(pending')
  BY <1>1, <1>3
<1>10. PendingFollows'
  BY <1>5 DEF Activates, BuilderInv, VaultGood, PendingFollows
<1>11. PaidFromLists'
  <2> DEFINE f == [x \in Wallets |-> paid[x]]
             g == [x \in Wallets |-> paid'[x]]
  <2>1. /\ \A x \in Wallets : f[x] \in Int
        /\ g[w] = f[w] + amount /\ \A x \in Wallets \ {w} : g[x] = f[x]
    BY <1>6
  <2>2. holders_paid = FSum(f, Wallets)
    BY <1>1 DEF PaidFromLists
  <2> HIDE DEF f, g
  <2>3. FSum(g, Wallets) = FSum(f, Wallets) + amount
    <3>1. /\ IsFiniteSet(Wallets) /\ w \in Wallets /\ amount \in Int
          /\ \A x \in Wallets : f[x] \in Int
          /\ g[w] = f[w] + amount /\ \A x \in Wallets \ {w} : g[x] = f[x]
      BY <2>1, RootsAssumption
    <3>2. QED  BY <3>1, SumGrows
  <2>4. ASSUME fallback_paid' = 0 PROVE \A x \in Wallets : AmountIn(list'.root, x) >= paid'[x]
    <3>1. fallback_paid = 0 /\ paid[w] + amount = AmountIn(EffList.root, w)
      BY <1>2, <2>4 DEF Paying
    <3>2. \A x \in Wallets : AmountIn(EffList.root, x) \in Nat /\ AmountIn(list.root, x) \in Nat
      BY <1>2, AmountNat
    <3>3. \A x \in Wallets : AmountIn(EffList.root, x) >= paid[x]
      BY <1>1, <1>6, <3>1, <3>2 DEF PaidFromLists, Covers, CoversPaid
    <3>4. QED  BY <1>3, <1>6, <3>1, <3>2, <3>3
  <2>5. holders_paid' = FSum(g, Wallets)
    BY <1>3, <2>2, <2>3
  <2>6. QED  BY <2>4, <2>5 DEF PaidFromLists, CoversPaid, g
<1>12. QED  BY <1>2, <1>3, <1>5, <1>7, <1>8, <1>9, <1>10, <1>11 DEF VaultGood

(* So does a step that pays nothing and activates nothing.                 *)
LEMMA QuietVault ==
  ASSUME BuilderInv, UNCHANGED <<list, holders_paid, fallback_paid, paid>>,
         pending' = pending \/ pending' = NoPending,
         holders_funded' \in Nat, now' \in Nat
  PROVE  VaultGood' /\ Activates /\ Pays
<1>1. VaultGood
  BY DEF BuilderInv
<1>2. NoPending \in [epoch : Nat, root : RootType, total : Nat, active_at : Nat]
      /\ NoPending.epoch = 0 /\ WellMade(NoPending)
  BY NoneWellMade DEF NoPending, WellMade, Named, RootType
<1>3. VaultTyped' /\ WellMade(list') /\ WellMade(pending')
  BY <1>1, <1>2 DEF VaultGood, VaultTyped
<1>4. PendingFollows'
  BY <1>1, <1>2 DEF VaultGood, PendingFollows
<1>5. PaidFromLists'
  BY <1>1 DEF VaultGood, PaidFromLists, CoversPaid
<1>6. Activates /\ Pays
  BY <1>2 DEF Activates, Pays
<1>7. QED  BY <1>3, <1>4, <1>5, <1>6 DEF VaultGood

(* Anyone but the site: payments, funding, the guardian.                   *)
LEMMA OthersStep ==
  ASSUME BuilderInv, Others
  PROVE  BuilderInv'
<1>1. VaultTyped /\ BuilderTypeOK
  BY DEF BuilderInv, VaultGood, SiteGood
<1>2. UNCHANGED <<file, step, v, records, fallback_then>> /\ flying' = flying
  BY DEF Others, site
<1>3. \A t \in flying : now <= t.until
  BY DEF BuilderInv, SiteGood, Flights
<1>4. ASSUME VaultGood', Activates, Pays, now' = now PROVE BuilderInv'
  <2>1. SiteGood'
    BY <1>1, <1>2, <1>3, <1>4, SiteKept DEF VaultTyped
  <2>2. QED  BY <1>4, <2>1 DEF BuilderInv
<1>5. CASE UNCHANGED vaultView
  <2>1. VaultGood' /\ Activates /\ Pays
    BY <1>1, <1>5, QuietVault DEF vaultView, VaultTyped
  <2>2. QED  BY <1>4, <1>5, <2>1 DEF vaultView
<1>6. CASE PayAny \/ PayFallbackAny
  <2>1. CASE \E w \in Wallets, amount \in Nat \ {0} : Paying(w, amount)
    <3>1. PICK w \in Wallets, amount \in Nat \ {0} : Paying(w, amount)
      BY <2>1
    <3>2. VaultGood' /\ Activates /\ Pays
      BY <3>1, PayingVault
    <3>3. QED  BY <1>4, <3>1, <3>2 DEF Paying
  <2>2. QED  BY <1>5, <1>6, <2>1, PaymentEffect, BuilderBasic
<1>7. CASE Sponsor
  <2>1. PICK amount \in 1..MaxFunded : SponsorHolders(amount)
    BY <1>7 DEF Sponsor
  <2>2. UNCHANGED <<list, pending, holders_paid, fallback_paid, paid, now>> /\ holders_funded' \in Nat
    BY <1>1, <2>1, BoundsAssumption DEF SponsorHolders, VaultTyped
  <2>3. VaultGood' /\ Activates /\ Pays
    BY <1>1, <2>2, QuietVault DEF VaultTyped
  <2>4. QED  BY <1>4, <2>2, <2>3
<1>8. CASE Cancel
  <2>1. PICK signer \in Keys : CancelList(signer)
    BY <1>8 DEF Cancel
  <2>2. UNCHANGED <<list, holders_funded, holders_paid, fallback_paid, paid, now>> /\ pending' = NoPending
    BY <2>1 DEF CancelList
  <2>3. VaultGood' /\ Activates /\ Pays
    BY <1>1, <2>2, QuietVault DEF VaultTyped
  <2>4. QED  BY <1>4, <2>2, <2>3
<1>9. QED  BY <1>6, <1>7, <1>8 DEF Others

(* Time passes.                                                            *)
LEMMA ExpireStep ==
  ASSUME BuilderInv, Expire
  PROVE  BuilderInv'
<1>1. VaultTyped
  BY DEF BuilderInv, VaultGood
<1>2. /\ UNCHANGED <<file, step, v, records, fallback_then>>
      /\ flying' = {t \in flying : now' <= t.until}
      /\ UNCHANGED <<list, pending, holders_funded, holders_paid, fallback_paid, paid>>
      /\ now' = now + 1
  BY DEF Expire, Tick, vault
<1>3. now' \in Nat /\ now' >= now /\ holders_funded' \in Nat
  BY <1>1, <1>2 DEF VaultTyped
<1>4. VaultGood' /\ Activates /\ Pays
  BY <1>2, <1>3, QuietVault
<1>5. SiteGood'
  BY <1>2, <1>3, <1>4, SiteKept
<1>6. QED  BY <1>4, <1>5 DEF BuilderInv

(* A transaction is lost.                                                  *)
LEMMA LoseStep ==
  ASSUME BuilderInv, NEW t, Lose(t)
  PROVE  BuilderInv'
<1>1. VaultTyped /\ \A u \in flying : now <= u.until
  BY DEF BuilderInv, VaultGood, SiteGood, Flights
<1>2. UNCHANGED <<file, step, v, records, fallback_then>> /\ flying' \subseteq flying /\ UNCHANGED vaultView
  BY Views DEF Lose
<1>3. now' = now /\ now \in Nat /\ holders_funded' \in Nat
  BY <1>1, <1>2 DEF VaultTyped, vaultView
<1>4. VaultGood' /\ Activates /\ Pays
  BY <1>2, <1>3, QuietVault DEF vaultView
<1>5. SiteGood'
  BY <1>1, <1>2, <1>3, <1>4, SiteKept
<1>6. QED  BY <1>4, <1>5 DEF BuilderInv
-----------------------------------------------------------------------------
(* The site's own steps leave the vault as it is.                          *)
LEMMA VaultSame ==
  ASSUME BuilderInv, UNCHANGED vaultView
  PROVE  VaultGood'
<1>1. VaultTyped
  BY DEF BuilderInv, VaultGood
<1>2. QED  BY <1>1, QuietVault DEF vaultView, VaultTyped

Steps == {"idle", "list", "records", "balances", "publish", "resend", "sent", "resent",
          "landed", "relanded"}
SiteTypes ==
    /\ next.epoch \in Nat /\ next.root \in RootType /\ next.total \in Nat /\ next.fallback \in Nat
    /\ v.epoch \in Nat /\ v.prev \in RootType /\ v.funded \in Nat /\ v.floor \in Nat
    /\ records \in [Wallets -> Nat] /\ fallback_then \in Nat
    /\ list.epoch \in Nat /\ list.root \in RootType /\ list.total \in Nat
    /\ pending.epoch \in Nat /\ pending.root \in RootType /\ pending.active_at \in Nat
    /\ pending.total \in Nat /\ holders_funded \in Nat /\ holders_paid \in Nat
    /\ fallback_paid \in Nat /\ now \in Nat /\ \A w \in Wallets : paid[w] \in Nat
    /\ \A t \in flying : /\ t.list.epoch \in Nat /\ t.list.root \in RootType
                         /\ t.list.fallback \in Nat /\ t.until \in Nat

LEMMA SiteTyped == BuilderInv => SiteTypes
<1> SUFFICES ASSUME BuilderInv PROVE SiteTypes
  OBVIOUS
<1>1. BuilderTypeOK /\ VaultTyped
  BY DEF BuilderInv, VaultGood, SiteGood
<1>2. /\ next.epoch \in Nat /\ next.root \in RootType /\ next.total \in Nat /\ next.fallback \in Nat
      /\ v.epoch \in Nat /\ v.prev \in RootType /\ v.funded \in Nat /\ v.floor \in Nat
      /\ records \in [Wallets -> Nat] /\ fallback_then \in Nat
  BY <1>1 DEF BuilderTypeOK, FileType, RootType
<1>3. \A t \in flying : t.list \in FileType /\ t.until \in Nat
  BY <1>1 DEF BuilderTypeOK
<1>4. \A t \in flying : t.list.epoch \in Nat /\ t.list.root \in RootType /\ t.list.fallback \in Nat
  BY <1>3 DEF FileType, RootType
<1>5. \A w \in Wallets : paid[w] \in Nat
  BY <1>1 DEF VaultTyped, Accounts
<1>6. QED  BY <1>1, <1>2, <1>3, <1>4, <1>5 DEF SiteTypes, VaultTyped

(* The saved list is dropped, or stays the list it is.                     *)
LEMMA NextStays ==
  ASSUME BuilderInv, UNCHANGED vaultView, UNCHANGED <<v, records, flying, fallback_then>>,
         active' \in FileType, next' \in FileType,
         next' = NoFile \/ (next'.epoch = next.epoch /\ next'.root = next.root
                            /\ next'.total = next.total /\ next'.fallback = next.fallback),
         step' \in Steps \ {"records", "balances"},
         step' \in {"publish", "resend"} => next'.epoch # 0
  PROVE  BuilderInv'
<1>1. SiteTypes /\ SiteGood /\ VaultGood'
  BY SiteTyped, VaultSame DEF BuilderInv
<1>2. NoFile.epoch = 0 /\ NoFile.root = {} /\ NoFile.total = 0 /\ NoFile.fallback = 0
  BY DEF NoFile
<1>3. BuilderTypeOK'
  BY <1>1 DEF SiteGood, BuilderTypeOK, Steps
<1>4. WellMade(next') /\ \A t \in flying' : WellMade(t.list)
  <2>1. WellMade(next) /\ \A t \in flying : WellMade(t.list)
    BY <1>1 DEF SiteGood
  <2>2. CASE next' = NoFile
    BY <1>2, <2>1, <2>2, NoneWellMade DEF WellMade, Named
  <2>3. CASE next' # NoFile
    BY <2>1, <2>3 DEF WellMade, Named
  <2>4. QED  BY <2>1, <2>2, <2>3
<1>5. Flights'
  BY <1>1, <1>2 DEF SiteGood, Flights, vaultView, Is
<1>6. PassFollows'
  BY DEF PassFollows
<1>7. NextFollows'
  BY <1>1, <1>2 DEF SiteGood, NextFollows, Follows, vaultView
<1>8. FlyingFollows'
  BY <1>1 DEF SiteGood, FlyingFollows, vaultView
<1>9. RecordsCover'
  <2>1. RecordsCover
    BY <1>1 DEF SiteGood
  <2>2. next'.fallback <= fallback_paid' /\ Reaches(next)'
    BY <1>1, <1>2, <2>1 DEF SiteTypes, RecordsCover, Reaches, CoversPaid, vaultView
  <2>3. QED  BY <2>1, <2>2 DEF RecordsCover, Reaches, CoversPaid, vaultView
<1>10. QED  BY <1>1, <1>3, <1>4, <1>5, <1>6, <1>7, <1>8, <1>9 DEF BuilderInv, SiteGood

LEMMA SyncStep == ASSUME BuilderInv, Sync PROVE BuilderInv'
<1>1. active \in FileType /\ next \in FileType
  BY DEF BuilderInv, SiteGood, BuilderTypeOK
<1>2. UNCHANGED vaultView /\ UNCHANGED <<v, records, flying, fallback_then>>
  BY Views DEF Sync
<1>3. [next EXCEPT !.published = TRUE] \in FileType /\ NoFile \in FileType
  BY <1>1 DEF FileType, NoFile
<1>4. Adopted(active) \in FileType
  <2>1. list \in [epoch : Nat, root : RootType, total : Nat]
    BY DEF BuilderInv, VaultGood, VaultTyped
  <2>2. QED  BY <1>1, <2>1 DEF Adopted, FileType, RootType
<1>5. \/ /\ active' = [next EXCEPT !.published = TRUE] /\ next' = NoFile /\ step' = "list"
      \/ /\ next' = [next EXCEPT !.published = TRUE] /\ active' = Adopted(active) /\ step' = "list"
      \/ /\ step' = "resend" /\ next.epoch > 0 /\ active' = active /\ next' = next
      \/ /\ next' = NoFile /\ active' = Adopted(active) /\ step' = "list"
  BY DEF Sync, file
<1>6. /\ active' \in FileType /\ next' \in FileType
      /\ next' = NoFile \/ (next'.epoch = next.epoch /\ next'.root = next.root
                            /\ next'.total = next.total /\ next'.fallback = next.fallback)
      /\ step' \in Steps \ {"records", "balances"}
      /\ step' \in {"publish", "resend"} => next'.epoch # 0
  <2>1. LET n == [next EXCEPT !.published = TRUE]
        IN  n.epoch = next.epoch /\ n.root = next.root /\ n.total = next.total /\ n.fallback = next.fallback
    BY <1>1 DEF FileType
  <2>2. next.epoch \in Nat
    BY <1>1 DEF FileType
  <2>3. step' \in {"list", "resend"}
    BY <1>5
  <2>4. step' \in Steps \ {"records", "balances"}
    BY <2>3 DEF Steps
  <2>5. active' \in FileType /\ next' \in FileType
    BY <1>1, <1>3, <1>4, <1>5
  <2>6. next' = NoFile \/ (next'.epoch = next.epoch /\ next'.root = next.root
                           /\ next'.total = next.total /\ next'.fallback = next.fallback)
    BY <1>5, <2>1
  <2>7. step' \in {"publish", "resend"} => next'.epoch # 0
    BY <1>5, <2>2
  <2>8. QED  BY <2>4, <2>5, <2>6, <2>7
<1>7. QED  BY <1>2, <1>6, NextStays

LEMMA PinStep == ASSUME BuilderInv, Pin PROVE BuilderInv'
<1>1. active \in FileType /\ next \in FileType /\ NextFollows
  BY DEF BuilderInv, SiteGood, BuilderTypeOK
<1>2. UNCHANGED vaultView /\ UNCHANGED <<active, step, v, records, flying, fallback_then>>
      /\ next' = [next EXCEPT !.pinned = TRUE] /\ step \in {"publish", "resend"}
  BY Views DEF Pin
<1>3. next' \in FileType /\ next'.epoch = next.epoch /\ next'.root = next.root
      /\ next'.total = next.total /\ next'.fallback = next.fallback
  BY <1>1, <1>2 DEF FileType
<1>4. next'.epoch # 0 /\ step' \in Steps \ {"records", "balances"}
  BY <1>1, <1>2, <1>3 DEF NextFollows, Steps
<1>5. QED  BY <1>1, <1>2, <1>3, <1>4, NextStays

LEMMA ConfirmedStep == ASSUME BuilderInv, Confirmed PROVE BuilderInv'
<1>1. active \in FileType /\ next \in FileType
  BY DEF BuilderInv, SiteGood, BuilderTypeOK
<1>2. UNCHANGED vaultView /\ UNCHANGED <<active, v, records, flying, fallback_then>>
      /\ next' = [next EXCEPT !.published = TRUE] /\ step' \in {"idle", "list"}
  BY Views DEF Confirmed
<1>3. next' \in FileType /\ next'.epoch = next.epoch /\ next'.root = next.root
      /\ next'.total = next.total /\ next'.fallback = next.fallback
  BY <1>1, <1>2 DEF FileType
<1>4. step' \in Steps \ {"records", "balances"} /\ step' \notin {"publish", "resend"}
  BY <1>2 DEF Steps
<1>5. QED  BY <1>1, <1>2, <1>3, <1>4, NextStays

(* The file stays, and the pass stops, waits or goes on.                   *)
LEMMA StopStep ==
  ASSUME BuilderInv, UNCHANGED <<file, v, records, flying, fallback_then>>, UNCHANGED vaultView,
         step' = "idle"
  PROVE  BuilderInv'
<1>1. active \in FileType /\ next \in FileType
  BY DEF BuilderInv, SiteGood, BuilderTypeOK
<1>2. active' = active /\ next' = next /\ step' \in Steps \ {"records", "balances"}
      /\ step' \notin {"publish", "resend"}
  BY DEF file, Steps
<1>3. QED  BY <1>1, <1>2, NextStays
-----------------------------------------------------------------------------
(* The saved list and what flies stay; the pass reads or composes.         *)
LEMMA ReadVaultStep == ASSUME BuilderInv, ReadVault PROVE BuilderInv'
<1>1. UNCHANGED vaultView /\ UNCHANGED <<file, records, flying, fallback_then>>
  BY Views DEF ReadVault
<1>2. CASE (next.epoch > 0 \/ pending.epoch > 0) /\ ~Stuck
  BY <1>1, <1>2, StopStep DEF ReadVault
<1>3. CASE ~((next.epoch > 0 \/ pending.epoch > 0) /\ ~Stuck)
  <2>1. /\ v' = [funded |-> holders_funded, floor |-> Floor, epoch |-> LastEpoch + 1,
                 prev |-> SeenRoot, forced |-> InFallback]
        /\ step = "list" /\ step' = "records"
    BY <1>3 DEF ReadVault
  <2>2. SiteTypes /\ SiteGood /\ VaultGood /\ VaultGood'
    BY <1>1, SiteTyped, VaultSame DEF BuilderInv
  <2>3. /\ v'.epoch = LastEpoch + 1 /\ v'.prev = SeenRoot
    BY <2>1
  <2>4. Floor \in Nat /\ LastEpoch \in Nat /\ InFallback \in BOOLEAN /\ SeenRoot \in RootType
    BY <2>2 DEF SiteTypes, Floor, LastEpoch, Larger, InFallback, SeenRoot
  <2>5. /\ LastEpoch >= list.epoch /\ LastEpoch >= pending.epoch
        /\ Covers(SeenRoot, list.root)
        /\ pending.epoch # 0 => Covers(SeenRoot, pending.root)
        /\ \A t \in flying : list.epoch < t.list.epoch /\ t.list.epoch < LastEpoch + 1 =>
               Covers(SeenRoot, t.list.root)
    <3>1. LastEpoch >= list.epoch /\ LastEpoch >= pending.epoch
      BY <2>2 DEF SiteTypes, LastEpoch, Larger
    <3>2. CASE pending.epoch = 0
      <4>1. SeenRoot = list.root /\ LastEpoch = list.epoch
        BY <2>2, <3>2 DEF SeenRoot, SeenDue, LastEpoch, Larger, SiteTypes
      <4>2. QED  BY <2>2, <3>1, <3>2, <4>1, CoversSelf DEF SiteTypes
    <3>3. CASE pending.epoch # 0
      <4>1. Stuck
        BY <1>3, <2>2, <3>3 DEF SiteTypes
      <4>2. Is(next, pending) /\ now >= pending.active_at + ACTIVATION_MARGIN_SECS
        BY <4>1 DEF Stuck
      <4>3. SeenDue /\ now >= pending.active_at
        BY <2>2, <3>3, <4>2, BuilderAssumption DEF SeenDue, Behind, SiteTypes
      <4>4. SeenRoot = pending.root
        BY <4>3 DEF SeenRoot
      <4>5. pending.epoch > list.epoch /\ Covers(pending.root, list.root)
        BY <2>2, <3>3 DEF VaultGood, PendingFollows
      <4>6. \A t \in flying : Is(t.list, pending)
        BY <2>2, <3>3, <4>2, <4>3 DEF SiteGood, Flights, SiteTypes
      <4>7. \A t \in flying : t.list.root = pending.root
        BY <4>6 DEF Is
      <4>8. Covers(pending.root, pending.root)
        BY <2>2, CoversSelf DEF SiteTypes
      <4>9. QED  BY <3>1, <4>4, <4>5, <4>7, <4>8
    <3>4. QED  BY <3>2, <3>3
  <2>6. BuilderTypeOK'
    BY <1>1, <2>1, <2>2, <2>4 DEF SiteGood, BuilderTypeOK, SiteTypes, RootType, file
  <2>7. WellMade(next') /\ \A t \in flying' : WellMade(t.list)
    BY <1>1, <2>2 DEF SiteGood, file
  <2>8. Flights'
    <3>1. pending.epoch # v'.epoch
      BY <2>2, <2>3, <2>4, <2>5 DEF SiteTypes
    <3>2. QED  BY <1>1, <2>2, <3>1 DEF SiteGood, Flights, vaultView, file
  <2>9. PassFollows'
    <3>1. v'.epoch > 0
      BY <2>3, <2>4
    <3>2. Follows(v.epoch, v.prev)'
      BY <1>1, <2>3, <2>5 DEF Follows, vaultView
    <3>3. QED  BY <3>1, <3>2 DEF PassFollows
  <2>10. NextFollows' /\ FlyingFollows'
    BY <1>1, <2>1, <2>2 DEF SiteGood, NextFollows, Follows, FlyingFollows, vaultView, file
  <2>11. RecordsCover'
    BY <1>1, <2>1, <2>2 DEF SiteGood, RecordsCover, Reaches, CoversPaid, vaultView, file
  <2>12. QED  BY <2>2, <2>6, <2>7, <2>8, <2>9, <2>10, <2>11 DEF BuilderInv, SiteGood
<1>4. QED  BY <1>2, <1>3

LEMMA ReadRecordsStep == ASSUME BuilderInv, ReadRecords PROVE BuilderInv'
<1>1. UNCHANGED vaultView /\ UNCHANGED <<file, v, flying>> /\ step = "records"
      /\ step' \in {"idle", "balances"} /\ fallback_then' = fallback_paid
      /\ records' = [w \in Wallets |-> paid[w]]
  BY Views DEF ReadRecords
<1>2. SiteTypes /\ SiteGood /\ VaultGood'
  BY <1>1, SiteTyped, VaultSame DEF BuilderInv
<1>3. records' \in [Wallets -> Nat] /\ fallback_then' \in Nat
  BY <1>1, <1>2 DEF SiteTypes
<1>4. BuilderTypeOK'
  BY <1>1, <1>2, <1>3 DEF SiteGood, BuilderTypeOK, file
<1>5. WellMade(next') /\ \A t \in flying' : WellMade(t.list)
  BY <1>1, <1>2 DEF SiteGood, file
<1>6. Flights' /\ PassFollows' /\ NextFollows' /\ FlyingFollows'
  BY <1>1, <1>2
     DEF SiteGood, Flights, PassFollows, NextFollows, Follows, FlyingFollows, vaultView, file
<1>7. RecordsCover'
  <2>1. RecordsCover
    BY <1>2 DEF SiteGood
  <2>2. \A w \in Wallets : Start(records)'[w] >= paid[w]
    <3>1. \A w \in Wallets : Start(records)'[w] = Larger(AmountIn(v.prev, w), paid[w])
      BY <1>1 DEF Start
    <3>2. \A w \in Wallets : AmountIn(v.prev, w) \in Nat /\ paid[w] \in Nat
      BY <1>2, AmountNat DEF SiteTypes
    <3>3. QED  BY <3>1, <3>2 DEF Larger
  <2>3. QED
    BY <1>1, <1>2, <2>1, <2>2 DEF RecordsCover, Reaches, CoversPaid, vaultView, file, SiteTypes
<1>8. QED  BY <1>2, <1>4, <1>5, <1>6, <1>7 DEF BuilderInv, SiteGood

LEMMA BuildStep == ASSUME BuilderInv, NEW balances \in Balances, Build(balances) PROVE BuilderInv'
<1> DEFINE shares == Allocate(balances, Pot(records))
           totals == Compose(shares)
           root == RootOf(totals)
<1>1. UNCHANGED vaultView /\ UNCHANGED <<v, records, flying, fallback_then>> /\ step = "balances"
  BY Views DEF Build
<1>2. SiteTypes /\ SiteGood /\ VaultGood'
  BY <1>1, SiteTyped, VaultSame DEF BuilderInv
<1>3. \/ step' = "idle" /\ UNCHANGED file
      \/ /\ active' = IF next.epoch > 0 THEN next ELSE active
         /\ next' = [epoch |-> v.epoch, root |-> root, total |-> SumOf(totals),
                     fallback |-> fallback_then, pinned |-> FALSE, published |-> FALSE]
         /\ step' = "publish"
  BY DEF Build
<1>4. CASE step' = "idle" /\ UNCHANGED file
  BY <1>1, <1>4, StopStep
<1>5. CASE /\ active' = IF next.epoch > 0 THEN next ELSE active
           /\ next' = [epoch |-> v.epoch, root |-> root, total |-> SumOf(totals),
                       fallback |-> fallback_then, pinned |-> FALSE, published |-> FALSE]
           /\ step' = "publish"
  <2>1. shares \in [Wallets -> Nat]
    BY <1>2, PotNat, AllocateType DEF SiteTypes
  <2> HIDE DEF shares
  <2>2. totals \in [Wallets -> Nat] /\ \A w \in Wallets : totals[w] >= Start(records)[w]
    BY <1>2, <2>1, ComposeFacts DEF SiteTypes
  <2> HIDE DEF totals
  <2>3. /\ root \in RootType /\ \A w \in Wallets : AmountIn(root, w) = totals[w]
        /\ \A leaf \in root : AmountIn(root, leaf[1]) = leaf[2]
    BY <2>2, RootHolds
  <2>4. SumOf(totals) \in Nat /\ SumOf(totals) = FSum(totals, Wallets)
    BY <2>2, SumOfNat
  <2> DEFINE sum == SumOf(totals)
  <2>5. /\ next'.epoch = v.epoch /\ next'.root = root /\ next'.total = sum
        /\ next'.fallback = fallback_then
    BY <1>5
  <2>6. next' \in FileType /\ active' \in FileType
    <3>1. active \in FileType /\ next \in FileType
      BY <1>2 DEF SiteGood, BuilderTypeOK
    <3>2. QED  BY <1>2, <1>5, <2>3, <2>4, <3>1 DEF FileType, SiteTypes, RootType
  <2>7. WellMade(next')
    <3>1. Amounts(root) = totals
      BY <2>2, <2>3 DEF Amounts
    <3>2. QED  BY <2>3, <2>4, <2>5, <3>1 DEF WellMade, Named
  <2> HIDE DEF root, sum
  <2>8. BuilderTypeOK' /\ \A t \in flying' : WellMade(t.list)
    BY <1>1, <1>2, <1>5, <2>6 DEF SiteGood, BuilderTypeOK
  <2>9. Flights'
    <3>1. Is(next', pending) => pending.epoch = v.epoch
      BY <2>5 DEF Is
    <3>2. Flights
      BY <1>2 DEF SiteGood
    <3>3. QED  BY <1>1, <1>5, <3>1, <3>2 DEF Flights, vaultView
  <2>10. /\ Follows(v.epoch, v.prev) /\ v.epoch > 0
    BY <1>1, <1>2 DEF SiteGood, PassFollows
  <2>11. Covers(root, v.prev)
    <3>1. \A w \in Wallets : /\ Start(records)[w] \in Nat /\ Start(records)[w] >= AmountIn(v.prev, w)
                             /\ AmountIn(v.prev, w) \in Nat
      BY <1>2, StartFacts, AmountNat DEF SiteTypes
    <3>2. QED  BY <2>2, <2>3, <3>1 DEF Covers
  <2>12. NextFollows'
    <3>1. \A other \in RootType : Covers(v.prev, other) => Covers(root, other)
      BY <1>2, <2>3, <2>11, CoversTrans DEF SiteTypes
    <3>2. Follows(v.epoch, root)
      BY <1>2, <2>10, <3>1 DEF Follows, SiteTypes
    <3>3. Follows(next.epoch, next.root)'
      BY <1>1, <2>5, <3>2 DEF Follows, vaultView
    <3>4. QED  BY <1>2, <2>5, <2>10, <3>3 DEF NextFollows, SiteTypes
  <2>13. FlyingFollows' /\ PassFollows'
    BY <1>1, <1>2, <1>5 DEF SiteGood, FlyingFollows, PassFollows, vaultView
  <2>14. RecordsCover'
    <3>1. RecordsCover
      BY <1>2 DEF SiteGood
    <3>2. list.epoch < v.epoch /\ fallback_then = fallback_paid => \A w \in Wallets : AmountIn(root, w) >= paid[w]
      <4>1. list.epoch < v.epoch /\ fallback_then = fallback_paid => \A w \in Wallets : Start(records)[w] >= paid[w]
        BY <1>1, <3>1 DEF RecordsCover
      <4>2. \A w \in Wallets : Start(records)[w] \in Nat /\ paid[w] \in Nat
        BY <1>2, StartFacts DEF SiteTypes
      <4>3. QED  BY <2>2, <2>3, <4>1, <4>2
    <3>3. next'.fallback <= fallback_paid /\ Reaches(next)'
      BY <1>1, <2>5, <3>1, <3>2 DEF RecordsCover, Reaches, CoversPaid, vaultView
    <3>4. QED  BY <1>1, <1>5, <3>1, <3>3 DEF RecordsCover, Reaches, CoversPaid, vaultView
  <2>15. QED  BY <1>2, <2>7, <2>8, <2>9, <2>12, <2>13, <2>14 DEF BuilderInv, SiteGood
<1>6. QED  BY <1>3, <1>4, <1>5

LEMMA SendStep == ASSUME BuilderInv, Send PROVE BuilderInv'
<1> DEFINE t == [list |-> next, until |-> now + VALIDITY]
<1>1. UNCHANGED vaultView /\ UNCHANGED <<file, v, records, fallback_then>>
      /\ flying' = flying \cup {t} /\ step \in {"publish", "resend"} /\ step' \in {"sent", "resent"}
  BY Views DEF Send
<1>2. SiteTypes /\ SiteGood /\ VaultGood' /\ VALIDITY \in Nat
  BY <1>1, SiteTyped, VaultSame, BuilderAssumption DEF BuilderInv
<1>3. t.list = next /\ t.until = now + VALIDITY
  OBVIOUS
<1>4. next.epoch # 0 /\ Follows(next.epoch, next.root)
  BY <1>1, <1>2 DEF SiteGood, NextFollows
<1>5. BuilderTypeOK'
  <2>1. t \in [list : FileType, until : Nat]
    BY <1>2 DEF SiteGood, BuilderTypeOK, SiteTypes
  <2>2. QED  BY <1>1, <1>2, <2>1 DEF SiteGood, BuilderTypeOK, file
<1> HIDE DEF t
<1>6. WellMade(next') /\ \A u \in flying' : WellMade(u.list)
  BY <1>1, <1>2, <1>3 DEF SiteGood, file
<1>7. Flights'
  <2>1. \A u \in flying' : now <= u.until /\ u.until <= now + VALIDITY
    BY <1>1, <1>2, <1>3 DEF SiteGood, Flights, SiteTypes
  <2>2. pending.epoch # 0 => \/ ~Is(next, pending)
                             \/ \A u \in flying' : Is(u.list, pending) \/ u.until < pending.active_at
    BY <1>1, <1>2, <1>3 DEF SiteGood, Flights
  <2>3. QED  BY <1>1, <2>1, <2>2 DEF Flights, vaultView, file
<1>8. PassFollows' /\ NextFollows'
  <2>1. Follows(next.epoch, next.root)'
    BY <1>1, <1>2, <1>3, <1>4 DEF Follows, vaultView, file, SiteTypes
  <2>2. QED  BY <1>1, <2>1 DEF PassFollows, NextFollows
<1>9. FlyingFollows'
  BY <1>1, <1>2, <1>3, <1>4 DEF SiteGood, FlyingFollows, Follows, vaultView, SiteTypes
<1>10. RecordsCover'
  <2>1. RecordsCover
    BY <1>2 DEF SiteGood
  <2>2. \A u \in flying' : u.list.fallback <= fallback_paid /\ Reaches(u.list)
    BY <1>1, <1>3, <2>1 DEF RecordsCover
  <2>3. QED  BY <1>1, <2>1, <2>2 DEF RecordsCover, Reaches, CoversPaid, vaultView, file
<1>11. QED  BY <1>2, <1>5, <1>6, <1>7, <1>8, <1>9, <1>10 DEF BuilderInv, SiteGood
-----------------------------------------------------------------------------
(* A list lands.                                                           *)
LEMMA LandStep == ASSUME BuilderInv, NEW t, Land(t) PROVE BuilderInv'
<1> DEFINE l == t.list
<1>1. /\ t \in flying /\ flying' = flying \ {t} /\ Landing(l)
      /\ UNCHANGED <<file, v, records, fallback_then>>
      /\ step' \in {step, "landed", "relanded"}
  BY LandingEffect DEF Land
<1>2. SiteTypes /\ SiteGood /\ VaultGood /\ VaultTyped /\ PaidFromLists
  BY SiteTyped DEF BuilderInv, VaultGood
<1>3. /\ l.epoch \in Nat /\ l.root \in RootType /\ l.total \in Nat /\ now <= t.until /\ t.until \in Nat
      /\ WellMade(l)
  BY <1>1, <1>2 DEF SiteTypes, SiteGood, Flights, BuilderTypeOK, FileType
<1>4. /\ EffList \in ListRecord /\ WellMade(EffList) /\ EffList.epoch >= list.epoch
      /\ Covers(EffList.root, list.root) /\ EffPending.epoch \in Nat
      /\ EffList # list => /\ pending.epoch # 0 /\ pending.active_at <= now
                           /\ EffList.epoch = pending.epoch /\ EffList.root = pending.root
  BY EffLists DEF BuilderInv
<1>5. EffList.epoch \in Nat /\ EffList.root \in RootType
  BY <1>4 DEF ListRecord
<1>6. /\ l.epoch = Larger(EffList.epoch, EffPending.epoch) + 1
      /\ list' = EffList
      /\ pending' = [epoch |-> l.epoch, root |-> l.root, total |-> l.total,
                     active_at |-> now + LIST_DELAY_SECS]
      /\ UNCHANGED <<holders_funded, holders_paid, fallback_paid, paid, now>>
  BY <1>1 DEF Landing
<1> HIDE DEF l
<1>7. /\ pending'.epoch = l.epoch /\ pending'.root = l.root /\ pending'.total = l.total
      /\ pending'.active_at = now + LIST_DELAY_SECS
  BY <1>6
<1>8. l.epoch > EffList.epoch /\ l.epoch > list.epoch
  BY <1>2, <1>3, <1>4, <1>5, <1>6 DEF Larger, SiteTypes
<1>9. ASSUME NEW u \in flying, u.list.epoch > EffList.epoch
      PROVE  Covers(u.list.root, EffList.root)
  <2>1. /\ u.list.epoch > list.epoch /\ now <= u.until /\ u.until \in Nat
    BY <1>2, <1>4, <1>5, <1>9 DEF SiteTypes, SiteGood, Flights
  <2>2. CASE EffList = list
    BY <1>2, <1>9, <2>1, <2>2 DEF SiteGood, FlyingFollows
  <2>3. CASE EffList # list
    <3>1. pending.active_at <= u.until
      BY <1>2, <1>4, <2>1, <2>3 DEF SiteTypes
    <3>2. QED  BY <1>2, <1>4, <1>9, <2>3, <3>1 DEF SiteGood, FlyingFollows
  <2>4. QED  BY <2>2, <2>3
<1>10. VaultGood'
  <2>1. VaultTyped'
    <3>1. now + LIST_DELAY_SECS \in Nat
      BY <1>2, ClockAssumption DEF SiteTypes
    <3>2. QED  BY <1>2, <1>3, <1>4, <1>6, <3>1 DEF VaultTyped, ListRecord
  <2>2. WellMade(list') /\ WellMade(pending')
    BY <1>3, <1>4, <1>6, <1>7 DEF WellMade, Named
  <2>3. PendingFollows'
    BY <1>1, <1>6, <1>7, <1>8, <1>9 DEF PendingFollows, l
  <2>4. PaidFromLists'
    <3>1. \A w \in Wallets : AmountIn(EffList.root, w) \in Nat /\ AmountIn(list.root, w) \in Nat /\ paid[w] \in Nat
      BY <1>2, <1>5, AmountNat DEF SiteTypes
    <3>2. fallback_paid = 0 => \A w \in Wallets : AmountIn(EffList.root, w) >= paid[w]
      BY <1>2, <1>4, <3>1 DEF PaidFromLists, CoversPaid, Covers
    <3>3. QED  BY <1>2, <1>6, <3>2 DEF PaidFromLists, CoversPaid
  <2>5. QED  BY <2>1, <2>2, <2>3, <2>4 DEF VaultGood
<1>11. ASSUME NEW epoch \in Nat, NEW root, Follows(epoch, root)
       PROVE  /\ list'.epoch < epoch => Covers(root, list'.root)
              /\ pending'.epoch # 0 /\ pending'.epoch < epoch => Covers(root, pending'.root)
              /\ \A u \in flying' :
                    list'.epoch < u.list.epoch /\ u.list.epoch < epoch => Covers(root, u.list.root)
  <2>1. list'.epoch < epoch => Covers(root, list'.root)
    BY <1>4, <1>6, <1>11 DEF Follows
  <2>2. pending'.epoch < epoch => Covers(root, pending'.root)
    BY <1>1, <1>7, <1>8, <1>11 DEF Follows, l
  <2>3. \A u \in flying' : list'.epoch < u.list.epoch => list.epoch < u.list.epoch
    BY <1>1, <1>2, <1>4, <1>5, <1>6 DEF SiteTypes
  <2>4. QED  BY <1>1, <1>11, <2>1, <2>2, <2>3 DEF Follows
<1>12. BuilderTypeOK' /\ WellMade(next') /\ \A u \in flying' : WellMade(u.list)
  BY <1>1, <1>2 DEF SiteGood, BuilderTypeOK, file
<1>13. Flights'
  <2>1. \A u \in flying' : now' <= u.until /\ u.until <= now' + VALIDITY /\ u.until \in Nat
    BY <1>1, <1>2, <1>6 DEF SiteGood, Flights, SiteTypes
  <2>2. \A u \in flying' : u.until < pending'.active_at
    BY <1>2, <1>6, <1>7, <2>1, BuilderAssumption, ClockAssumption DEF SiteTypes
  <2>3. QED  BY <2>1, <2>2 DEF Flights
<1>14. PassFollows'
  BY <1>1, <1>2, <1>11 DEF SiteGood, PassFollows, Follows, SiteTypes
<1>15. NextFollows'
  BY <1>1, <1>2, <1>11 DEF SiteGood, NextFollows, Follows, SiteTypes, file
<1>16. FlyingFollows'
  <2>1. \A u \in flying' : u.list.epoch > 0 /\ u.until < pending'.active_at
    BY <1>1, <1>2, <1>6, <1>7, BuilderAssumption, ClockAssumption
       DEF SiteGood, FlyingFollows, Flights, SiteTypes
  <2>2. \A u \in flying' : list'.epoch < u.list.epoch => Covers(u.list.root, list'.root)
    BY <1>1, <1>6, <1>9
  <2>3. \A u \in flying' : ~(pending'.active_at <= u.until)
    BY <1>1, <1>2, <1>7, <2>1, ClockAssumption DEF SiteTypes
  <2>4. QED  BY <2>1, <2>2, <2>3 DEF FlyingFollows
<1>17. RecordsCover'
  <2>1. RecordsCover
    BY <1>2 DEF SiteGood
  <2>2. \A n \in Nat : list'.epoch < n => list.epoch < n
    BY <1>2, <1>4, <1>5, <1>6 DEF SiteTypes
  <2>3. Start(records)' = Start(records)
    BY <1>1 DEF Start
  <2>4. QED
    BY <1>1, <1>2, <1>6, <2>1, <2>2, <2>3 DEF RecordsCover, Reaches, CoversPaid, SiteTypes, file
<1>18. QED
  BY <1>10, <1>12, <1>13, <1>14, <1>15, <1>16, <1>17 DEF BuilderInv, SiteGood

-----------------------------------------------------------------------------
LEMMA InitBuilder == BuilderInit => BuilderInv
<1> SUFFICES ASSUME BuilderInit PROVE BuilderInv
  OBVIOUS
<1>1. /\ list = NoList /\ pending = NoPending /\ holders_funded = 0 /\ holders_paid = 0
      /\ fallback_paid = 0 /\ now = 0 /\ paid = [a \in Accounts |-> 0]
  BY DEF BuilderInit, Init
<1>2. /\ active = NoFile /\ next = NoFile /\ step = "idle" /\ v = NoVault /\ flying = {}
      /\ records = [w \in Wallets |-> 0] /\ fallback_then = 0
  BY DEF BuilderInit
<1>3. \A w : AmountIn({}, w) = 0
  BY DEF AmountIn
<1>4. VaultTyped
  BY <1>1 DEF VaultTyped, NoList, NoPending, RootType
<1>5. BuilderTypeOK
  BY <1>2 DEF BuilderTypeOK, NoFile, NoVault, FileType
<1>6. WellMade(list) /\ WellMade(pending) /\ WellMade(next)
  BY <1>1, <1>2, NoneWellMade DEF WellMade, Named, NoList, NoPending, NoFile
<1>7. PaidFromLists
  <2> DEFINE f == [w \in Wallets |-> paid[w]]
  <2>1. \A w \in Wallets : f[w] = 0
    BY <1>1 DEF Accounts
  <2> HIDE DEF f
  <2>2. FSum(f, Wallets) = 0
    BY <2>1, RootsAssumption, SumZero
  <2>3. \A w \in Wallets : AmountIn(list.root, w) >= paid[w]
    BY <1>1, <1>3 DEF NoList, Accounts
  <2>4. QED  BY <1>1, <2>2, <2>3 DEF PaidFromLists, CoversPaid, f
<1>8. PendingFollows /\ Flights /\ PassFollows /\ NextFollows /\ FlyingFollows /\ RecordsCover
  BY <1>1, <1>2 DEF PendingFollows, Flights, PassFollows, NextFollows, FlyingFollows, RecordsCover,
                    Reaches, NoList, NoPending, NoFile
<1>9. QED
  BY <1>2, <1>4, <1>5, <1>6, <1>7, <1>8 DEF BuilderInv, VaultGood, SiteGood

(* Every step keeps it.                                                    *)
LEMMA NextBuilder == BuilderInv /\ [BuilderNext]_allVars => BuilderInv'
<1> SUFFICES ASSUME BuilderInv, [BuilderNext]_allVars PROVE BuilderInv'
  OBVIOUS
<1>1. CASE Pass
  <2>1. CASE \E b \in Balances : Build(b)
    BY <2>1, BuildStep
  <2>2. QED
    BY <1>1, <2>1, SyncStep, ReadVaultStep, ReadRecordsStep, PinStep, SendStep, ConfirmedStep DEF Pass
<1>2. CASE Stop
  <2>1. UNCHANGED <<file, v, records, flying, fallback_then>> /\ UNCHANGED vaultView /\ step' = "idle"
    BY <1>2, Views DEF Stop
  <2>2. QED  BY <2>1, StopStep
<1>3. CASE Ledger
  <2>1. CASE \E t \in flying : Land(t) \/ Lose(t)
    BY <2>1, LandStep, LoseStep
  <2>2. QED  BY <1>3, <2>1, ExpireStep DEF Ledger
<1>4. CASE Others
  BY <1>4, OthersStep
<1>5. CASE UNCHANGED allVars
  <2>1. UNCHANGED <<file, step, v, records, fallback_then>> /\ flying' = flying /\ UNCHANGED vaultView
    BY <1>5, Views DEF allVars, site
  <2>2. VaultTyped /\ \A u \in flying : now <= u.until
    BY DEF BuilderInv, VaultGood, SiteGood, Flights
  <2>3. now' = now /\ now \in Nat /\ holders_funded' \in Nat
    BY <2>1, <2>2 DEF VaultTyped, vaultView
  <2>4. VaultGood' /\ Activates /\ Pays
    BY <2>1, <2>3, QuietVault DEF vaultView
  <2>5. SiteGood'
    BY <2>1, <2>2, <2>3, <2>4, SiteKept
  <2>6. QED  BY <2>4, <2>5 DEF BuilderInv
<1>6. QED  BY <1>1, <1>2, <1>3, <1>4, <1>5 DEF BuilderNext

LEMMA BuilderHolds == BuilderSpec => []BuilderInv
BY InitBuilder, NextBuilder, PTL DEF BuilderSpec

(* composeList, syncList, pay: before a fallback, whoever is paid first    *)
(* and whichever lists land, everyone's amount on the live list fits its   *)
(* total, so the vault refuses nobody a payment.                           *)
THEOREM EveryoneAlwaysFits == BuilderSpec => []EveryoneFits
<1>1. BuilderInv => EveryoneFits
  <2> SUFFICES ASSUME BuilderInv PROVE EveryoneFits
    OBVIOUS
  <2> DEFINE f == [w \in Wallets |-> paid[w]]
             a == Amounts(EffList.root)
             owed == [w \in Wallets |-> Larger(AmountIn(EffList.root, w), paid[w]) - paid[w]]
  <2>1. SiteTypes /\ VaultGood /\ PaidFromLists /\ BuilderTypeOK
    BY SiteTyped DEF BuilderInv, VaultGood, SiteGood
  <2>2. EffList \in ListRecord /\ WellMade(EffList) /\ Covers(EffList.root, list.root)
    BY EffLists
  <2>3. EffList.root \in RootType /\ list.root \in RootType /\ EffList.total \in Nat
    BY <2>1, <2>2 DEF SiteTypes, ListRecord
  <2>4. ASSUME fallback_paid = 0
        PROVE  holders_paid + SumOf(owed) <= EffList.total
    <3>1. \A w \in Wallets : /\ AmountIn(EffList.root, w) \in Nat /\ AmountIn(list.root, w) \in Nat
                             /\ paid[w] \in Nat
      BY <2>1, <2>3, AmountNat DEF SiteTypes
    <3>2. \A w \in Wallets : AmountIn(EffList.root, w) >= paid[w]
      BY <2>1, <2>2, <2>4, <3>1 DEF PaidFromLists, CoversPaid, Covers
    <3>3. \A w \in Wallets : owed[w] \in Int /\ f[w] \in Int /\ a[w] = f[w] + owed[w]
      BY <3>1, <3>2 DEF Larger, Amounts
    <3>4. SumOf(owed) = FSum(owed, Wallets)
      BY SumOfIs
    <3>5. FSum(a, Wallets) = EffList.total /\ FSum(f, Wallets) = holders_paid
      BY <2>1, <2>2 DEF WellMade, Named, PaidFromLists
    <3> HIDE DEF f, a, owed
    <3>6. FSum(a, Wallets) = FSum(f, Wallets) + FSum(owed, Wallets)
      BY <3>3, RootsAssumption, SumPlus
    <3>7. QED  BY <2>3, <3>4, <3>5, <3>6
  <2>5. QED  BY <2>1, <2>4 DEF EveryoneFits
<1>2. QED  BY <1>1, BuilderHolds, PTL

(* composeList, syncList: a list that lands, however late, with no         *)
(* fallback payment since its builder read the paid records names every    *)
(* wallet for no less than it was paid.                                    *)
THEOREM NobodyEverLeftBehind == BuilderSpec => NobodyLeftBehind
<1>1. BuilderInv /\ [BuilderNext]_allVars =>
        [\A t \in flying \ flying' :
           t.list.fallback = fallback_paid /\ pending' # pending =>
             \A w \in Wallets : AmountIn(t.list.root, w) >= paid[w]]_allVars
  <2> SUFFICES ASSUME BuilderInv, BuilderNext, NEW t \in flying \ flying',
                      t.list.fallback = fallback_paid, pending' # pending
               PROVE  \A w \in Wallets : AmountIn(t.list.root, w) >= paid[w]
    OBVIOUS
  <2>1. SiteTypes /\ RecordsCover
    BY SiteTyped DEF BuilderInv, SiteGood
  <2>2. PICK u \in flying : Land(u)
    <3>1. ~Pass
      BY DEF Pass, Sync, ReadVault, ReadRecords, Build, Pin, Send, Confirmed
    <3>2. ~Stop /\ ~Others
      BY DEF Stop, Others, site
    <3>3. ~Expire
      BY DEF Expire, Tick, vault
    <3>4. \A u \in flying : ~Lose(u)
      BY DEF Lose, vars, vault
    <3>5. QED  BY <3>1, <3>2, <3>3, <3>4 DEF BuilderNext, Ledger
  <2>3. u = t /\ Landing(t.list)
    BY <2>2, LandingEffect DEF Land
  <2>4. EffList \in ListRecord /\ EffPending.epoch \in Nat /\ EffList.epoch >= list.epoch
    BY EffLists
  <2>5. t.list.epoch > list.epoch
    BY <2>1, <2>3, <2>4 DEF Landing, ListRecord, SiteTypes, Larger
  <2>6. QED  BY <2>1, <2>5 DEF RecordsCover, Reaches, CoversPaid
<1>2. QED  BY <1>1, BuilderHolds, PTL DEF BuilderSpec, NobodyLeftBehind

(* listStep, syncList: whichever lists are sent twice, dropped, cancelled  *)
(* or land late, what goes live never takes back an earlier allocation.    *)
THEOREM AllocationsAlwaysKept == BuilderSpec => AllocationsKept
<1>1. BuilderInv /\ [BuilderNext]_allVars =>
        [list' # list => \A w \in Wallets : AmountIn(list'.root, w) >= AmountIn(list.root, w)]_allVars
  <2> SUFFICES ASSUME BuilderInv, BuilderNext, list' # list
               PROVE  Covers(list'.root, list.root)
    BY DEF Covers
  <2>1. Covers(EffList.root, list.root)
    BY EffLists
  <2>2. list' = EffList
    <3>1. ~Pass /\ ~Stop
      BY DEF Pass, Sync, ReadVault, ReadRecords, Build, Pin, Send, Confirmed, Stop, vars, vault
    <3>2. ~Expire /\ \A t \in flying : ~Lose(t)
      BY DEF Expire, Tick, Lose, vars, vault
    <3>3. CASE \E t \in flying : Land(t)
      BY <3>3, LandingEffect DEF Land, Landing
    <3>4. CASE Others
      <4>1. ~Sponsor /\ ~Cancel
        BY DEF Sponsor, SponsorHolders, Cancel, CancelList
      <4>2. QED  BY <3>4, <4>1, PaymentEffect, BuilderBasic DEF Others, Paying, vaultView
    <3>5. QED  BY <3>1, <3>2, <3>3, <3>4 DEF BuilderNext, Ledger
  <2>3. QED  BY <2>1, <2>2
<1>2. QED  BY <1>1, BuilderHolds, PTL DEF BuilderSpec, AllocationsKept
-----------------------------------------------------------------------------
(* What a step may do to the vault, as a proposed list sees it: a newer    *)
(* list goes live, a payment is made from the live one or by a fallback.   *)
VaultMoves ==
    /\ EffList' = EffList \/ EffList'.epoch > EffList.epoch
    /\ \/ fallback_paid' > fallback_paid
       \/ /\ fallback_paid' = fallback_paid
          /\ \A w \in Wallets : \/ paid'[w] = paid[w]
                                \/ EffList' = EffList /\ paid'[w] = AmountIn(EffList.root, w)

LEMMA BasicPaying ==
  ASSUME VaultBasic, NEW w \in Wallets, NEW amount \in Nat \ {0}, Paying(w, amount)
  PROVE  VaultBasic' /\ VaultMoves
<1>1. /\ VaultTyped /\ Wallets \subseteq Accounts
      /\ EffList \in ListRecord /\ Named(EffList.root) /\ Named(EffPending.root)
      /\ EffPending \in [epoch : Nat, root : RootType, total : Nat, active_at : Nat]
      /\ EffPending.epoch # 0 => EffPending.epoch > EffList.epoch /\ EffPending = pending /\ ~Due
  BY EffBasic DEF VaultBasic, Accounts
<1>2. /\ paid \in [Accounts -> Nat] /\ holders_paid \in Nat /\ fallback_paid \in Nat /\ now \in Nat
  BY <1>1 DEF VaultTyped
<1>3. /\ list' = EffList /\ pending' = EffPending
      /\ paid' = [paid EXCEPT ![w] = paid[w] + amount]
      /\ holders_paid' = holders_paid + amount
      /\ UNCHANGED <<holders_funded, now>>
  BY DEF Paying
<1>4. fallback_paid' \in Nat
  BY <1>2 DEF Paying
<1>5. VaultTyped'
  BY <1>1, <1>2, <1>3, <1>4 DEF VaultTyped, ListRecord
<1>6. VaultBasic'
  BY <1>1, <1>3, <1>5 DEF VaultBasic
<1>7. EffList' = EffList
  BY <1>1, <1>3 DEF EffList, Due
<1>8. \A x \in Wallets : paid'[x] = IF x = w THEN paid[w] + amount ELSE paid[x]
  BY <1>1, <1>2, <1>3
<1>9. VaultMoves
  <2>1. CASE fallback_paid' = fallback_paid + amount
    BY <1>2, <1>7, <2>1 DEF VaultMoves
  <2>2. CASE fallback_paid' = fallback_paid /\ paid[w] + amount = AmountIn(EffList.root, w)
    BY <1>7, <1>8, <2>2 DEF VaultMoves
  <2>3. QED  BY <2>1, <2>2 DEF Paying
<1>10. QED  BY <1>6, <1>9

LEMMA BasicLanding ==
  ASSUME VaultBasic, NEW l, Landing(l), l.epoch \in Nat, l.root \in RootType, l.total \in Nat,
         Named(l.root)
  PROVE  VaultBasic' /\ VaultMoves
<1>1. /\ VaultTyped /\ EffList \in ListRecord /\ Named(EffList.root) /\ EffPending.epoch \in Nat
  BY EffBasic DEF VaultBasic
<1>2. /\ now \in Nat /\ LIST_DELAY_SECS \in Nat \ {0} /\ EffList.epoch \in Nat
  BY <1>1, ClockAssumption DEF VaultTyped, ListRecord
<1>3. /\ l.epoch = Larger(EffList.epoch, EffPending.epoch) + 1
      /\ list' = EffList
      /\ pending' = [epoch |-> l.epoch, root |-> l.root, total |-> l.total,
                     active_at |-> now + LIST_DELAY_SECS]
      /\ UNCHANGED <<holders_funded, holders_paid, fallback_paid, paid, now>>
  BY DEF Landing
<1>4. l.epoch > EffList.epoch
  BY <1>1, <1>2, <1>3 DEF Larger
<1>5. now + LIST_DELAY_SECS \in Nat /\ ~(now >= now + LIST_DELAY_SECS)
  BY <1>2
<1>6. /\ pending'.epoch = l.epoch /\ pending'.root = l.root /\ pending'.active_at = now + LIST_DELAY_SECS
  BY <1>3
<1>7. VaultTyped'
  BY <1>1, <1>3, <1>5 DEF VaultTyped, ListRecord
<1>8. VaultBasic'
  BY <1>1, <1>3, <1>4, <1>6, <1>7 DEF VaultBasic
<1>9. EffList' = EffList
  BY <1>3, <1>5, <1>6 DEF EffList, Due
<1>10. QED  BY <1>3, <1>8, <1>9 DEF VaultMoves

LEMMA BasicQuiet ==
  ASSUME VaultBasic, UNCHANGED <<list, holders_paid, fallback_paid, paid>>,
         pending' = pending \/ (pending' = NoPending /\ ~Due),
         holders_funded' \in Nat, now' \in Nat, now' >= now
  PROVE  VaultBasic' /\ VaultMoves
<1>1. VaultTyped /\ now \in Nat /\ pending.active_at \in Nat
  BY DEF VaultBasic, VaultTyped
<1>2. NoPending \in [epoch : Nat, root : RootType, total : Nat, active_at : Nat]
      /\ NoPending.epoch = 0 /\ Named(NoPending.root)
  BY DEF NoPending, RootType, Named
<1>3. VaultTyped'
  BY <1>1, <1>2 DEF VaultTyped
<1>4. VaultBasic'
  BY <1>2, <1>3 DEF VaultBasic
<1>5. EffList' = EffList \/ EffList'.epoch > EffList.epoch
  <2>1. CASE Due
    <3>1. pending' = pending /\ Due'
      BY <1>1, <2>1 DEF Due
    <3>2. QED  BY <2>1, <3>1 DEF EffList
  <2>2. CASE ~Due /\ ~Due'
    BY <2>2 DEF EffList
  <2>3. CASE ~Due /\ Due'
    <3>1. pending' = pending /\ pending.epoch # 0
      BY <1>2, <2>3 DEF Due
    <3>2. EffList = list /\ EffList'.epoch = pending.epoch
      BY <2>3, <3>1 DEF EffList
    <3>3. QED  BY <3>1, <3>2 DEF VaultBasic
  <2>4. QED  BY <2>1, <2>2, <2>3
<1>6. QED  BY <1>4, <1>5 DEF VaultMoves

(* What the co-signers' checks establish about a list.                     *)
FollowsLive(l) ==
    /\ EffList.epoch + 1 >= l.epoch
    /\ EffList.epoch + 1 = l.epoch => Covers(l.root, EffList.root)
PaysAll(l) == EffList.epoch < l.epoch => CoversPaid(l.root)

LEMMA PromiseStays ==
  ASSUME VaultBasic, VaultBasic', VaultMoves, NEW l, l.epoch \in Nat, FollowsLive(l)
  PROVE  /\ EffList'.epoch + 1 >= l.epoch
         /\ EffList'.epoch + 1 = l.epoch => Covers(l.root, EffList'.root)
         /\ fallback_paid' <= fallback_paid /\ PaysAll(l) /\ EffList'.epoch < l.epoch =>
               \A w \in Wallets : AmountIn(l.root, w) >= paid'[w]
         /\ fallback_paid' >= fallback_paid
<1>1. EffList.epoch \in Nat
  BY EffBasic DEF ListRecord
<1>2. EffList'.epoch \in Nat
  BY DEF VaultBasic, VaultTyped, EffList
<1>3. fallback_paid \in Nat /\ fallback_paid' \in Nat
  BY DEF VaultBasic, VaultTyped
<1>4. EffList'.epoch >= EffList.epoch /\ (EffList' # EffList => EffList'.epoch > EffList.epoch)
  BY <1>1, <1>2 DEF VaultMoves
<1>5. EffList'.epoch + 1 >= l.epoch /\ (EffList'.epoch + 1 = l.epoch => EffList' = EffList)
  BY <1>1, <1>2, <1>4 DEF FollowsLive
<1>6. ASSUME fallback_paid' <= fallback_paid, PaysAll(l), EffList'.epoch < l.epoch
      PROVE  \A w \in Wallets : AmountIn(l.root, w) >= paid'[w]
  <2>1. EffList.epoch < l.epoch /\ EffList.epoch + 1 = l.epoch
    BY <1>1, <1>2, <1>4, <1>6 DEF FollowsLive
  <2>2. CoversPaid(l.root) /\ Covers(l.root, EffList.root)
    BY <1>6, <2>1 DEF PaysAll, FollowsLive
  <2>3. \A w \in Wallets : paid'[w] = paid[w] \/ paid'[w] = AmountIn(EffList.root, w)
    BY <1>3, <1>6 DEF VaultMoves
  <2>4. QED  BY <2>2, <2>3 DEF CoversPaid, Covers
<1>7. QED  BY <1>3, <1>5, <1>6 DEF VaultMoves, FollowsLive
-----------------------------------------------------------------------------
(* The site, the multisig and the co-signers, as far as lists come from    *)
(* them.                                                                   *)
SiteBasic ==
    /\ next \in FileType /\ Named(next.root)
    /\ v \in [funded : Nat, floor : Nat, epoch : Nat, prev : RootType, forced : BOOLEAN]
    /\ records \in [Wallets -> Nat] /\ fallback_then \in Nat
    /\ proposal \in 0..MaxProposals
    /\ step \in {"follow", "stale", "execute"} => proposal \in Indices

ProposalType ==
    [status : {"none", "active", "approved", "rejected", "executed", "closed"},
     list : FileType, prev : RootType, floor : Nat,
     approved : SUBSET Members, rejected : SUBSET Members]
ProposalGood(p) == Named(p.list.root) /\ (p.status = "none" => p.approved = {})
ProposalsGood == proposals \in [Indices -> ProposalType] /\ \A i \in Indices : ProposalGood(proposals[i])

CosignerType == [at : {"idle", "records", "approve", "reject", "execute"}, index : 0..MaxProposals,
                 fallback : Nat, done : SUBSET (0..MaxProposals)]
CosignersGood ==
    /\ cosigner \in [Cosigners -> CosignerType]
    /\ \A c \in Cosigners : cosigner[c].at # "idle" =>
          cosigner[c].index \in Indices /\ proposals[cosigner[c].index].status # "none"
    /\ checked \in [Indices -> Nat]

(* A co-signer has found the list to follow the live one.                  *)
Looked(i) ==
    \/ \E c \in Cosigners : cosigner[c].index = i /\ cosigner[c].at \in {"records", "approve"}
    \/ proposals[i].approved \cap Cosigners # {}

(* Its findings stand, unless the guardian took a due list away since, or  *)
(* a fallback paid.                                                        *)
FindingsStand ==
    \A i \in Indices \ overtaken :
        /\ Looked(i) => FollowsLive(proposals[i].list)
        /\ \A c \in Cosigners :
              cosigner[c].index = i /\ cosigner[c].at = "approve" =>
                  /\ cosigner[c].fallback <= fallback_paid
                  /\ cosigner[c].fallback = fallback_paid => PaysAll(proposals[i].list)
        /\ proposals[i].approved \cap Cosigners # {} =>
              /\ checked[i] <= fallback_paid
              /\ checked[i] = fallback_paid => PaysAll(proposals[i].list)

QuorumInv ==
    /\ VaultBasic /\ SiteBasic /\ ProposalsGood /\ CosignersGood /\ FindingsStand

-----------------------------------------------------------------------------
LEMMA FileTyped ==
  ASSUME NEW l \in FileType
  PROVE  l.epoch \in Nat /\ l.root \in RootType /\ l.total \in Nat /\ l.fallback \in Nat
BY DEF FileType, RootType

LEMMA NoFileGood == NoFile \in FileType /\ NoFile.epoch = 0 /\ Named(NoFile.root)
BY DEF NoFile, FileType, Named

LEMMA GoneGood == Gone \in ProposalType /\ ProposalGood(Gone) /\ Gone.list = NoFile
                  /\ Gone.status = "closed" /\ Gone.approved = {}
<1>1. Gone = [status |-> "closed", list |-> NoFile, prev |-> {}, floor |-> 0,
              approved |-> {}, rejected |-> {}]
  BY DEF Gone, NoProposal
<1>2. QED  BY <1>1, NoFileGood DEF ProposalType, ProposalGood, RootType

(* A vote changes who voted and the status, never the list.                *)
LEMMA ApprovedGood ==
  ASSUME NEW p \in ProposalType, ProposalGood(p), NEW who \in Members, p.status = "active"
  PROVE  /\ Approved(p, who) \in ProposalType /\ ProposalGood(Approved(p, who))
         /\ Approved(p, who).list = p.list /\ Approved(p, who).status \in {"active", "approved"}
         /\ Approved(p, who).approved = p.approved \cup {who}
BY DEF Approved, ProposalType, ProposalGood

LEMMA RejectedGood ==
  ASSUME NEW p \in ProposalType, ProposalGood(p), NEW who \in Members, p.status = "active"
  PROVE  /\ Rejected(p, who) \in ProposalType /\ ProposalGood(Rejected(p, who))
         /\ Rejected(p, who).list = p.list /\ Rejected(p, who).status \in {"active", "rejected"}
         /\ Rejected(p, who).approved \subseteq p.approved
BY DEF Rejected, ProposalType, ProposalGood

LEMMA RanGood ==
  ASSUME ProposalsGood, NEW i \in Indices, proposals[i].status = "approved"
  PROVE  /\ Ran(i) \in ProposalType /\ ProposalGood(Ran(i))
         /\ Ran(i).list = proposals[i].list /\ Ran(i).status = "executed"
         /\ Ran(i).approved = proposals[i].approved
BY DEF ProposalsGood, Ran, ProposalType, ProposalGood

(* The multisig goes on: one proposal or none becomes another good one.    *)
LEMMA OneChanges ==
  ASSUME ProposalsGood, NEW i, NEW p \in ProposalType, ProposalGood(p), p.status # "none",
         proposals' = [proposals EXCEPT ![i] = p]
  PROVE  /\ ProposalsGood'
         /\ \A j \in Indices : proposals'[j] = IF j = i THEN p ELSE proposals[j]
         /\ \A j \in Indices : proposals[j].status # "none" => proposals'[j].status # "none"
<1>1. \A j \in Indices : proposals'[j] = IF j = i THEN p ELSE proposals[j]
  BY DEF ProposalsGood
<1>2. proposals' \in [Indices -> ProposalType]
  BY DEF ProposalsGood
<1>3. ProposalsGood'
  <2>1. \A j \in Indices : ProposalGood(proposals'[j])
    BY <1>1 DEF ProposalsGood
  <2>2. QED  BY <1>2, <2>1 DEF ProposalsGood
<1>4. QED  BY <1>1, <1>3

(* Nobody looks at a proposal anew: what was found of each still stands.   *)
LEMMA FindingsKept ==
  ASSUME QuorumInv, VaultBasic', VaultMoves, ProposalsGood', overtaken \subseteq overtaken',
         \A c \in Cosigners : cosigner'[c].at \in {"records", "approve"} => cosigner'[c] = cosigner[c],
         \A i \in Indices \ overtaken' :
             /\ proposals'[i].list = proposals[i].list \/ proposals'[i].list = NoFile
                \/ (proposals[i].status = "none" /\ proposals'[i].approved \cap Cosigners = {})
             /\ proposals'[i].approved \cap Cosigners # {} =>
                    proposals[i].approved \cap Cosigners # {} /\ checked'[i] = checked[i]
  PROVE  FindingsStand'
<1> SUFFICES ASSUME NEW i \in Indices \ overtaken'
             PROVE  /\ Looked(i)' => FollowsLive(proposals[i].list)'
                    /\ \A c \in Cosigners :
                          cosigner'[c].index = i /\ cosigner'[c].at = "approve" =>
                              /\ cosigner'[c].fallback <= fallback_paid'
                              /\ cosigner'[c].fallback = fallback_paid' => PaysAll(proposals[i].list)'
                    /\ proposals'[i].approved \cap Cosigners # {} =>
                          /\ checked'[i] <= fallback_paid'
                          /\ checked'[i] = fallback_paid' => PaysAll(proposals[i].list)'
  BY DEF FindingsStand
<1> DEFINE l == proposals[i].list
           m == proposals'[i].list
<1>1. /\ VaultBasic /\ ProposalsGood /\ CosignersGood /\ FindingsStand
      /\ l \in FileType /\ l.epoch \in Nat
  BY FileTyped DEF QuorumInv, ProposalsGood, ProposalType
<1>2. i \in Indices \ overtaken
  OBVIOUS
<1>3. fallback_paid \in Nat /\ fallback_paid' \in Nat /\ EffList'.epoch \in Nat
  BY DEF QuorumInv, VaultBasic, VaultTyped, EffList
<1>4. ASSUME Looked(i)' PROVE Looked(i)
  <2>1. CASE \E c \in Cosigners : cosigner'[c].index = i /\ cosigner'[c].at \in {"records", "approve"}
    BY <2>1 DEF Looked
  <2>2. CASE proposals'[i].approved \cap Cosigners # {}
    BY <2>2 DEF Looked
  <2>3. QED  BY <1>4, <2>1, <2>2 DEF Looked
<1>5. ASSUME Looked(i), Looked(i)' PROVE m = l \/ m = NoFile
  <2>1. CASE proposals[i].status = "none"
    <3>1. proposals[i].approved = {}
      BY <1>1, <2>1 DEF ProposalsGood, ProposalGood
    <3>2. QED  BY <1>1, <1>5, <2>1, <3>1 DEF Looked, CosignersGood
  <2>2. CASE proposals[i].status # "none"
    BY <1>2, <2>2
  <2>3. QED  BY <2>1, <2>2
<1>6. Looked(i) => FollowsLive(l)
  BY <1>1, <1>2 DEF FindingsStand
<1> HIDE DEF l, m
<1>7. ASSUME Looked(i)', Looked(i) PROVE FollowsLive(proposals[i].list)'
  <2>1. m = l \/ (m = NoFile /\ m.epoch = 0)
    BY <1>5, <1>7, NoFileGood
  <2>2. FollowsLive(l)
    BY <1>6, <1>7
  <2>3. CASE m = l
    <3>1. EffList'.epoch + 1 >= l.epoch /\ (EffList'.epoch + 1 = l.epoch => Covers(l.root, EffList'.root))
      BY <1>1, <2>2, PromiseStays
    <3>2. QED  BY <2>3, <3>1 DEF FollowsLive, m
  <2>4. CASE m = NoFile /\ m.epoch = 0
    BY <1>3, <2>4 DEF FollowsLive, m
  <2>5. QED  BY <2>1, <2>3, <2>4
<1>8. ASSUME Looked(i)', Looked(i), fallback_paid' <= fallback_paid, PaysAll(l)
      PROVE  PaysAll(proposals[i].list)'
  <2>1. m = l \/ (m = NoFile /\ m.epoch = 0)
    BY <1>5, <1>8, NoFileGood
  <2>2. FollowsLive(l)
    BY <1>6, <1>8
  <2>3. CASE m = l
    <3>1. EffList'.epoch < l.epoch => \A w \in Wallets : AmountIn(l.root, w) >= paid'[w]
      BY <1>1, <1>8, <2>2, PromiseStays
    <3>2. QED  BY <2>3, <3>1 DEF PaysAll, CoversPaid, m
  <2>4. CASE m = NoFile /\ m.epoch = 0
    BY <1>3, <2>4 DEF PaysAll, m
  <2>5. QED  BY <2>1, <2>3, <2>4
<1>9. ASSUME Looked(i) PROVE fallback_paid' >= fallback_paid
  BY <1>1, <1>6, <1>9, PromiseStays
<1>10. ASSUME NEW c \in Cosigners, cosigner'[c].index = i, cosigner'[c].at = "approve"
       PROVE  /\ cosigner'[c].fallback <= fallback_paid'
              /\ cosigner'[c].fallback = fallback_paid' => PaysAll(proposals[i].list)'
  <2>1. cosigner'[c] = cosigner[c] /\ Looked(i)' /\ Looked(i)
    BY <1>4, <1>10 DEF Looked
  <2>2. /\ cosigner[c].fallback <= fallback_paid
        /\ cosigner[c].fallback = fallback_paid => PaysAll(l)
    BY <1>1, <1>2, <1>10, <2>1 DEF FindingsStand, l
  <2>3. cosigner[c].fallback \in Nat
    BY <1>1 DEF CosignersGood, CosignerType
  <2>4. QED  BY <1>3, <1>8, <1>9, <2>1, <2>2, <2>3
<1>11. ASSUME proposals'[i].approved \cap Cosigners # {}
       PROVE  /\ checked'[i] <= fallback_paid'
              /\ checked'[i] = fallback_paid' => PaysAll(proposals[i].list)'
  <2>1. proposals[i].approved \cap Cosigners # {} /\ checked'[i] = checked[i] /\ Looked(i)' /\ Looked(i)
    BY <1>4, <1>11 DEF Looked
  <2>2. /\ checked[i] <= fallback_paid
        /\ checked[i] = fallback_paid => PaysAll(l)
    BY <1>1, <1>2, <2>1 DEF FindingsStand, l
  <2>3. checked[i] \in Nat
    BY <1>1 DEF CosignersGood
  <2>4. QED  BY <1>3, <1>8, <1>9, <2>1, <2>2, <2>3
<1>12. QED  BY <1>4, <1>7, <1>10, <1>11
-----------------------------------------------------------------------------
(* Steps of the quorum.                                                    *)
LEMMA AtEffect ==
  ASSUME CosignersGood, NEW c \in Cosigners, NEW at \in {"idle", "records", "approve", "reject", "execute"},
         NEW i \in 0..MaxProposals, NEW fallback \in Nat, At(c, at, i, fallback)
  PROVE  /\ cosigner' \in [Cosigners -> CosignerType]
         /\ cosigner'[c].at = at /\ cosigner'[c].index = i /\ cosigner'[c].fallback = fallback
         /\ \A d \in Cosigners \ {c} : cosigner'[d] = cosigner[d]
BY DEF CosignersGood, CosignerType, At

LEMMA DoneEffect ==
  ASSUME CosignersGood, NEW c \in Cosigners, DoneWith(c)
  PROVE  /\ cosigner' \in [Cosigners -> CosignerType]
         /\ cosigner'[c].at = "idle" /\ \A d \in Cosigners \ {c} : cosigner'[d] = cosigner[d]
<1>1. cosigner[c] \in CosignerType
  BY DEF CosignersGood
<1>2. cosigner' = [cosigner EXCEPT ![c] = [at |-> "idle", index |-> 0, fallback |-> 0,
                                           done |-> cosigner[c].done \cup {cosigner[c].index}]]
  <2> DEFINE d == cosigner[c].done \cup {cosigner[c].index}
  <2>1. cosigner' = [cosigner EXCEPT ![c] = [CosignerIdle EXCEPT !.done = d]]
    BY DEF DoneWith
  <2> HIDE DEF d
  <2>2. [CosignerIdle EXCEPT !.done = d] = [at |-> "idle", index |-> 0, fallback |-> 0, done |-> d]
    BY DEF CosignerIdle
  <2>3. QED  BY <2>1, <2>2 DEF d
<1>3. [at |-> "idle", index |-> 0, fallback |-> 0,
       done |-> cosigner[c].done \cup {cosigner[c].index}] \in CosignerType
  BY <1>1, QuorumAssumption DEF CosignerType
<1>4. QED  BY <1>2, <1>3 DEF CosignersGood

(* What a co-signer is at stays there.                                     *)
LEMMA CosignersKept ==
  ASSUME CosignersGood, cosigner' \in [Cosigners -> CosignerType], checked' \in [Indices -> Nat],
         \A j \in Indices : proposals[j].status # "none" => proposals'[j].status # "none",
         \A c \in Cosigners :
             \/ cosigner'[c].at = "idle"
             \/ cosigner'[c] = cosigner[c]
             \/ cosigner'[c].index \in Indices /\ proposals'[cosigner'[c].index].status # "none"
  PROVE  CosignersGood'
BY DEF CosignersGood

LEMMA SiteStays ==
  ASSUME QuorumInv, UNCHANGED <<file, v, records, fallback_then, proposal, step>>
  PROVE  SiteBasic'
BY DEF QuorumInv, SiteBasic, file

LEMMA VaultStays ==
  ASSUME QuorumInv, UNCHANGED vaultView
  PROVE  VaultBasic' /\ VaultMoves
<1>1. VaultBasic /\ holders_funded \in Nat /\ now \in Nat /\ now >= now
  BY DEF QuorumInv, VaultBasic, VaultTyped
<1>2. QED  BY <1>1, BasicQuiet DEF vaultView

(* Only the site, or only the vault, or what was executed, changes.        *)
LEMMA Quietly ==
  ASSUME QuorumInv, VaultBasic', VaultMoves, SiteBasic', UNCHANGED <<proposals, checked>>,
         overtaken \subseteq overtaken',
         cosigner' \in [Cosigners -> CosignerType],
         \A c \in Cosigners : cosigner'[c].at = "idle" \/ cosigner'[c] = cosigner[c]
  PROVE  QuorumInv'
<1>1. ProposalsGood /\ CosignersGood
  BY DEF QuorumInv
<1>2. ProposalsGood' /\ checked' \in [Indices -> Nat]
  BY <1>1 DEF ProposalsGood, CosignersGood
<1>3. CosignersGood'
  BY <1>1, <1>2, CosignersKept
<1>4. FindingsStand'
  BY <1>2, FindingsKept
<1>5. QED  BY <1>2, <1>3, <1>4 DEF QuorumInv

LEMMA SiteQuietly ==
  ASSUME QuorumInv, UNCHANGED vaultView, SiteBasic', UNCHANGED <<chain, cosigner>>
  PROVE  QuorumInv'
<1>1. VaultBasic' /\ VaultMoves
  BY VaultStays
<1>2. UNCHANGED <<proposals, checked, cosigner>> /\ overtaken \subseteq overtaken'
  BY DEF chain
<1>3. cosigner' \in [Cosigners -> CosignerType]
  BY <1>2 DEF QuorumInv, CosignersGood
<1>4. QED  BY <1>1, <1>2, <1>3, Quietly

(* A proposal moves on; nobody new approves of it.                         *)
LEMMA ProposalMoves ==
  ASSUME QuorumInv, VaultBasic', VaultMoves, SiteBasic',
         NEW i, NEW p \in ProposalType, ProposalGood(p), p.status # "none",
         proposals' = [proposals EXCEPT ![i] = p],
         i \in Indices => \/ p.list = NoFile /\ p.approved = {}
                          \/ proposals[i].status = "none" /\ p.approved \cap Cosigners = {}
                          \/ p.list = proposals[i].list
                             /\ p.approved \cap Cosigners \subseteq proposals[i].approved,
         UNCHANGED <<checked, overtaken>>,
         cosigner' \in [Cosigners -> CosignerType],
         \A c \in Cosigners : cosigner'[c].at = "idle" \/ cosigner'[c] = cosigner[c]
  PROVE  QuorumInv'
<1>1. ProposalsGood /\ CosignersGood
  BY DEF QuorumInv
<1>2. /\ ProposalsGood'
      /\ \A j \in Indices : proposals'[j] = IF j = i THEN p ELSE proposals[j]
      /\ \A j \in Indices : proposals[j].status # "none" => proposals'[j].status # "none"
  BY <1>1, OneChanges
<1>3. checked' \in [Indices -> Nat]
  BY <1>1 DEF CosignersGood
<1>4. CosignersGood'
  BY <1>1, <1>2, <1>3, CosignersKept
<1>5. \A j \in Indices \ overtaken' :
          /\ proposals'[j].list = proposals[j].list \/ proposals'[j].list = NoFile
             \/ (proposals[j].status = "none" /\ proposals'[j].approved \cap Cosigners = {})
          /\ proposals'[j].approved \cap Cosigners # {} =>
                 proposals[j].approved \cap Cosigners # {} /\ checked'[j] = checked[j]
  BY <1>2
<1>6. FindingsStand'
  BY <1>2, <1>5, FindingsKept
<1>7. QED  BY <1>2, <1>4, <1>6 DEF QuorumInv

(* An approved list is executed.                                           *)
LEMMA ExecutesEffect ==
  ASSUME QuorumInv, NEW i \in Indices, Executes(i)
  PROVE  VaultBasic' /\ VaultMoves /\ proposals[i].status = "approved" /\ Landing(proposals[i].list)
<1>1. proposals[i].list \in FileType /\ Named(proposals[i].list.root) /\ VaultBasic
  BY DEF QuorumInv, ProposalsGood, ProposalGood, ProposalType
<1>2. Landing(proposals[i].list) /\ proposals[i].status = "approved"
  BY LandingEffect DEF Executes, CanExecute
<1>3. QED  BY <1>1, <1>2, FileTyped, BasicLanding

LEMMA RunsStep ==
  ASSUME QuorumInv, NEW i \in Indices, Executes(i), Settled(i, Ran(i)) \/ Settled(i, Gone), SiteBasic',
         cosigner' \in [Cosigners -> CosignerType],
         \A c \in Cosigners : cosigner'[c].at = "idle" \/ cosigner'[c] = cosigner[c]
  PROVE  QuorumInv'
<1>1. VaultBasic' /\ VaultMoves /\ proposals[i].status = "approved" /\ ProposalsGood
  BY ExecutesEffect DEF QuorumInv
<1>2. CASE Settled(i, Ran(i))
  <2>1. /\ proposals' = [proposals EXCEPT ![i] = Ran(i)] /\ UNCHANGED <<checked, overtaken>>
    BY <1>2 DEF Settled
  <2>2. /\ Ran(i) \in ProposalType /\ ProposalGood(Ran(i)) /\ Ran(i).status # "none"
        /\ Ran(i).list = proposals[i].list /\ Ran(i).approved = proposals[i].approved
    BY <1>1, RanGood
  <2> DEFINE p == Ran(i)
  <2> HIDE DEF p
  <2>3. QED  BY <1>1, <2>1, <2>2, ProposalMoves DEF p
<1>3. CASE Settled(i, Gone)
  <2>1. /\ proposals' = [proposals EXCEPT ![i] = Gone] /\ UNCHANGED <<checked, overtaken>>
    BY <1>3 DEF Settled
  <2>2. QED  BY <1>1, <2>1, GoneGood, ProposalMoves
<1>4. QED  BY <1>2, <1>3
-----------------------------------------------------------------------------
(* The site.                                                               *)
LEMMA QuorumSyncStep == ASSUME QuorumInv, QuorumSync PROVE QuorumInv'
<1>1. SiteBasic /\ ProposalsGood
  BY DEF QuorumInv
<1>2. CASE step' = "list" /\ UNCHANGED <<vars, file, v, records, flying, fallback_then, proposal, chain, cosigner>>
  <2>1. SiteBasic'
    BY <1>1, <1>2 DEF SiteBasic, file
  <2>2. QED  BY <1>2, <2>1, Views, SiteQuietly
<1>3. CASE /\ Sync /\ proposal' = (IF next'.epoch = 0 THEN 0 ELSE proposal) /\ UNCHANGED cosigner
           /\ \/ UNCHANGED chain
              \/ /\ Waiting /\ proposals[proposal].status = "executed"
                 /\ Settled(proposal, Gone)
  <2>1. UNCHANGED vaultView /\ UNCHANGED <<v, records, fallback_then>>
    BY <1>3, Views DEF Sync
  <2>2. step' \in {"list", "resend"} /\ next' \in {NoFile, next, [next EXCEPT !.published = TRUE]}
    BY <1>3 DEF Sync, file
  <2>3. next' \in FileType /\ Named(next'.root)
    <3>1. next \in FileType /\ Named(next.root)
      BY <1>1 DEF SiteBasic
    <3>2. LET n == [next EXCEPT !.published = TRUE] IN n \in FileType /\ n.root = next.root
      BY <3>1 DEF FileType
    <3>3. QED  BY <2>2, <3>1, <3>2, NoFileGood
  <2>4. SiteBasic'
    BY <1>1, <1>3, <2>1, <2>2, <2>3, QuorumAssumption DEF SiteBasic
  <2>5. CASE UNCHANGED chain
    BY <1>3, <2>1, <2>4, <2>5, SiteQuietly
  <2>6. CASE Settled(proposal, Gone)
    <3>1. /\ proposals' = [proposals EXCEPT ![proposal] = Gone] /\ UNCHANGED <<checked, overtaken>>
      BY <2>6 DEF Settled
    <3>2. VaultBasic' /\ VaultMoves
      BY <2>1, VaultStays
    <3>3. cosigner' \in [Cosigners -> CosignerType] /\ cosigner' = cosigner
      BY <1>3 DEF QuorumInv, CosignersGood
    <3>4. QED  BY <2>4, <3>1, <3>2, <3>3, GoneGood, ProposalMoves
  <2>7. QED  BY <1>3, <2>5, <2>6
<1>4. QED  BY <1>2, <1>3 DEF QuorumSync

LEMMA QuorumReadVaultStep == ASSUME QuorumInv, QuorumReadVault PROVE QuorumInv'
<1>1. SiteBasic /\ VaultTyped
  BY DEF QuorumInv, VaultBasic
<1>2. UNCHANGED vaultView /\ UNCHANGED <<file, records, flying, fallback_then, chain, cosigner, proposal>>
  BY Views DEF QuorumReadVault, ReadVault, quorumVars
<1>3. SiteBasic'
  <2>1. CASE Waiting
    <3>1. step' \in {"stale", "follow"} /\ v' = v /\ proposal # 0
      BY <2>1 DEF QuorumReadVault, Waiting
    <3>2. QED  BY <1>1, <1>2, <3>1 DEF SiteBasic, file, Indices
  <2>2. CASE ~Waiting
    <3>1. step' \in {"idle", "records"}
      BY <2>2 DEF QuorumReadVault, ReadVault
    <3>2. v' = v \/ v' = [funded |-> holders_funded, floor |-> Floor, epoch |-> LastEpoch + 1,
                          prev |-> SeenRoot, forced |-> InFallback]
      BY <2>2 DEF QuorumReadVault, ReadVault
    <3>3. Floor \in Nat /\ LastEpoch \in Nat /\ InFallback \in BOOLEAN /\ SeenRoot \in RootType
      BY <1>1 DEF VaultTyped, Floor, LastEpoch, Larger, InFallback, SeenRoot
    <3>4. v' \in [funded : Nat, floor : Nat, epoch : Nat, prev : RootType, forced : BOOLEAN]
      BY <1>1, <3>2, <3>3 DEF SiteBasic, VaultTyped
    <3>5. QED  BY <1>1, <1>2, <3>1, <3>4 DEF SiteBasic, file
  <2>3. QED  BY <2>1, <2>2
<1>4. QED  BY <1>2, <1>3, SiteQuietly

LEMMA ProposeStep == ASSUME QuorumInv, NEW i \in Indices, NEW seen \in BOOLEAN, Propose(i, seen) PROVE QuorumInv'
<1> DEFINE p == [status |-> "active", list |-> next, prev |-> v.prev, floor |-> v.floor,
                 approved |-> {Site}, rejected |-> {}]
<1>1. SiteBasic
  BY DEF QuorumInv
<1>2. /\ UNCHANGED vaultView /\ UNCHANGED <<file, v, records, fallback_then, cosigner, checked, overtaken>>
      /\ proposals[i].status = "none" /\ proposals' = [proposals EXCEPT ![i] = p]
      /\ proposal' = i \/ proposal' = proposal
      /\ step' \in {"idle", "list"}
  BY Views DEF Propose
<1>3. p.status = "active" /\ p.list = next /\ p.approved = {Site}
  OBVIOUS
<1>4. p \in ProposalType /\ ProposalGood(p) /\ p.status # "none" /\ p.approved \cap Cosigners = {}
  BY <1>1, <1>3, QuorumAssumption DEF SiteBasic, ProposalType, ProposalGood, Members
<1> HIDE DEF p
<1>5. SiteBasic'
  BY <1>1, <1>2, QuorumAssumption DEF SiteBasic, file, Indices
<1>6. VaultBasic' /\ VaultMoves
  BY <1>2, VaultStays
<1>7. cosigner' \in [Cosigners -> CosignerType] /\ cosigner' = cosigner
  BY <1>2 DEF QuorumInv, CosignersGood
<1>8. QED  BY <1>2, <1>4, <1>5, <1>6, <1>7, ProposalMoves

LEMMA FollowStep == ASSUME QuorumInv, FollowProposal PROVE QuorumInv'
<1>1. UNCHANGED vaultView /\ UNCHANGED <<file, v, records, fallback_then, proposal, chain, cosigner>>
      /\ step \in {"follow", "stale"}
  BY Views DEF FollowProposal, quorumVars
<1>2. SiteBasic'
  BY <1>1 DEF QuorumInv, SiteBasic, file
<1>3. QED  BY <1>1, <1>2, SiteQuietly

(* A member's vote against a list.                                         *)
LEMMA AgainstStep ==
  ASSUME QuorumInv, NEW i, NEW who \in Members, VoteAgainst(i, who), i \in Indices,
         UNCHANGED vaultView, SiteBasic',
         cosigner' \in [Cosigners -> CosignerType],
         \A c \in Cosigners : cosigner'[c].at = "idle" \/ cosigner'[c] = cosigner[c]
  PROVE  QuorumInv'
<1> DEFINE p == Rejected(proposals[i], who)
<1>1. /\ proposals[i].status = "active" /\ UNCHANGED <<checked, overtaken>>
      /\ proposals' = [proposals EXCEPT ![i] = p]
  BY DEF VoteAgainst, QuorumInv, ProposalsGood
<1>2. proposals[i] \in ProposalType /\ ProposalGood(proposals[i])
  BY DEF QuorumInv, ProposalsGood
<1>3. /\ p \in ProposalType /\ ProposalGood(p) /\ p.list = proposals[i].list /\ p.status # "none"
      /\ p.approved \subseteq proposals[i].approved
  BY <1>1, <1>2, RejectedGood
<1> HIDE DEF p
<1>4. VaultBasic' /\ VaultMoves
  BY VaultStays
<1>5. QED  BY <1>1, <1>3, <1>4, ProposalMoves

LEMMA SiteRejectsStep == ASSUME QuorumInv, SiteRejects PROVE QuorumInv'
<1>1. UNCHANGED vaultView /\ UNCHANGED <<file, v, records, fallback_then, proposal, cosigner>>
      /\ step' = "drop"
  BY Views DEF SiteRejects
<1>2. SiteBasic'
  BY <1>1 DEF QuorumInv, SiteBasic, file
<1>3. cosigner' \in [Cosigners -> CosignerType] /\ cosigner' = cosigner
  BY <1>1 DEF QuorumInv, CosignersGood
<1>4. CASE UNCHANGED chain
  BY <1>1, <1>2, <1>4, SiteQuietly
<1>5. CASE VoteAgainst(proposal, Site) /\ proposal \in Indices
  BY <1>1, <1>2, <1>3, <1>5, AgainstStep DEF Members
<1>6. CASE VoteAgainst(proposal, Site) /\ proposal \notin Indices
  <2>1. proposals' = proposals /\ UNCHANGED chain
    BY <1>6 DEF VoteAgainst, QuorumInv, ProposalsGood, chain
  <2>2. QED  BY <1>4, <2>1
<1>7. QED  BY <1>4, <1>5, <1>6 DEF SiteRejects

LEMMA DropStep == ASSUME QuorumInv, DropNext PROVE QuorumInv'
<1>1. UNCHANGED vaultView /\ UNCHANGED <<v, records, fallback_then, cosigner>>
      /\ step' = "idle" /\ next' = NoFile /\ proposal' = 0
  BY Views DEF DropNext
<1>2. SiteBasic'
  BY <1>1, NoFileGood, QuorumAssumption DEF QuorumInv, SiteBasic
<1>3. cosigner' \in [Cosigners -> CosignerType] /\ cosigner' = cosigner
  BY <1>1 DEF QuorumInv, CosignersGood
<1>4. CASE UNCHANGED chain
  BY <1>1, <1>2, <1>4, SiteQuietly
<1>5. CASE Settled(proposal, Gone)
  <2>1. /\ proposals' = [proposals EXCEPT ![proposal] = Gone] /\ UNCHANGED <<checked, overtaken>>
    BY <1>5 DEF Settled
  <2>2. VaultBasic' /\ VaultMoves
    BY <1>1, VaultStays
  <2>3. QED  BY <1>2, <1>3, <2>1, <2>2, GoneGood, ProposalMoves
<1>6. QED  BY <1>4, <1>5 DEF DropNext

LEMMA SiteExecutesStep == ASSUME QuorumInv, SiteExecutes PROVE QuorumInv'
<1>1. UNCHANGED <<file, v, records, fallback_then, proposal, cosigner>> /\ step' = "idle"
      /\ proposal \in Indices
  BY DEF SiteExecutes, QuorumInv, SiteBasic
<1>2. SiteBasic'
  BY <1>1 DEF QuorumInv, SiteBasic, file
<1>3. cosigner' \in [Cosigners -> CosignerType] /\ cosigner' = cosigner
  BY <1>1 DEF QuorumInv, CosignersGood
<1>4. CASE Executes(proposal) /\ (Settled(proposal, Ran(proposal)) \/ Settled(proposal, Gone))
  BY <1>1, <1>2, <1>3, <1>4, RunsStep
<1>5. CASE UNCHANGED <<vars, chain>>
  BY <1>2, <1>3, <1>5, Views, SiteQuietly
<1>6. QED  BY <1>4, <1>5 DEF SiteExecutes

LEMMA QuorumBuildStep == ASSUME QuorumInv, NEW balances \in Balances, QuorumBuild(balances) PROVE QuorumInv'
<1> DEFINE shares == Allocate(balances, Pot(records))
           totals == Compose(shares)
<1>1. UNCHANGED vaultView /\ UNCHANGED <<v, records, fallback_then, cosigner, chain>>
      /\ step' \in {"idle", "publish"} /\ proposal' \in {0, proposal}
  BY Views DEF QuorumBuild, Build
<1>2. SiteBasic
  BY DEF QuorumInv
<1>3. \/ UNCHANGED next
      \/ next' = [epoch |-> v.epoch, root |-> RootOf(totals), total |-> SumOf(totals),
                  fallback |-> fallback_then, pinned |-> FALSE, published |-> FALSE]
  BY DEF QuorumBuild, Build, file
<1>4. v.prev \in RootType /\ v.funded \in Nat /\ v.floor \in Nat /\ v.epoch \in Nat
      /\ records \in [Wallets -> Nat] /\ fallback_then \in Nat
  BY <1>2 DEF SiteBasic
<1>5. shares \in [Wallets -> Nat]
  BY <1>4, PotNat, AllocateType
<1> HIDE DEF shares
<1>6. totals \in [Wallets -> Nat]
  BY <1>4, <1>5, ComposeFacts
<1> HIDE DEF totals
<1>7. RootOf(totals) \in RootType /\ Named(RootOf(totals)) /\ SumOf(totals) \in Nat
  BY <1>6, RootHolds, SumOfNat DEF Named
<1>8. next' \in FileType /\ Named(next'.root)
  <2> DEFINE root == RootOf(totals)
             sum == SumOf(totals)
  <2>1. root \in RootType /\ Named(root) /\ sum \in Nat
    BY <1>7
  <2>2. UNCHANGED next \/ next' = [epoch |-> v.epoch, root |-> root, total |-> sum,
                                  fallback |-> fallback_then, pinned |-> FALSE, published |-> FALSE]
    BY <1>3
  <2> HIDE DEF root, sum
  <2>3. CASE UNCHANGED next
    BY <1>2, <2>3 DEF SiteBasic
  <2>4. CASE next' = [epoch |-> v.epoch, root |-> root, total |-> sum,
                      fallback |-> fallback_then, pinned |-> FALSE, published |-> FALSE]
    <3>1. next' \in FileType
      BY <1>4, <2>1, <2>4 DEF FileType, RootType
    <3>2. next'.root = root
      BY <2>4
    <3>3. QED  BY <2>1, <3>1, <3>2
  <2>5. QED  BY <2>2, <2>3, <2>4
<1>9. SiteBasic'
  BY <1>1, <1>2, <1>8, QuorumAssumption DEF SiteBasic
<1>10. QED  BY <1>1, <1>9, SiteQuietly

LEMMA ReadPinStopStep ==
  ASSUME QuorumInv, (ReadRecords \/ Pin \/ Stop) /\ UNCHANGED <<chain, proposal, cosigner>>
  PROVE  QuorumInv'
<1>1. SiteBasic /\ VaultTyped
  BY DEF QuorumInv, VaultBasic
<1>2. UNCHANGED vaultView /\ UNCHANGED <<v, chain, proposal, cosigner>>
  BY Views DEF ReadRecords, Pin, Stop
<1>3. CASE ReadRecords
  <2>1. records' = [w \in Wallets |-> paid[w]] /\ fallback_then' = fallback_paid /\ next' = next
        /\ step' \in {"idle", "balances"}
    BY <1>3 DEF ReadRecords, file
  <2>2. records' \in [Wallets -> Nat] /\ fallback_then' \in Nat
    BY <1>1, <2>1 DEF VaultTyped, Accounts
  <2>3. SiteBasic'
    BY <1>1, <1>2, <2>1, <2>2 DEF SiteBasic
  <2>4. QED  BY <1>2, <2>3, SiteQuietly
<1>4. CASE Pin
  <2>1. next' = [next EXCEPT !.pinned = TRUE] /\ UNCHANGED <<records, fallback_then, step>>
    BY <1>4 DEF Pin
  <2>2. next' \in FileType /\ next'.root = next.root
    BY <1>1, <2>1 DEF SiteBasic, FileType
  <2>3. SiteBasic'
    BY <1>1, <1>2, <2>1, <2>2 DEF SiteBasic
  <2>4. QED  BY <1>2, <2>3, SiteQuietly
<1>5. CASE Stop
  <2>1. step' = "idle" /\ next' = next /\ UNCHANGED <<records, fallback_then>>
    BY <1>5 DEF Stop, file
  <2>2. SiteBasic'
    BY <1>1, <1>2, <2>1 DEF SiteBasic
  <2>3. QED  BY <1>2, <2>2, SiteQuietly
<1>6. QED  BY <1>3, <1>4, <1>5
-----------------------------------------------------------------------------
(* A co-signer, with the vault and the site as they are.                   *)
LEMMA CosignerLooksStep ==
  ASSUME QuorumInv, NEW c \in Cosigners, NEW i \in Indices, CosignerLooks(c, i)
  PROVE  QuorumInv'
<1> DEFINE at == IF Acceptable(proposals[i]) THEN "records" ELSE "reject"
<1>1. /\ UNCHANGED <<vaultView, chain, proposal>> /\ UNCHANGED <<file, v, records, fallback_then, proposal, step>>
      /\ proposals[i].status = "active" /\ At(c, at, i, 0)
  BY Views DEF CosignerLooks, allVars, site
<1>2. VaultBasic /\ VaultBasic' /\ SiteBasic' /\ ProposalsGood /\ CosignersGood /\ FindingsStand /\ UNCHANGED vaultView
  BY <1>1, VaultStays, SiteStays DEF QuorumInv
<1>3. at \in {"records", "reject"} /\ i \in 0..MaxProposals /\ 0 \in Nat
  BY QuorumAssumption DEF Indices
<1>4. at = "records" => FollowsLive(proposals[i].list)
  <2>1. Acceptable(proposals[i]) => FollowsLive(proposals[i].list)
    <3>1. EffList.epoch \in Nat
      BY <1>2, EffBasic DEF ListRecord
    <3>2. QED  BY <3>1 DEF Acceptable, FollowsLive, Covers
  <2>2. QED  BY <2>1
<1> HIDE DEF at
<1>5. /\ cosigner' \in [Cosigners -> CosignerType]
      /\ cosigner'[c].at = at /\ cosigner'[c].index = i
      /\ \A d \in Cosigners \ {c} : cosigner'[d] = cosigner[d]
  BY <1>1, <1>2, <1>3, AtEffect
<1>6. UNCHANGED <<proposals, checked, overtaken>>
  BY <1>1 DEF chain
<1>7. CosignersGood'
  <2>1. \A d \in Cosigners : \/ cosigner'[d].at = "idle" \/ cosigner'[d] = cosigner[d]
                             \/ cosigner'[d].index \in Indices /\ proposals'[cosigner'[d].index].status # "none"
    BY <1>1, <1>5, <1>6
  <2>2. checked' \in [Indices -> Nat]
    BY <1>2, <1>6 DEF CosignersGood
  <2>3. QED  BY <1>2, <1>5, <1>6, <2>1, <2>2, CosignersKept
<1>8. EffList' = EffList
  BY <1>1 DEF EffList, Due, vaultView
<1>9. FindingsStand'
  <2> SUFFICES ASSUME NEW j \in Indices \ overtaken
               PROVE  /\ Looked(j)' => FollowsLive(proposals[j].list)
                      /\ \A d \in Cosigners :
                            cosigner'[d].index = j /\ cosigner'[d].at = "approve" =>
                                /\ cosigner'[d].fallback <= fallback_paid
                                /\ cosigner'[d].fallback = fallback_paid => PaysAll(proposals[j].list)
                      /\ proposals[j].approved \cap Cosigners # {} =>
                            /\ checked[j] <= fallback_paid
                            /\ checked[j] = fallback_paid => PaysAll(proposals[j].list)
    BY <1>1, <1>6, <1>8 DEF FindingsStand, FollowsLive, PaysAll, CoversPaid, vaultView
  <2>1. /\ Looked(j) => FollowsLive(proposals[j].list)
        /\ \A d \in Cosigners :
              cosigner[d].index = j /\ cosigner[d].at = "approve" =>
                  /\ cosigner[d].fallback <= fallback_paid
                  /\ cosigner[d].fallback = fallback_paid => PaysAll(proposals[j].list)
        /\ proposals[j].approved \cap Cosigners # {} =>
              /\ checked[j] <= fallback_paid
              /\ checked[j] = fallback_paid => PaysAll(proposals[j].list)
    BY <1>2 DEF FindingsStand
  <2>2. Looked(j)' => Looked(j) \/ (j = i /\ at = "records")
    BY <1>3, <1>5, <1>6 DEF Looked
  <2>3. \A d \in Cosigners : cosigner'[d].at = "approve" => cosigner'[d] = cosigner[d]
    BY <1>3, <1>5
  <2>4. QED  BY <1>4, <2>1, <2>2, <2>3
<1>10. QED  BY <1>2, <1>6, <1>7, <1>9 DEF QuorumInv, ProposalsGood

LEMMA CosignerJudgesStep ==
  ASSUME QuorumInv, NEW c \in Cosigners, CosignerJudges(c)
  PROVE  QuorumInv'
<1> DEFINE i == cosigner[c].index
           l == proposals[i].list
<1>1. /\ UNCHANGED <<vaultView, chain, proposal>> /\ UNCHANGED <<file, v, records, fallback_then, proposal, step>>
      /\ cosigner[c].at = "records"
      /\ \/ NobodyUnderPaid(l.root) /\ At(c, "approve", i, fallback_paid)
         \/ ~NobodyUnderPaid(l.root) /\ At(c, "reject", i, 0)
  BY Views DEF CosignerJudges, allVars, site
<1>2. VaultBasic /\ VaultBasic' /\ SiteBasic' /\ ProposalsGood /\ CosignersGood /\ FindingsStand
  BY <1>1, VaultStays, SiteStays DEF QuorumInv
<1>3. i \in Indices /\ proposals[i].status # "none" /\ i \in 0..MaxProposals /\ fallback_paid \in Nat
  BY <1>1, <1>2, QuorumAssumption DEF CosignersGood, VaultBasic, VaultTyped, Indices
<1>4. NobodyUnderPaid(l.root) => PaysAll(l)
  BY DEF NobodyUnderPaid, PaysAll, CoversPaid
<1>5. Looked(i)
  BY <1>1 DEF Looked
<1> HIDE DEF l
<1>6. /\ cosigner' \in [Cosigners -> CosignerType]
      /\ cosigner'[c].at \in {"approve", "reject"} /\ cosigner'[c].index = i
      /\ cosigner'[c].at = "approve" => NobodyUnderPaid(l.root) /\ cosigner'[c].fallback = fallback_paid
      /\ \A d \in Cosigners \ {c} : cosigner'[d] = cosigner[d]
  <2>1. CASE NobodyUnderPaid(l.root) /\ At(c, "approve", i, fallback_paid)
    BY <1>2, <1>3, <2>1, AtEffect
  <2>2. CASE ~NobodyUnderPaid(l.root) /\ At(c, "reject", i, 0)
    BY <1>2, <1>3, <2>2, AtEffect
  <2>3. QED  BY <1>1, <2>1, <2>2
<1> HIDE DEF i
<1>7. UNCHANGED <<proposals, checked, overtaken>>
  BY <1>1 DEF chain
<1>8. CosignersGood'
  <2>1. \A d \in Cosigners : \/ cosigner'[d].at = "idle" \/ cosigner'[d] = cosigner[d]
                             \/ cosigner'[d].index \in Indices /\ proposals'[cosigner'[d].index].status # "none"
    BY <1>3, <1>6, <1>7
  <2>2. checked' \in [Indices -> Nat]
    BY <1>2, <1>7 DEF CosignersGood
  <2>3. QED  BY <1>2, <1>6, <1>7, <2>1, <2>2, CosignersKept
<1>9. EffList' = EffList
  BY <1>1 DEF EffList, Due, vaultView
<1>10. FindingsStand'
  <2> SUFFICES ASSUME NEW j \in Indices \ overtaken
               PROVE  /\ Looked(j)' => FollowsLive(proposals[j].list)
                      /\ \A d \in Cosigners :
                            cosigner'[d].index = j /\ cosigner'[d].at = "approve" =>
                                /\ cosigner'[d].fallback <= fallback_paid
                                /\ cosigner'[d].fallback = fallback_paid => PaysAll(proposals[j].list)
                      /\ proposals[j].approved \cap Cosigners # {} =>
                            /\ checked[j] <= fallback_paid
                            /\ checked[j] = fallback_paid => PaysAll(proposals[j].list)
    BY <1>1, <1>7, <1>9 DEF FindingsStand, FollowsLive, PaysAll, CoversPaid, vaultView
  <2>1. /\ Looked(j) => FollowsLive(proposals[j].list)
        /\ \A d \in Cosigners :
              cosigner[d].index = j /\ cosigner[d].at = "approve" =>
                  /\ cosigner[d].fallback <= fallback_paid
                  /\ cosigner[d].fallback = fallback_paid => PaysAll(proposals[j].list)
        /\ proposals[j].approved \cap Cosigners # {} =>
              /\ checked[j] <= fallback_paid
              /\ checked[j] = fallback_paid => PaysAll(proposals[j].list)
    BY <1>2 DEF FindingsStand
  <2>2. Looked(j)' => Looked(j)
    BY <1>5, <1>6, <1>7 DEF Looked
  <2>3. ASSUME NEW d \in Cosigners, cosigner'[d].index = j, cosigner'[d].at = "approve"
        PROVE  /\ cosigner'[d].fallback <= fallback_paid
               /\ cosigner'[d].fallback = fallback_paid => PaysAll(proposals[j].list)
    <3>1. CASE d = c
      BY <1>3, <1>4, <1>6, <2>3, <3>1 DEF l
    <3>2. CASE d # c
      <4>1. cosigner'[d] = cosigner[d]
        BY <1>6, <3>2
      <4>2. QED  BY <2>1, <2>3, <4>1
    <3>3. QED  BY <3>1, <3>2
  <2>4. QED  BY <2>1, <2>2, <2>3
<1>11. QED  BY <1>2, <1>7, <1>8, <1>10 DEF QuorumInv, ProposalsGood

(* A co-signer's approval lands.                                           *)
LEMMA ApprovesStep ==
  ASSUME QuorumInv, NEW c \in Cosigners, cosigner[c].at = "approve",
         VoteFor(cosigner[c].index, c, cosigner[c].fallback),
         UNCHANGED vaultView, SiteBasic',
         cosigner' \in [Cosigners -> CosignerType],
         \A d \in Cosigners :
             \/ cosigner'[d].at = "idle" \/ cosigner'[d] = cosigner[d]
             \/ cosigner'[d].at = "execute" /\ cosigner'[d].index = cosigner[c].index
  PROVE  QuorumInv'
<1> DEFINE i == cosigner[c].index
           p == Approved(proposals[i], c)
           f == cosigner[c].fallback
<1>1. VaultBasic /\ VaultBasic' /\ VaultMoves /\ ProposalsGood /\ CosignersGood /\ FindingsStand
  BY VaultStays DEF QuorumInv
<1>2. i \in Indices /\ f \in Nat /\ Looked(i)
  BY <1>1 DEF CosignersGood, CosignerType, Looked
<1>3. /\ proposals[i].status = "active" /\ overtaken' = overtaken
      /\ proposals' = [proposals EXCEPT ![i] = p]
      /\ checked' = [checked EXCEPT ![i] = f]
  BY <1>2 DEF VoteFor, QuorumInv, ProposalsGood, CosignersGood
<1>4. /\ p \in ProposalType /\ ProposalGood(p) /\ p.status # "none" /\ p.list = proposals[i].list
  BY <1>1, <1>2, <1>3, ApprovedGood DEF ProposalsGood, Members
<1>5. \A j \in Indices \ overtaken :
          /\ Looked(j) => FollowsLive(proposals[j].list)
          /\ \A d \in Cosigners :
                cosigner[d].index = j /\ cosigner[d].at = "approve" =>
                    /\ cosigner[d].fallback <= fallback_paid
                    /\ cosigner[d].fallback = fallback_paid => PaysAll(proposals[j].list)
          /\ proposals[j].approved \cap Cosigners # {} =>
                /\ checked[j] <= fallback_paid
                /\ checked[j] = fallback_paid => PaysAll(proposals[j].list)
  BY <1>1 DEF FindingsStand
<1>6. i \notin overtaken => f <= fallback_paid /\ (f = fallback_paid => PaysAll(proposals[i].list))
  BY <1>2, <1>5
<1> HIDE DEF p, i, f
<1>7. /\ ProposalsGood'
      /\ \A j \in Indices : proposals'[j] = IF j = i THEN p ELSE proposals[j]
      /\ \A j \in Indices : proposals[j].status # "none" => proposals'[j].status # "none"
  BY <1>1, <1>3, <1>4, OneChanges
<1>8. checked' \in [Indices -> Nat] /\ \A j \in Indices : checked'[j] = IF j = i THEN f ELSE checked[j]
  BY <1>1, <1>2, <1>3 DEF CosignersGood
<1>9. \A d \in Cosigners : cosigner'[d].at \in {"records", "approve"} => cosigner'[d] = cosigner[d]
  OBVIOUS
<1>10. CosignersGood'
  <2>1. \A d \in Cosigners : \/ cosigner'[d].at = "idle" \/ cosigner'[d] = cosigner[d]
                             \/ cosigner'[d].index \in Indices /\ proposals'[cosigner'[d].index].status # "none"
    <3>1. proposals'[i].status # "none"
      BY <1>2, <1>4, <1>7
    <3>2. QED  BY <1>2, <3>1 DEF i
  <2>2. QED  BY <1>1, <1>7, <1>8, <2>1, CosignersKept
<1>11. EffList' = EffList /\ UNCHANGED <<fallback_paid, paid>>
  BY DEF EffList, Due, vaultView
<1>12. \A j \in Indices : proposals'[j].list = proposals[j].list
  BY <1>4, <1>7
<1>13. FindingsStand'
  <2> SUFFICES ASSUME NEW j \in Indices \ overtaken
               PROVE  /\ Looked(j)' => FollowsLive(proposals[j].list)
                      /\ \A d \in Cosigners :
                            cosigner'[d].index = j /\ cosigner'[d].at = "approve" =>
                                /\ cosigner'[d].fallback <= fallback_paid
                                /\ cosigner'[d].fallback = fallback_paid => PaysAll(proposals[j].list)
                      /\ proposals'[j].approved \cap Cosigners # {} =>
                            /\ checked'[j] <= fallback_paid
                            /\ checked'[j] = fallback_paid => PaysAll(proposals[j].list)
    BY <1>3, <1>11, <1>12 DEF FindingsStand, FollowsLive, PaysAll, CoversPaid
  <2>1. Looked(j)' => Looked(j)
    <3>1. CASE j = i
      BY <1>2, <3>1
    <3>2. CASE j # i
      <4>1. proposals'[j] = proposals[j]
        BY <1>7, <3>2
      <4>2. QED  BY <1>9, <4>1 DEF Looked
    <3>3. QED  BY <3>1, <3>2
  <2>2. CASE j = i
    BY <1>5, <1>6, <1>8, <1>9, <2>1, <2>2
  <2>3. CASE j # i
    <3>1. proposals'[j] = proposals[j] /\ checked'[j] = checked[j]
      BY <1>7, <1>8, <2>3
    <3>2. QED  BY <1>5, <1>9, <2>1, <3>1
  <2>4. QED  BY <2>2, <2>3
<1>14. QED  BY <1>1, <1>7, <1>10, <1>13 DEF QuorumInv
LEMMA CosignerApprovesStep ==
  ASSUME QuorumInv, NEW c \in Cosigners, CosignerApproves(c)
  PROVE  QuorumInv'
<1> DEFINE i == cosigner[c].index
<1>1. /\ UNCHANGED vaultView /\ UNCHANGED <<file, v, records, fallback_then, proposal, step>>
      /\ cosigner[c].at = "approve"
  BY Views DEF CosignerApproves, allVars, site
<1>2. SiteBasic' /\ VaultBasic' /\ VaultMoves /\ CosignersGood /\ i \in Indices /\ i \in 0..MaxProposals
      /\ 0 \in 0..MaxProposals
  BY <1>1, VaultStays, SiteStays, QuorumAssumption DEF QuorumInv, CosignersGood, Indices
<1>3. CASE VoteFor(i, c, cosigner[c].fallback) /\ (At(c, "execute", i, 0) \/ DoneWith(c))
  <2>1. /\ cosigner' \in [Cosigners -> CosignerType]
        /\ \A d \in Cosigners :
             \/ cosigner'[d].at = "idle" \/ cosigner'[d] = cosigner[d]
             \/ cosigner'[d].at = "execute" /\ cosigner'[d].index = i
    <3>1. CASE At(c, "execute", i, 0)
      BY <1>2, <3>1, AtEffect
    <3>2. CASE DoneWith(c)
      BY <1>2, <3>2, DoneEffect
    <3>3. QED  BY <1>3, <3>1, <3>2
  <2>2. QED  BY <1>1, <1>2, <1>3, <2>1, ApprovesStep
<1>4. CASE UNCHANGED chain /\ At(c, "idle", 0, 0)
  <2>1. /\ cosigner' \in [Cosigners -> CosignerType]
        /\ \A d \in Cosigners : cosigner'[d].at = "idle" \/ cosigner'[d] = cosigner[d]
    BY <1>2, <1>4, AtEffect
  <2>2. UNCHANGED <<proposals, checked>> /\ overtaken \subseteq overtaken'
    BY <1>4 DEF chain
  <2>3. QED  BY <1>2, <2>1, <2>2, Quietly
<1>5. QED  BY <1>3, <1>4 DEF CosignerApproves

LEMMA CosignerRejectsStep ==
  ASSUME QuorumInv, NEW c \in Cosigners, CosignerRejects(c)
  PROVE  QuorumInv'
<1> DEFINE i == cosigner[c].index
<1>1. /\ UNCHANGED vaultView /\ UNCHANGED <<file, v, records, fallback_then, proposal, step>>
      /\ cosigner[c].at = "reject" /\ DoneWith(c)
  BY Views DEF CosignerRejects, allVars, site
<1>2. SiteBasic' /\ VaultBasic' /\ VaultMoves /\ CosignersGood /\ i \in Indices
  BY <1>1, VaultStays, SiteStays DEF QuorumInv, CosignersGood
<1>3. /\ cosigner' \in [Cosigners -> CosignerType]
      /\ \A d \in Cosigners : cosigner'[d].at = "idle" \/ cosigner'[d] = cosigner[d]
  BY <1>1, <1>2, DoneEffect
<1>4. CASE VoteAgainst(i, c)
  BY <1>1, <1>2, <1>3, <1>4, AgainstStep DEF Members
<1>5. CASE UNCHANGED chain
  <2>1. UNCHANGED <<proposals, checked>> /\ overtaken \subseteq overtaken'
    BY <1>5 DEF chain
  <2>2. QED  BY <1>2, <1>3, <2>1, Quietly
<1>6. QED  BY <1>4, <1>5 DEF CosignerRejects

LEMMA CosignerFindsStep ==
  ASSUME QuorumInv, NEW c \in Cosigners, NEW i \in Indices, CosignerFinds(c, i)
  PROVE  QuorumInv'
<1>1. /\ UNCHANGED vaultView /\ UNCHANGED <<file, v, records, fallback_then, proposal, step>>
      /\ proposals[i].status = "approved" /\ At(c, "execute", i, 0)
      /\ UNCHANGED <<proposals, checked, overtaken>>
  BY Views DEF CosignerFinds, allVars, site, chain
<1>2. SiteBasic' /\ VaultBasic' /\ VaultMoves /\ CosignersGood /\ ProposalsGood /\ i \in 0..MaxProposals
  BY <1>1, VaultStays, SiteStays, QuorumAssumption DEF QuorumInv, Indices
<1>3. /\ cosigner' \in [Cosigners -> CosignerType]
      /\ cosigner'[c].at = "execute" /\ cosigner'[c].index = i
      /\ \A d \in Cosigners \ {c} : cosigner'[d] = cosigner[d]
  BY <1>1, <1>2, AtEffect
<1>4. ProposalsGood' /\ checked' \in [Indices -> Nat]
  BY <1>1, <1>2 DEF ProposalsGood, CosignersGood
<1>5. CosignersGood'
  <2>1. \A d \in Cosigners : \/ cosigner'[d].at = "idle" \/ cosigner'[d] = cosigner[d]
                             \/ cosigner'[d].index \in Indices /\ proposals'[cosigner'[d].index].status # "none"
    BY <1>1, <1>3
  <2>2. QED  BY <1>1, <1>2, <1>3, <1>4, <2>1, CosignersKept
<1>6. \A d \in Cosigners : cosigner'[d].at \in {"records", "approve"} => cosigner'[d] = cosigner[d]
  BY <1>3
<1>7. FindingsStand'
  BY <1>1, <1>2, <1>4, <1>6, FindingsKept
<1>8. QED  BY <1>2, <1>4, <1>5, <1>7 DEF QuorumInv

LEMMA CosignerExecutesStep ==
  ASSUME QuorumInv, NEW c \in Cosigners, CosignerExecutes(c)
  PROVE  QuorumInv'
<1> DEFINE i == cosigner[c].index
<1>1. /\ UNCHANGED <<file, v, records, fallback_then, proposal, step>>
      /\ cosigner[c].at = "execute" /\ DoneWith(c)
  BY DEF CosignerExecutes, site
<1>2. SiteBasic' /\ CosignersGood /\ i \in Indices
  BY <1>1, SiteStays DEF QuorumInv, CosignersGood
<1>3. /\ cosigner' \in [Cosigners -> CosignerType]
      /\ \A d \in Cosigners : cosigner'[d].at = "idle" \/ cosigner'[d] = cosigner[d]
  BY <1>1, <1>2, DoneEffect
<1>4. CASE Executes(i) /\ Settled(i, Ran(i))
  BY <1>2, <1>3, <1>4, RunsStep
<1>5. CASE UNCHANGED <<vars, chain>>
  <2>1. UNCHANGED <<proposals, checked>> /\ overtaken \subseteq overtaken' /\ VaultBasic' /\ VaultMoves
    BY <1>5, Views, VaultStays DEF chain
  <2>2. QED  BY <1>2, <1>3, <2>1, Quietly
<1>6. QED  BY <1>4, <1>5 DEF CosignerExecutes

LEMMA CosignerFailsStep ==
  ASSUME QuorumInv, NEW c \in Cosigners, CosignerFails(c)
  PROVE  QuorumInv'
<1>1. /\ UNCHANGED vaultView /\ UNCHANGED <<file, v, records, fallback_then, proposal, step>>
  BY Views DEF CosignerFails, allVars, site
<1>2. SiteBasic' /\ VaultBasic' /\ VaultMoves /\ CosignersGood /\ 0 \in 0..MaxProposals
  BY <1>1, VaultStays, SiteStays, QuorumAssumption DEF QuorumInv
<1>3. /\ cosigner' \in [Cosigners -> CosignerType]
      /\ \A d \in Cosigners : cosigner'[d].at = "idle" \/ cosigner'[d] = cosigner[d]
  <2>1. CASE At(c, "idle", 0, 0)
    BY <1>2, <2>1, AtEffect
  <2>2. CASE cosigner' = [cosigner EXCEPT ![c] = CosignerIdle]
    <3>1. CosignerIdle \in CosignerType /\ CosignerIdle.at = "idle"
      BY <1>2 DEF CosignerIdle, CosignerType
    <3>2. QED  BY <1>2, <2>2, <3>1 DEF CosignersGood
  <2>3. QED  BY <2>1, <2>2 DEF CosignerFails
<1>4. CASE cosigner[c].at = "approve" /\ VoteFor(cosigner[c].index, c, cosigner[c].fallback)
  BY <1>1, <1>2, <1>3, <1>4, ApprovesStep
<1>5. CASE UNCHANGED chain
  <2>1. UNCHANGED <<proposals, checked>> /\ overtaken \subseteq overtaken'
    BY <1>5 DEF chain
  <2>2. QED  BY <1>2, <1>3, <2>1, Quietly
<1>6. QED  BY <1>4, <1>5 DEF CosignerFails

-----------------------------------------------------------------------------
(* The backup, the guardian and everybody else.                            *)
LEMMA BackupStep == ASSUME QuorumInv, BackupActs PROVE QuorumInv'
<1>1. PICK i \in Indices :
        \/ (VoteFor(i, Backup, 0) \/ VoteAgainst(i, Backup)) /\ UNCHANGED <<allVars, proposal, cosigner, faults>>
        \/ Executes(i) /\ Settled(i, Ran(i)) /\ UNCHANGED <<site, proposal, cosigner, faults>>
  BY DEF BackupActs
<1>2. UNCHANGED <<file, v, records, fallback_then, proposal, step>> /\ cosigner' = cosigner
  BY <1>1 DEF allVars, site
<1>3. SiteBasic' /\ cosigner' \in [Cosigners -> CosignerType] /\ CosignersGood /\ ProposalsGood
  BY <1>2, SiteStays DEF QuorumInv, CosignersGood
<1>4. CASE VoteFor(i, Backup, 0) /\ UNCHANGED allVars
  <2> DEFINE p == Approved(proposals[i], Backup)
  <2>1. VaultBasic' /\ VaultMoves
    BY <1>4, Views, VaultStays DEF allVars
  <2>2. /\ proposals[i].status = "active" /\ proposals' = [proposals EXCEPT ![i] = p]
        /\ UNCHANGED <<checked, overtaken>>
    BY <1>3, <1>4, QuorumAssumption DEF VoteFor, ProposalsGood, CosignersGood
  <2>3. /\ p \in ProposalType /\ ProposalGood(p) /\ p.status # "none" /\ p.list = proposals[i].list
        /\ p.approved = proposals[i].approved \cup {Backup}
    BY <1>3, <2>2, ApprovedGood DEF ProposalsGood, Members
  <2>4. p.approved \cap Cosigners \subseteq proposals[i].approved
    BY <2>3, QuorumAssumption
  <2> HIDE DEF p
  <2>5. QED  BY <1>2, <1>3, <2>1, <2>2, <2>3, <2>4, ProposalMoves
<1>5. CASE VoteAgainst(i, Backup) /\ UNCHANGED allVars
  BY <1>2, <1>3, <1>5, Views, AgainstStep DEF allVars, Members
<1>6. CASE Executes(i) /\ Settled(i, Ran(i))
  BY <1>2, <1>3, <1>6, RunsStep
<1>7. QED  BY <1>1, <1>4, <1>5, <1>6

LEMMA GuardianStep == ASSUME QuorumInv, GuardianCancels PROVE QuorumInv'
<1>1. PICK signer \in Keys : CancelList(signer)
  BY DEF GuardianCancels, Cancel
<1>2. /\ UNCHANGED <<file, v, records, fallback_then, proposal, step>>
      /\ UNCHANGED <<proposals, checked, cosigner>>
      /\ overtaken' = IF Due THEN {i \in Indices : proposals[i].status # "none"} ELSE overtaken
      /\ UNCHANGED <<list, holders_funded, holders_paid, fallback_paid, paid, now>> /\ pending' = NoPending
  BY <1>1 DEF GuardianCancels, CancelList, site
<1>3. SiteBasic' /\ VaultBasic /\ ProposalsGood /\ CosignersGood /\ VaultTyped
      /\ cosigner' \in [Cosigners -> CosignerType]
  BY <1>2, SiteStays DEF QuorumInv, VaultBasic, CosignersGood
<1>4. CASE ~Due
  <2>1. VaultBasic' /\ VaultMoves
    BY <1>2, <1>3, <1>4, BasicQuiet DEF VaultTyped
  <2>2. overtaken \subseteq overtaken'
    BY <1>2, <1>4
  <2>3. QED  BY <1>2, <1>3, <2>1, <2>2, Quietly
<1>5. CASE Due
  <2>1. VaultBasic'
    <3>1. NoPending \in [epoch : Nat, root : RootType, total : Nat, active_at : Nat]
          /\ NoPending.epoch = 0 /\ Named(NoPending.root)
      BY DEF NoPending, RootType, Named
    <3>2. VaultTyped'
      BY <1>2, <1>3, <3>1 DEF VaultTyped
    <3>3. QED  BY <1>2, <1>3, <3>1, <3>2 DEF VaultBasic
  <2>2. ProposalsGood' /\ CosignersGood'
    BY <1>2, <1>3 DEF ProposalsGood, CosignersGood
  <2>3. FindingsStand'
    <3>1. \A i \in Indices \ overtaken' : proposals[i].status = "none" /\ proposals[i].approved = {}
      BY <1>2, <1>3, <1>5 DEF ProposalsGood, ProposalGood
    <3>2. \A i \in Indices \ overtaken', c \in Cosigners :
              cosigner[c].at # "idle" => cosigner[c].index # i
      BY <1>3, <3>1 DEF CosignersGood
    <3>3. QED  BY <1>2, <3>1, <3>2 DEF FindingsStand, Looked
  <2>4. QED  BY <1>3, <2>1, <2>2, <2>3 DEF QuorumInv
<1>6. QED  BY <1>4, <1>5

LEMMA CrowdStep == ASSUME QuorumInv, Crowd /\ UNCHANGED quorumVars PROVE QuorumInv'
<1>1. UNCHANGED <<file, v, records, fallback_then, proposal, step>>
      /\ UNCHANGED <<proposals, checked, cosigner>> /\ overtaken \subseteq overtaken'
  BY DEF Crowd, Expire, site, quorumVars, chain
<1>2. SiteBasic' /\ VaultBasic /\ VaultTyped /\ cosigner' \in [Cosigners -> CosignerType]
  BY <1>1, SiteStays DEF QuorumInv, VaultBasic, CosignersGood
<1>3. VaultBasic' /\ VaultMoves
  <2>1. CASE PayAny \/ PayFallbackAny
    BY <1>2, <2>1, PaymentEffect, BasicPaying, VaultStays
  <2>2. CASE Sponsor
    <3>1. PICK amount \in 1..MaxFunded : SponsorHolders(amount)
      BY <2>2 DEF Sponsor
    <3>2. UNCHANGED <<list, pending, holders_paid, fallback_paid, paid, now>> /\ holders_funded' \in Nat
      BY <1>2, <3>1, BoundsAssumption DEF SponsorHolders, VaultTyped
    <3>3. QED  BY <1>2, <3>2, BasicQuiet DEF VaultTyped
  <2>3. CASE Expire
    <3>1. UNCHANGED <<list, pending, holders_funded, holders_paid, fallback_paid, paid>> /\ now' = now + 1
      BY <2>3 DEF Expire, Tick, vault
    <3>2. now' \in Nat /\ now' >= now /\ holders_funded' \in Nat
      BY <1>2, <3>1 DEF VaultTyped
    <3>3. QED  BY <1>2, <3>1, <3>2, BasicQuiet
  <2>4. QED  BY <2>1, <2>2, <2>3 DEF Crowd
<1>4. \A c \in Cosigners : cosigner'[c].at = "idle" \/ cosigner'[c] = cosigner[c]
  BY <1>1
<1>5. QED  BY <1>1, <1>2, <1>3, <1>4, Quietly

-----------------------------------------------------------------------------
LEMMA InitQuorum == QuorumInit => QuorumInv
<1> SUFFICES ASSUME QuorumInit PROVE QuorumInv
  OBVIOUS
<1>1. BuilderInv /\ v = NoVault /\ step = "idle"
  BY InitBuilder DEF QuorumInit, BuilderInit
<1>2. VaultBasic
  BY <1>1, BuilderBasic
<1>3. SiteBasic
  <2>1. next \in FileType /\ Named(next.root) /\ records \in [Wallets -> Nat] /\ fallback_then \in Nat
    BY <1>1 DEF BuilderInv, SiteGood, BuilderTypeOK, WellMade
  <2>2. v \in [funded : Nat, floor : Nat, epoch : Nat, prev : RootType, forced : BOOLEAN]
    BY <1>1 DEF NoVault, RootType
  <2>3. QED  BY <1>1, <2>1, <2>2, QuorumAssumption DEF SiteBasic, QuorumInit
<1>4. /\ proposals = [i \in Indices |-> NoProposal] /\ cosigner = [c \in Cosigners |-> CosignerIdle]
      /\ checked = [i \in Indices |-> 0]
  BY DEF QuorumInit
<1>5. NoProposal \in ProposalType /\ ProposalGood(NoProposal) /\ NoProposal.approved = {}
  BY NoFileGood DEF NoProposal, ProposalType, ProposalGood, RootType
<1>6. CosignerIdle \in CosignerType /\ CosignerIdle.at = "idle"
  BY QuorumAssumption DEF CosignerIdle, CosignerType
<1>7. ProposalsGood
  BY <1>4, <1>5 DEF ProposalsGood
<1>8. CosignersGood
  BY <1>4, <1>6 DEF CosignersGood
<1>9. FindingsStand
  BY <1>4, <1>5, <1>6 DEF FindingsStand, Looked
<1>10. QED  BY <1>2, <1>3, <1>7, <1>8, <1>9 DEF QuorumInv

LEMMA NextQuorum == QuorumInv /\ [QuorumNext]_quorumAllVars => QuorumInv'
<1> SUFFICES ASSUME QuorumInv, [QuorumNext]_quorumAllVars PROVE QuorumInv'
  OBVIOUS
<1>1. CASE SitePass
  <2>1. CASE \E i \in Indices : Propose(i, TRUE)
    BY <2>1, ProposeStep
  <2>2. CASE \E b \in Balances : QuorumBuild(b)
    BY <2>2, QuorumBuildStep
  <2>3. CASE (ReadRecords \/ Pin) /\ UNCHANGED quorumVars
    BY <2>3, ReadPinStopStep DEF quorumVars
  <2>4. QED
    BY <1>1, <2>1, <2>2, <2>3, QuorumSyncStep, QuorumReadVaultStep, FollowStep, SiteRejectsStep,
       DropStep, SiteExecutesStep DEF SitePass
<1>2. CASE SiteFails
  BY <1>2, ReadPinStopStep DEF SiteFails
<1>3. CASE \E i \in Indices : Propose(i, FALSE)
  BY <1>3, ProposeStep
<1>4. CASE \E c \in Cosigners : CosignerPass(c) \/ CosignerFails(c)
  <2>1. PICK c \in Cosigners : CosignerPass(c) \/ CosignerFails(c)
    BY <1>4
  <2>2. CASE \E i \in Indices : CosignerLooks(c, i) \/ CosignerFinds(c, i)
    BY <2>2, CosignerLooksStep, CosignerFindsStep
  <2>3. QED
    BY <2>1, <2>2, CosignerJudgesStep, CosignerApprovesStep, CosignerRejectsStep,
       CosignerExecutesStep, CosignerFailsStep DEF CosignerPass
<1>5. CASE BackupActs \/ GuardianCancels \/ (Crowd /\ UNCHANGED quorumVars)
  BY <1>5, BackupStep, GuardianStep, CrowdStep
<1>6. CASE UNCHANGED quorumAllVars
  <2>1. UNCHANGED vaultView /\ UNCHANGED <<file, v, records, fallback_then, proposal, step>>
        /\ UNCHANGED <<chain, cosigner>>
    BY <1>6, Views DEF quorumAllVars, allVars, site, quorumVars
  <2>2. QED  BY <2>1, SiteStays, SiteQuietly
<1>7. QED  BY <1>1, <1>2, <1>3, <1>4, <1>5, <1>6 DEF QuorumNext

LEMMA QuorumHolds == QuorumSpec => []QuorumInv
BY InitQuorum, NextQuorum, PTL DEF QuorumSpec

(* Only what runs goes from approved to executed or closed.                *)
LEMMA OnlyRuns ==
  ASSUME QuorumInv, QuorumNext, NEW i \in Indices,
         proposals[i].status = "approved", proposals'[i].status \in {"executed", "closed"}
  PROVE  Executes(i)
<1>1. proposals \in [Indices -> ProposalType]
  BY DEF QuorumInv, ProposalsGood
<1>2. proposals' # proposals
  OBVIOUS
<1>3. ASSUME NEW j, proposals' = [proposals EXCEPT ![j] = Gone] \/ proposals' = [proposals EXCEPT ![j] = Ran(j)],
             Executes(j) \/ proposals[j].status \in {"executed", "rejected"}
      PROVE  Executes(i)
  <2>1. CASE j = i
    BY <1>3, <2>1
  <2>2. CASE j # i
    BY <1>1, <1>3, <2>2
  <2>3. QED  BY <2>1, <2>2
<1>4. ASSUME NEW j, NEW who, NEW f, VoteFor(j, who, f) \/ VoteAgainst(j, who)
      PROVE  FALSE
  <2>1. CASE j = i
    BY <1>4, <2>1 DEF VoteFor, VoteAgainst
  <2>2. CASE j # i
    BY <1>1, <1>4, <2>2 DEF VoteFor, VoteAgainst
  <2>3. QED  BY <2>1, <2>2
<1>5. ASSUME NEW j \in Indices, NEW seen \in BOOLEAN, Propose(j, seen) PROVE FALSE
  <2>1. CASE j = i
    BY <1>5, <2>1 DEF Propose
  <2>2. CASE j # i
    BY <1>1, <1>5, <2>2 DEF Propose
  <2>3. QED  BY <2>1, <2>2
<1>6. CASE SitePass
  <2>1. CASE QuorumSync
    BY <1>2, <1>3, <2>1 DEF QuorumSync, Settled, chain
  <2>2. ~QuorumReadVault /\ ~FollowProposal
    BY <1>2 DEF QuorumReadVault, FollowProposal, quorumVars, chain
  <2>3. ~SiteRejects
    BY <1>2, <1>4 DEF SiteRejects, chain
  <2>4. CASE DropNext
    BY <1>2, <1>3, <2>4 DEF DropNext, Settled, chain
  <2>5. CASE SiteExecutes
    BY <1>2, <1>3, <2>5 DEF SiteExecutes, Settled, chain
  <2>6. ~\E b \in Balances : QuorumBuild(b)
    BY <1>2 DEF QuorumBuild, chain
  <2>7. ~((ReadRecords \/ Pin) /\ UNCHANGED quorumVars)
    BY <1>2 DEF quorumVars, chain
  <2>8. QED  BY <1>5, <1>6, <2>1, <2>2, <2>3, <2>4, <2>5, <2>6, <2>7 DEF SitePass
<1>7. ~SiteFails /\ ~GuardianCancels /\ ~(Crowd /\ UNCHANGED quorumVars)
  BY <1>2 DEF SiteFails, GuardianCancels, quorumVars, chain
<1>8. CASE \E c \in Cosigners : CosignerPass(c) \/ CosignerFails(c)
  <2>1. PICK c \in Cosigners : CosignerPass(c) \/ CosignerFails(c)
    BY <1>8
  <2>2. ~CosignerFails(c) /\ ~CosignerApproves(c) /\ ~CosignerRejects(c)
    BY <1>2, <1>4 DEF CosignerFails, CosignerApproves, CosignerRejects, chain
  <2>3. ~CosignerJudges(c) /\ ~\E j \in Indices : CosignerLooks(c, j) \/ CosignerFinds(c, j)
    BY <1>2 DEF CosignerJudges, CosignerLooks, CosignerFinds, chain
  <2>4. CosignerExecutes(c)
    BY <2>1, <2>2, <2>3 DEF CosignerPass
  <2>5. QED  BY <1>2, <1>3, <2>4 DEF CosignerExecutes, Settled, chain
<1>9. CASE BackupActs
  BY <1>3, <1>4, <1>9 DEF BackupActs, Settled
<1>10. QED  BY <1>5, <1>6, <1>7, <1>8, <1>9 DEF QuorumNext

(* verifyList, cosigner.ts, vault_transaction_execute: for any number of   *)
(* co-signers, lists and proposals, a list that runs names nobody for less *)
(* than it was paid, unless a fallback paid after its approver read the    *)
(* records or the guardian took a due list away after it was proposed.     *)
THEOREM CheckedListsAlwaysReach == QuorumSpec => CheckedListsReach
<1>1. QuorumInv /\ [QuorumNext]_quorumAllVars =>
        [\A i \in Indices :
           proposals[i].status = "approved" /\ proposals'[i].status \in {"executed", "closed"}
           /\ proposals[i].approved \cap Cosigners # {} /\ checked[i] = fallback_paid
           /\ i \notin overtaken =>
               \A w \in Wallets : AmountIn(proposals[i].list.root, w) >= paid[w]]_quorumAllVars
  <2> SUFFICES ASSUME QuorumInv, QuorumNext, NEW i \in Indices,
                      proposals[i].status = "approved", proposals'[i].status \in {"executed", "closed"},
                      proposals[i].approved \cap Cosigners # {}, checked[i] = fallback_paid,
                      i \notin overtaken
               PROVE  CoversPaid(proposals[i].list.root)
    BY DEF CoversPaid
  <2>1. Executes(i)
    BY OnlyRuns
  <2>2. Landing(proposals[i].list)
    BY <2>1, ExecutesEffect
  <2>3. PaysAll(proposals[i].list)
    BY DEF QuorumInv, FindingsStand
  <2>4. EffList.epoch \in Nat /\ EffPending.epoch \in Nat
    BY EffBasic DEF QuorumInv, ListRecord
  <2>5. proposals[i].list.epoch > EffList.epoch
    BY <2>2, <2>4 DEF Landing, Larger
  <2>6. QED  BY <2>3, <2>4, <2>5 DEF PaysAll
<1>2. QED  BY <1>1, QuorumHolds, PTL DEF QuorumSpec, CheckedListsReach
-----------------------------------------------------------------------------
(***************************************************************************)
(* The site and the quorum as publishers of the vault: whatever they read, *)
(* save, propose, lose or send late, the vault sees a RewardLists whose    *)
(* lists are the ones they post, so what is proved of the vault holds of   *)
(* the compositions.  RewardLists bounds what may be posted; a behaviour   *)
(* of the compositions within those bounds is one of its behaviours.       *)
(***************************************************************************)
(* Every list that lands is one the vault's model lets a publisher post.   *)
ListsPostable == pending.root \in Roots /\ pending.epoch <= MaxEpoch

(* The publisher is a key, and the holders' share is within its bound.     *)
KeyAndShare == publisher \in Keys /\ holders_funded \in Nat /\ holders_funded <= MaxFunded

LEMMA InitKeyAndShare == Init => KeyAndShare
BY BoundsAssumption DEF Init, KeyAndShare

LEMMA NextKeyAndShare == KeyAndShare /\ [Next]_vars => KeyAndShare'
<1> SUFFICES ASSUME KeyAndShare, [Next]_vars PROVE KeyAndShare'
  OBVIOUS
<1>1. CASE Publish \/ Cancel
  BY <1>1 DEF Publish, Cancel, PublishList, CancelList, KeyAndShare
<1>2. CASE Rotate \/ Appoint
  BY <1>2 DEF Rotate, Appoint, SetPublisher, AppointPublisher, KeyAndShare
<1>3. CASE PayAny \/ PayFallbackAny
  BY <1>3 DEF PayAny, PayFallbackAny, Pay, PayFallback, Settle, vault, KeyAndShare
<1>4. CASE Sponsor
  BY <1>4, BoundsAssumption DEF Sponsor, SponsorHolders, KeyAndShare
<1>5. CASE Donate \/ Tick \/ UNCHANGED vars
  BY <1>5 DEF Donate, Tick, vars, vault, KeyAndShare
<1>6. QED  BY <1>1, <1>2, <1>3, <1>4, <1>5 DEF Next

(* Whoever posts a list that is postable is the vault's publisher.         *)
LEMMA PostsAsPublisher ==
  ASSUME VaultBasic, KeyAndShare, ListsPostable',
         NEW l \in FileType, PublishList(publisher, l.root, l.epoch, l.total)
  PROVE  Next
<1>1. l.epoch \in Nat /\ l.total \in Nat
  BY FileTyped
<1>2. Landing(l)
  BY LandingEffect
<1>3. l.root \in Roots /\ l.epoch <= MaxEpoch
  BY <1>2 DEF Landing, ListsPostable
<1>4. EffList.epoch \in Nat /\ EffPending.epoch \in Nat
  BY EffBasic DEF ListRecord
<1>5. l.epoch >= 1 /\ l.total <= MaxFunded
  BY <1>1, <1>4, BoundsAssumption DEF PublishList, CheckPublish, Larger, KeyAndShare
<1>6. l.epoch \in 1..MaxEpoch /\ l.total \in 0..MaxFunded /\ publisher \in Keys
  BY <1>1, <1>3, <1>5, BoundsAssumption DEF KeyAndShare
<1>7. Publish
  BY <1>3, <1>6 DEF Publish
<1>8. QED  BY <1>7 DEF Next

(* Every step of the site, of the network and of others is a step of the   *)
(* vault or leaves it alone.                                               *)
LEMMA BuilderStepsVault ==
  ASSUME BuilderInv, KeyAndShare, ListsPostable', [BuilderNext]_allVars
  PROVE  [Next]_vars
<1>1. CASE Pass \/ Stop \/ UNCHANGED allVars
  BY <1>1 DEF Pass, Sync, ReadVault, ReadRecords, Build, Pin, Send, Confirmed, Stop, allVars
<1>2. CASE Ledger
  <2>1. CASE Expire
    BY <2>1 DEF Expire, Next
  <2>2. ASSUME NEW t \in flying, Land(t) PROVE Next
    <3>1. VaultBasic /\ t.list \in FileType
      BY <2>2, BuilderBasic DEF BuilderInv, SiteGood, BuilderTypeOK
    <3>2. PublishList(publisher, t.list.root, t.list.epoch, t.list.total)
      BY <2>2 DEF Land
    <3>3. QED  BY <3>1, <3>2, PostsAsPublisher
  <2>3. ASSUME NEW t \in flying, Lose(t) PROVE UNCHANGED vars
    BY <2>3 DEF Lose
  <2>4. QED  BY <1>2, <2>1, <2>2, <2>3 DEF Ledger
<1>3. CASE Others
  BY <1>3 DEF Others, Next
<1>4. QED  BY <1>1, <1>2, <1>3 DEF BuilderNext

LEMMA BuilderBounds ==
  BuilderInv /\ KeyAndShare /\ ListsPostable' /\ [BuilderNext]_allVars
      => [Next]_vars /\ KeyAndShare'
BY BuilderStepsVault, NextKeyAndShare

(* publish, syncList, listStep: the vault with the site as its publisher   *)
(* is the vault of RewardLists, for any balances, delays and bounds.       *)
THEOREM SiteIsPublisher == BuilderSpec /\ []ListsPostable => Spec
<1>1. BuilderInit => Init /\ KeyAndShare
  BY InitKeyAndShare DEF BuilderInit
<1>2. QED  BY <1>1, BuilderBounds, BuilderHolds, PTL DEF BuilderSpec, Spec

(* vault_transaction_execute posts as the publisher, whoever sends it.     *)
LEMMA ExecutesAsPublisher ==
  ASSUME QuorumInv, KeyAndShare, ListsPostable', NEW i \in Indices, Executes(i)
  PROVE  Next
<1>1. VaultBasic /\ proposals[i].list \in FileType
  BY DEF QuorumInv, ProposalsGood, ProposalType
<1>2. QED  BY <1>1, PostsAsPublisher DEF Executes

LEMMA SitePassStepsVault ==
  ASSUME QuorumInv, KeyAndShare, ListsPostable', SitePass
  PROVE  [Next]_vars
<1>1. CASE SiteExecutes
  <2>1. proposal \in Indices
    BY <1>1 DEF SiteExecutes, QuorumInv, SiteBasic
  <2>2. QED  BY <1>1, <2>1, ExecutesAsPublisher DEF SiteExecutes
<1>2. CASE QuorumSync \/ QuorumReadVault \/ FollowProposal \/ SiteRejects \/ DropNext
  BY <1>2 DEF QuorumSync, Sync, QuorumReadVault, ReadVault, FollowProposal, SiteRejects, DropNext
<1>3. CASE \/ \E i \in Indices : Propose(i, TRUE)
           \/ \E b \in Balances : QuorumBuild(b)
           \/ (ReadRecords \/ Pin) /\ UNCHANGED quorumVars
  BY <1>3 DEF Propose, QuorumBuild, Build, ReadRecords, Pin
<1>4. QED  BY <1>1, <1>2, <1>3 DEF SitePass

LEMMA CosignerStepsVault ==
  ASSUME QuorumInv, KeyAndShare, ListsPostable', NEW c \in Cosigners, CosignerPass(c) \/ CosignerFails(c)
  PROVE  [Next]_vars
<1>1. CASE CosignerExecutes(c)
  <2>1. cosigner[c].index \in Indices
    BY <1>1 DEF CosignerExecutes, QuorumInv, CosignersGood
  <2>2. QED  BY <1>1, <2>1, ExecutesAsPublisher DEF CosignerExecutes
<1>2. CASE \E i \in Indices : CosignerLooks(c, i) \/ CosignerFinds(c, i)
  BY <1>2 DEF CosignerLooks, CosignerFinds, allVars
<1>3. CASE CosignerJudges(c) \/ CosignerApproves(c) \/ CosignerRejects(c) \/ CosignerFails(c)
  BY <1>3 DEF CosignerJudges, CosignerApproves, CosignerRejects, CosignerFails, allVars
<1>4. QED  BY <1>1, <1>2, <1>3 DEF CosignerPass

LEMMA QuorumStepsVault ==
  ASSUME QuorumInv, KeyAndShare, ListsPostable', [QuorumNext]_quorumAllVars
  PROVE  [Next]_vars
<1>1. CASE SitePass
  BY <1>1, SitePassStepsVault
<1>2. CASE \E c \in Cosigners : CosignerPass(c) \/ CosignerFails(c)
  BY <1>2, CosignerStepsVault
<1>3. CASE BackupActs
  <2>1. PICK i \in Indices :
            \/ (VoteFor(i, Backup, 0) \/ VoteAgainst(i, Backup)) /\ UNCHANGED <<allVars, proposal, cosigner, faults>>
            \/ Executes(i) /\ Settled(i, Ran(i)) /\ UNCHANGED <<site, proposal, cosigner, faults>>
    BY <1>3 DEF BackupActs
  <2>2. QED  BY <2>1, ExecutesAsPublisher DEF allVars
<1>4. CASE GuardianCancels \/ (Crowd /\ UNCHANGED quorumVars)
  BY <1>4 DEF GuardianCancels, Crowd, Expire, Next
<1>5. CASE SiteFails \/ (\E i \in Indices : Propose(i, FALSE)) \/ UNCHANGED quorumAllVars
  BY <1>5 DEF SiteFails, Stop, Propose, quorumAllVars, allVars
<1>6. QED  BY <1>1, <1>2, <1>3, <1>4, <1>5 DEF QuorumNext

LEMMA QuorumBounds ==
  QuorumInv /\ KeyAndShare /\ ListsPostable' /\ [QuorumNext]_quorumAllVars
      => [Next]_vars /\ KeyAndShare'
BY QuorumStepsVault, NextKeyAndShare

(* propose, followProposal, cosigner.ts, vault_transaction_execute: a      *)
(* vault whose publisher is the multisig is the vault of RewardLists,      *)
(* whoever of any number of members proposes, votes and executes.          *)
THEOREM QuorumIsPublisher == QuorumSpec /\ []ListsPostable => Spec
<1>1. QuorumInit => Init /\ KeyAndShare
  BY InitKeyAndShare DEF QuorumInit, BuilderInit
<1>2. QED  BY <1>1, QuorumBounds, QuorumHolds, PTL DEF QuorumSpec, Spec

(* So with the site or a quorum as publisher the books stay in step with   *)
(* what auth holds, no self-check freezes payouts, the guardian keeps its  *)
(* window and no more, nothing is taken back, and holders get out of the   *)
(* pool exactly what is booked.                                            *)
THEOREM PublishersKeepBooks ==
  (BuilderSpec \/ QuorumSpec) /\ []ListsPostable =>
      /\ []BooksSound /\ []ExcessIsFallback /\ []GuardianHeard /\ []FallbackFair
      /\ ListsOnlyGrow /\ PaidNeverDrops /\ KeepsPromise
BY SiteIsPublisher, QuorumIsPublisher, BooksStaySound, OnlyFallbackExceeds, GuardianIsHeard,
   FallbackAlwaysFair, ListsNeverShrink, NothingTakenBack, ListsKeepPromise, PTL
-----------------------------------------------------------------------------
(***************************************************************************)
(* The count of votes.                                                     *)
(***************************************************************************)
(* What a step may do to a proposal.                                       *)
Voted(i) ==
    \E who \in Members : /\ proposals[i].status = "active"
                         /\ \/ proposals'[i] = Approved(proposals[i], who)
                            \/ proposals'[i] = Rejected(proposals[i], who)
Proposed(i) == proposals'[i].approved = {Site} /\ proposals'[i].rejected = {}
Closed(i) == proposals'[i].status \in {"executed", "closed"}
MovesOn(i) == proposals'[i] = proposals[i] \/ Voted(i) \/ Proposed(i) \/ Closed(i)

LEMMA VoteMoves ==
  ASSUME ProposalsGood, NEW j, NEW who \in Members, NEW f, VoteFor(j, who, f) \/ VoteAgainst(j, who)
  PROVE  \A i \in Indices : MovesOn(i)
<1> SUFFICES ASSUME NEW i \in Indices PROVE MovesOn(i)
  OBVIOUS
<1>1. CASE i = j
  <2>1. \/ proposals'[i] = Approved(proposals[i], who)
        \/ proposals'[i] = Rejected(proposals[i], who)
    BY <1>1 DEF VoteFor, VoteAgainst, ProposalsGood
  <2>2. proposals[i].status = "active"
    BY <1>1 DEF VoteFor, VoteAgainst
  <2>3. QED  BY <2>1, <2>2 DEF MovesOn, Voted
<1>2. CASE i # j
  BY <1>2 DEF VoteFor, VoteAgainst, ProposalsGood, MovesOn
<1>3. QED  BY <1>1, <1>2

LEMMA SettledMoves ==
  ASSUME ProposalsGood, NEW j, Settled(j, Ran(j)) \/ Settled(j, Gone)
  PROVE  \A i \in Indices : MovesOn(i)
<1> SUFFICES ASSUME NEW i \in Indices PROVE MovesOn(i)
  OBVIOUS
<1>1. CASE i = j
  <2>1. proposals'[i] = Gone \/ proposals'[i] = Ran(i)
    BY <1>1 DEF Settled, ProposalsGood
  <2>2. Gone.status = "closed" /\ Ran(i).status = "executed"
    BY DEF Gone, NoProposal, Ran, ProposalsGood, ProposalType
  <2>3. QED  BY <2>1, <2>2 DEF MovesOn, Closed
<1>2. CASE i # j
  BY <1>2 DEF Settled, ProposalsGood, MovesOn
<1>3. QED  BY <1>1, <1>2

LEMMA ProposeMoves ==
  ASSUME ProposalsGood, NEW j \in Indices, NEW seen, Propose(j, seen)
  PROVE  \A i \in Indices : MovesOn(i)
<1> SUFFICES ASSUME NEW i \in Indices PROVE MovesOn(i)
  OBVIOUS
<1>1. CASE i = j
  BY <1>1 DEF Propose, ProposalsGood, MovesOn, Proposed
<1>2. CASE i # j
  BY <1>2 DEF Propose, ProposalsGood, MovesOn
<1>3. QED  BY <1>1, <1>2

LEMMA SameMoves ==
  ASSUME UNCHANGED chain \/ UNCHANGED proposals
  PROVE  \A i \in Indices : MovesOn(i)
BY DEF chain, MovesOn

LEMMA SitePassMoves ==
  ASSUME ProposalsGood, SitePass PROVE \A i \in Indices : MovesOn(i)
<1>1. CASE QuorumSync
  <2>1. UNCHANGED chain \/ Settled(proposal, Gone)
    BY <1>1 DEF QuorumSync
  <2>2. QED  BY <2>1, SettledMoves, SameMoves
<1>2. CASE SiteRejects
  <2>1. UNCHANGED chain \/ VoteAgainst(proposal, Site)
    BY <1>2 DEF SiteRejects
  <2>2. QED  BY <2>1, VoteMoves, SameMoves DEF Members
<1>3. CASE DropNext
  <2>1. UNCHANGED chain \/ Settled(proposal, Gone)
    BY <1>3 DEF DropNext
  <2>2. QED  BY <2>1, SettledMoves, SameMoves
<1>4. CASE SiteExecutes
  <2>1. UNCHANGED chain \/ Settled(proposal, Ran(proposal)) \/ Settled(proposal, Gone)
    BY <1>4 DEF SiteExecutes
  <2>2. QED  BY <2>1, SettledMoves, SameMoves
<1>5. CASE \E i \in Indices : Propose(i, TRUE)
  BY <1>5, ProposeMoves
<1>6. CASE \/ QuorumReadVault \/ FollowProposal
           \/ \E b \in Balances : QuorumBuild(b)
           \/ (ReadRecords \/ Pin) /\ UNCHANGED quorumVars
  <2>1. UNCHANGED chain
    BY <1>6 DEF QuorumReadVault, FollowProposal, QuorumBuild, quorumVars
  <2>2. QED  BY <2>1, SameMoves
<1>7. QED  BY <1>1, <1>2, <1>3, <1>4, <1>5, <1>6 DEF SitePass

LEMMA CosignerMoves ==
  ASSUME ProposalsGood, NEW c \in Cosigners, CosignerPass(c) \/ CosignerFails(c)
  PROVE  \A i \in Indices : MovesOn(i)
<1>1. c \in Members
  BY DEF Members
<1>2. CASE \E i \in Indices : CosignerLooks(c, i) \/ CosignerFinds(c, i)
  <2>1. UNCHANGED chain
    BY <1>2 DEF CosignerLooks, CosignerFinds
  <2>2. QED  BY <2>1, SameMoves
<1>3. CASE CosignerJudges(c)
  <2>1. UNCHANGED chain
    BY <1>3 DEF CosignerJudges
  <2>2. QED  BY <2>1, SameMoves
<1>4. CASE CosignerApproves(c) \/ CosignerFails(c) \/ CosignerRejects(c)
  <2>1. \/ UNCHANGED chain
        \/ VoteFor(cosigner[c].index, c, cosigner[c].fallback)
        \/ VoteAgainst(cosigner[c].index, c)
    BY <1>4 DEF CosignerApproves, CosignerFails, CosignerRejects
  <2>2. QED  BY <1>1, <2>1, VoteMoves, SameMoves
<1>5. CASE CosignerExecutes(c)
  <2>1. UNCHANGED chain \/ Settled(cosigner[c].index, Ran(cosigner[c].index))
    BY <1>5 DEF CosignerExecutes
  <2>2. QED  BY <2>1, SettledMoves, SameMoves
<1>6. QED  BY <1>2, <1>3, <1>4, <1>5 DEF CosignerPass

LEMMA QuorumMoves ==
  ASSUME ProposalsGood, [QuorumNext]_quorumAllVars PROVE \A i \in Indices : MovesOn(i)
<1>1. CASE SiteFails \/ GuardianCancels \/ (Crowd /\ UNCHANGED quorumVars) \/ UNCHANGED quorumAllVars
  <2>1. UNCHANGED proposals
    BY <1>1 DEF SiteFails, GuardianCancels, quorumAllVars, quorumVars, chain
  <2>2. QED  BY <2>1, SameMoves
<1>2. CASE BackupActs
  <2>1. PICK i \in Indices :
            VoteFor(i, Backup, 0) \/ VoteAgainst(i, Backup) \/ Settled(i, Ran(i))
    BY <1>2 DEF BackupActs
  <2>2. QED  BY <2>1, VoteMoves, SettledMoves DEF Members
<1>3. CASE \E i \in Indices : Propose(i, FALSE)
  BY <1>3, ProposeMoves
<1>4. QED  BY <1>1, <1>2, <1>3, SitePassMoves, CosignerMoves DEF QuorumNext

(* Of an open proposal nobody's vote counts for both sides, and neither    *)
(* side has enough.                                                        *)
Undecided(p) ==
    /\ p.approved \subseteq Members /\ p.rejected \subseteq Members
    /\ p.approved \cap p.rejected = {}
    /\ Cardinality(p.approved) < Threshold
    /\ Cardinality(p.rejected) <= Cardinality(Members) - Threshold
VotesCounted == \A i \in Indices : proposals[i].status = "active" => Undecided(proposals[i])

LEMMA VoteCounts ==
  ASSUME IsFiniteSet(Members), Threshold <= Cardinality(Members),
         NEW p \in ProposalType, Undecided(p), NEW who \in Members,
         NEW q, q = Approved(p, who) \/ q = Rejected(p, who), q.status = "active"
  PROVE  Undecided(q)
<1>1. Threshold \in Nat /\ Cardinality(Members) \in Nat
  BY QuorumAssumption, FS_CardinalityType
<1>2. /\ IsFiniteSet(p.approved) /\ IsFiniteSet(p.rejected)
      /\ p.approved \ {who} \in SUBSET p.approved /\ p.rejected \ {who} \in SUBSET p.rejected
  BY FS_Subset DEF Undecided
<1>3. /\ Cardinality(p.approved \ {who}) <= Cardinality(p.approved)
      /\ Cardinality(p.rejected \ {who}) <= Cardinality(p.rejected)
      /\ IsFiniteSet(p.approved \ {who}) /\ IsFiniteSet(p.rejected \ {who})
  BY <1>2, FS_Subset
<1>4. /\ Cardinality(p.approved) \in Nat /\ Cardinality(p.rejected) \in Nat
      /\ Cardinality(p.approved \ {who}) \in Nat /\ Cardinality(p.rejected \ {who}) \in Nat
  BY <1>2, <1>3, FS_CardinalityType
<1>5. CASE q = Approved(p, who)
  <2>1. q.approved = p.approved \cup {who} /\ q.rejected = p.rejected \ {who}
    BY <1>5 DEF Approved, ProposalType
  <2>2. ~(Cardinality(p.approved \cup {who}) >= Threshold)
    BY <1>5 DEF Approved, ProposalType
  <2>3. IsFiniteSet(p.approved \cup {who}) /\ Cardinality(p.approved \cup {who}) \in Nat
    BY <1>2, FS_AddElement, FS_CardinalityType
  <2>4. Cardinality(q.approved) < Threshold
    BY <1>1, <2>1, <2>2, <2>3
  <2>5. Cardinality(q.rejected) <= Cardinality(Members) - Threshold
    BY <1>1, <1>3, <1>4, <2>1 DEF Undecided
  <2>6. QED  BY <2>1, <2>4, <2>5 DEF Undecided
<1>6. CASE q = Rejected(p, who)
  <2>1. q.rejected = p.rejected \cup {who} /\ q.approved = p.approved \ {who}
    BY <1>6 DEF Rejected, ProposalType
  <2>2. ~(Cardinality(p.rejected \cup {who}) >= Cardinality(Members) - Threshold + 1)
    BY <1>6 DEF Rejected, ProposalType
  <2>3. IsFiniteSet(p.rejected \cup {who}) /\ Cardinality(p.rejected \cup {who}) \in Nat
    BY <1>2, FS_AddElement, FS_CardinalityType
  <2>4. Cardinality(q.rejected) <= Cardinality(Members) - Threshold
    BY <1>1, <2>1, <2>2, <2>3
  <2>5. Cardinality(q.approved) < Threshold
    BY <1>1, <1>3, <1>4, <2>1 DEF Undecided
  <2>6. QED  BY <2>1, <2>4, <2>5 DEF Undecided
<1>7. QED  BY <1>5, <1>6

LEMMA NextVotes ==
  ASSUME IsFiniteSet(Members), Threshold <= Cardinality(Members),
         ProposalsGood, VotesCounted, [QuorumNext]_quorumAllVars
  PROVE  VotesCounted'
<1> SUFFICES ASSUME NEW i \in Indices, proposals'[i].status = "active"
             PROVE  Undecided(proposals'[i])
  BY DEF VotesCounted
<1>1. CASE proposals'[i] = proposals[i]
  BY <1>1 DEF VotesCounted
<1>2. CASE Voted(i)
  <2>1. PICK who \in Members : \/ proposals'[i] = Approved(proposals[i], who)
                               \/ proposals'[i] = Rejected(proposals[i], who)
    BY <1>2 DEF Voted
  <2>2. Undecided(proposals[i]) /\ proposals[i] \in ProposalType
    BY <1>2 DEF Voted, VotesCounted, ProposalsGood
  <2>3. QED  BY <2>1, <2>2, VoteCounts
<1>3. CASE Proposed(i)
  <2>1. Cardinality({Site}) = 1 /\ Cardinality({}) = 0 /\ Cardinality(Members) \in Nat
    BY FS_Singleton, FS_EmptySet, FS_CardinalityType
  <2>2. QED  BY <1>3, <2>1, QuorumAssumption DEF Proposed, Undecided, Members
<1>4. ~Closed(i)
  BY DEF Closed
<1>5. QED  BY <1>1, <1>2, <1>3, <1>4, QuorumMoves DEF MovesOn

(* rejectCutoff, propose: as long as a proposal is open there is a member  *)
(* whose vote is still to come, so the votes always decide it: what the    *)
(* members' last vote leaves is approved or rejected, never tied.          *)
THEOREM VotesAlwaysDecide ==
  ASSUME IsFiniteSet(Members), Threshold <= Cardinality(Members)
  PROVE  QuorumSpec => [](\A i \in Indices : proposals[i].status = "active" =>
                              proposals[i].approved \cup proposals[i].rejected # Members)
<1>1. QuorumInit => VotesCounted
  BY DEF QuorumInit, NoProposal, VotesCounted
<1>2. QuorumInv /\ VotesCounted /\ [QuorumNext]_quorumAllVars => VotesCounted'
  BY NextVotes DEF QuorumInv
<1>3. VotesCounted => \A i \in Indices : proposals[i].status = "active" =>
                              proposals[i].approved \cup proposals[i].rejected # Members
  <2> SUFFICES ASSUME NEW p, Undecided(p), p.approved \cup p.rejected = Members
               PROVE  FALSE
    BY DEF VotesCounted
  <2>1. IsFiniteSet(p.approved) /\ IsFiniteSet(p.rejected)
    BY FS_Subset DEF Undecided
  <2>2. Cardinality(Members) = Cardinality(p.approved) + Cardinality(p.rejected) - Cardinality({})
    BY <2>1, FS_Union DEF Undecided
  <2>3. /\ Cardinality({}) = 0 /\ Threshold \in Nat /\ Cardinality(Members) \in Nat
        /\ Cardinality(p.approved) \in Nat /\ Cardinality(p.rejected) \in Nat
    BY <2>1, FS_EmptySet, FS_CardinalityType, QuorumAssumption
  <2>4. QED  BY <2>2, <2>3 DEF Undecided
<1>4. QED  BY <1>1, <1>2, <1>3, QuorumHolds, PTL DEF QuorumSpec
=============================================================================
