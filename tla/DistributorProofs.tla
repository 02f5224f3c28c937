------------------------- MODULE DistributorProofs --------------------------
(***************************************************************************)
(* A distributor's run for every number of holders, amounts, batches,      *)
(* blocks and crashes: holders are paid what they were allocated and no    *)
(* more (PayoutJournal), and what the books of a tax cycle set aside is in *)
(* the wallet (TaxCycle).                                                  *)
(***************************************************************************)
EXTENDS PayoutJournal, TaxCycle, FiniteSums, SequenceTheorems, TLAPS

-----------------------------------------------------------------------------
(* PayoutJournal.                                                          *)

(* The types of the run's batches and of the transactions that pay them.   *)
Statuses == {"unsent", "sent", "confirmed"}
PaymentsTo == UNION {[S -> Nat] : S \in SUBSET Holders}
Batch == [payments : PaymentsTo, status : Statuses, tx : Nat]
Tx == [payments : PaymentsTo, last : Nat, state : {"signed", "broadcast", "landed", "failed"}]

(* The variables' types, with no bound on heights and amounts.             *)
JournalTypes ==
  /\ owed \in [Holders -> Nat] /\ received \in [Holders -> Nat] /\ allocated \in [Holders -> Nat]
  /\ batches \in Seq(Batch) /\ txs \in Seq(Tx)
  /\ \A i \in 1..Len(batches) : batches[i].tx \in 0..Len(txs)
  /\ pc \in {"idle", "resolve", "height", "send", "broadcast", "confirm", "allocate", "plan"}
  /\ sending \in 0..Len(batches) /\ reading \in Nat /\ planned \in BOOLEAN /\ raced \in BOOLEAN
  /\ height \in Nat /\ balance \in Nat /\ raised \in Nat

(* The batches that may be in doubt, and those to be settled at all.       *)
Sent == WithStatus("sent")
Pending == WithStatus("unsent") \cup Sent

(* At most one batch is in doubt, and the run knows which it is at.        *)
OneInDoubt ==
  /\ \A i, j \in Sent : i = j
  /\ \A i \in Sent : batches[i].tx \in 1..Len(txs) /\ txs[batches[i].tx].payments = batches[i].payments
  /\ pc \in {"allocate", "plan"} => batches = <<>> /\ sending = 0
  /\ pc = "send" => Sent = {}
  /\ pc \in {"broadcast", "confirm"} => sending \in Sent
  /\ pc = "broadcast" => txs[batches[sending].tx].state = "signed"
  /\ pc = "height" => reading \in Sent /\ (~raced => txs[batches[reading].tx].state # "landed")

(* What batches pay w.                                                     *)
PaysTo(w) == [i \in DOMAIN batches |-> Pays(batches[i].payments, w)]
(* What is in doubt for w, owed to all, and in doubt for all.              *)
Unbooked(w) == FSum(PaysTo(w), Unsettled)
Owed == FSum(owed, Holders)
InDoubt == FSum([i \in DOMAIN batches |-> SumOf(batches[i].payments)], Unsettled)

(* Batches to come ask no more of an entry than it holds.                  *)
PendingFits == \A w \in Holders : FSum(PaysTo(w), Pending) <= owed[w]

(* What was allocated is paid, owed, or paid and still owed in the file;   *)
(* a race pays twice.                                                      *)
Accounted ==
  \A w \in Holders :
    /\ received[w] + owed[w] >= allocated[w] + Unbooked(w)
    /\ ~raced => received[w] + owed[w] = allocated[w] + Unbooked(w)

(* The inductive invariant.                                                *)
JournalInv ==
  /\ JournalTypes /\ OneInDoubt /\ JournalFirst /\ PendingFits /\ Accounted
  /\ ~raced => Owed - InDoubt <= balance

-----------------------------------------------------------------------------
(* The sums of the model are sums over finite sets.                        *)
LEMMA SumOfIs == ASSUME NEW f PROVE SumOf(f) = FSum(f, DOMAIN f)
  BY DEF SumOf, FoldFunction, FSum

(* What is left to pay is covered by what covered it all.                  *)
LEMMA LessIsCovered ==
  ASSUME NEW most \in Nat, NEW less \in Nat, NEW paid \in Nat, NEW left \in Nat,
         most = less + paid, most - paid <= left
  PROVE  less <= left
OBVIOUS

(* A batch pays its payments, holder by holder.                            *)
LEMMA SumOfPayments ==
  ASSUME NEW p \in PaymentsTo
  PROVE  /\ SumOf(p) \in Nat
         /\ \A w \in Holders : Pays(p, w) \in Nat
         /\ FSum([w \in Holders |-> Pays(p, w)], Holders) = SumOf(p)
<1> DEFINE g == [w \in Holders |-> Pays(p, w)]
<1>0. PICK S \in SUBSET Holders : p \in [S -> Nat]
  BY DEF PaymentsTo
<1>1. DOMAIN p \in SUBSET Holders /\ IsFiniteSet(DOMAIN p) /\ IsFiniteSet(Holders)
  BY <1>0, FS_Subset, SizesAssumption
<1>2. \A w \in Holders : Pays(p, w) \in Nat
  BY <1>0 DEF Pays
<1>3. \A w \in DOMAIN p : g[w] = p[w] /\ p[w] \in Nat
  BY <1>0 DEF Pays
<1>4. \A w \in Holders \ DOMAIN p : g[w] = 0
  BY <1>0 DEF Pays
<1> HIDE DEF g
<1>5. FSum(g, Holders) = FSum(g, DOMAIN p)
  BY <1>1, <1>3, <1>4, SumSupport
<1>6. FSum(g, DOMAIN p) = FSum(p, DOMAIN p)
  BY <1>1, <1>3, SumSame
<1>7. FSum(p, DOMAIN p) \in Nat
  BY <1>1, <1>3, SumNat
<1> QED
  BY <1>2, <1>5, <1>6, <1>7, SumOfIs DEF g

(* Where the journal's batches and sums live.                              *)
PlacesOf ==
  /\ DOMAIN batches = 1..Len(batches) /\ Len(batches) \in Nat
  /\ IsFiniteSet(Pending) /\ IsFiniteSet(Unsettled)
  /\ Unsettled \subseteq Sent /\ Sent \subseteq Pending /\ Pending \subseteq DOMAIN batches
  /\ \A i \in DOMAIN batches :
        /\ batches[i] \in Batch /\ batches[i].payments \in PaymentsTo
        /\ SumOf(batches[i].payments) \in Nat
        /\ \A w \in Holders : PaysTo(w)[i] = Pays(batches[i].payments, w) /\ PaysTo(w)[i] \in Nat
  /\ Owed \in Nat

(* Every batch has its place in the payments' sums.                        *)
LEMMA Places == JournalTypes => PlacesOf
<1> SUFFICES ASSUME JournalTypes PROVE PlacesOf
  OBVIOUS
<1>1. DOMAIN batches = 1..Len(batches) /\ Len(batches) \in Nat
  BY DEF JournalTypes
<1>2. IsFiniteSet(DOMAIN batches)
  BY <1>1, FS_Interval
<1>3. Unsettled \subseteq Sent /\ Sent \subseteq Pending /\ Pending \subseteq DOMAIN batches
  BY DEF Unsettled, Sent, Pending, WithStatus
<1>4. \A i \in DOMAIN batches : batches[i] \in Batch
  BY <1>1 DEF JournalTypes
<1>5. \A i \in DOMAIN batches : batches[i].payments \in PaymentsTo
  BY <1>4 DEF Batch
<1>6. \A i \in DOMAIN batches, w \in Holders : PaysTo(w)[i] \in Nat
  BY <1>5, SumOfPayments DEF PaysTo
<1>8. Owed \in Nat
  BY SumNat, SizesAssumption DEF JournalTypes, Owed
<1>9. IsFiniteSet(Pending) /\ IsFiniteSet(Unsettled)
  BY <1>2, <1>3, FS_Subset
<1>10. \A i \in DOMAIN batches, w \in Holders : PaysTo(w)[i] = Pays(batches[i].payments, w)
  BY DEF PaysTo
<1> QED
  BY <1>1, <1>3, <1>4, <1>5, <1>6, <1>8, <1>9, <1>10, SumOfPayments DEF PlacesOf

(* What is paid and not yet booked is the batch in doubt, or nothing.      *)
DoubtOf ==
  /\ \A w \in Holders : Unbooked(w) \in Nat
  /\ InDoubt \in Nat
  /\ Unsettled = {} => InDoubt = 0 /\ \A w \in Holders : Unbooked(w) = 0
  /\ \A i \in Unsettled :
        /\ Unsettled = {i} /\ Sent = {i}
        /\ InDoubt = SumOf(batches[i].payments)
        /\ \A w \in Holders : Unbooked(w) = Pays(batches[i].payments, w)

(* The unsettled batches are at most the one in doubt.                     *)
LEMMA Doubts == JournalTypes /\ OneInDoubt => DoubtOf
<1> SUFFICES ASSUME JournalTypes, OneInDoubt PROVE DoubtOf
  OBVIOUS
<1> DEFINE sums == [i \in DOMAIN batches |-> SumOf(batches[i].payments)]
<1>0. PlacesOf
  BY Places
<1>1. CASE Unsettled = {}
  BY <1>1, SumOfNone DEF Unbooked, InDoubt, DoubtOf
<1>2. CASE Unsettled # {}
  <2>1. PICK i : i \in Unsettled
    BY <1>2
  <2>2. Unsettled = {i} /\ Sent = {i} /\ i \in DOMAIN batches
    BY <2>1, <1>0 DEF OneInDoubt, PlacesOf
  <2>3. sums[i] = SumOf(batches[i].payments) /\ sums[i] \in Int
    BY <2>2, <1>0 DEF PlacesOf
  <2>4. InDoubt = FSum(sums, {i})
    BY <2>2 DEF InDoubt
  <2> HIDE DEF sums
  <2>5. FSum(sums, {i}) = sums[i]
    BY <2>3, SumOne
  <2>6. ASSUME NEW w \in Holders PROVE Unbooked(w) = PaysTo(w)[i]
    <3>1. PaysTo(w)[i] \in Int
      BY <1>0, <2>2 DEF PlacesOf
    <3> QED
      BY <3>1, <2>2, SumOne DEF Unbooked
  <2> QED
    BY <1>0, <2>2, <2>3, <2>4, <2>5, <2>6 DEF DoubtOf, PlacesOf
<1> QED
  BY <1>1, <1>2

-----------------------------------------------------------------------------
(* The sums do not notice what they are not about.                         *)
LEMMA PaysToKept ==
  ASSUME DOMAIN batches' = DOMAIN batches,
         \A i \in DOMAIN batches : batches'[i].payments = batches[i].payments
  PROVE  \A w \in Holders : PaysTo(w)' = PaysTo(w)
  BY DEF PaysTo

(* A batch in doubt turns out paid: it is settled.                         *)
LEMMA SettleKeeps ==
  ASSUME JournalInv, NEW i, i \in Sent, txs[batches[i].tx].state = "landed", Settle(i),
         UNCHANGED <<chain, history>>, JournalTypes', OneInDoubt'
  PROVE  JournalInv'
<1> DEFINE p == batches[i].payments
<1> USE DEF JournalInv
<1>0. PlacesOf /\ DoubtOf /\ DoubtOf'
  <2>1. (JournalTypes /\ OneInDoubt)' => DoubtOf'
    BY Doubts, PTL
  <2> QED
    BY <2>1, Places, Doubts
<1>1. i \in DOMAIN batches /\ i \in Unsettled /\ p \in PaymentsTo
  BY <1>0 DEF Sent, WithStatus, Unsettled, PlacesOf
<1>2. /\ DOMAIN batches' = DOMAIN batches
      /\ \A j \in DOMAIN batches : batches'[j].payments = batches[j].payments
      /\ \A j \in DOMAIN batches : batches'[j].status = IF j = i THEN "confirmed" ELSE batches[j].status
      /\ \A j \in DOMAIN batches : batches'[j].tx = batches[j].tx
  BY <1>0, <1>1 DEF Settle, Batch, PlacesOf
<1>3. Unsettled = {i} /\ Sent = {i} /\ InDoubt = SumOf(p)
      /\ \A w \in Holders : Unbooked(w) = Pays(p, w)
  BY <1>0, <1>1 DEF DoubtOf
<1>4. Sent' = {} /\ Unsettled' = {} /\ Pending' = Pending \ {i}
  BY <1>2, <1>3, <1>1 DEF Sent, Unsettled, Pending, WithStatus
<1>5. \A w \in Holders : PaysTo(w)' = PaysTo(w)
  BY <1>2, PaysToKept
<1>6. ASSUME NEW w \in Holders
      PROVE  /\ Pays(p, w) \in Nat
             /\ FSum(PaysTo(w)', Pending') = FSum(PaysTo(w), Pending) - Pays(p, w)
             /\ FSum(PaysTo(w), Pending) \in Nat
             /\ Pays(p, w) <= owed[w]
  <2>1. FSum(PaysTo(w), Pending) = PaysTo(w)[i] + FSum(PaysTo(w), Pending \ {i})
    <3>1. \A j \in Pending : PaysTo(w)[j] \in Int
      BY <1>0 DEF PlacesOf
    <3>2. i \in Pending /\ IsFiniteSet(Pending)
      BY <1>0, <1>3 DEF PlacesOf
    <3> QED
      BY <3>1, <3>2, SumRemove
  <2>2. PaysTo(w)[i] = Pays(p, w) /\ PaysTo(w)[i] \in Nat
    BY <1>0, <1>1 DEF PlacesOf
  <2>3. FSum(PaysTo(w), Pending \ {i}) \in Nat
    <3>1. \A j \in Pending \ {i} : PaysTo(w)[j] \in Nat
      BY <1>0 DEF PlacesOf
    <3>2. IsFiniteSet(Pending \ {i})
      BY <1>0, FS_Subset DEF PlacesOf
    <3> QED
      BY <3>1, <3>2, SumNat
  <2>4. FSum(PaysTo(w), Pending) <= owed[w] /\ owed[w] \in Nat
    BY DEF JournalTypes, PendingFits
  <2>5. FSum(PaysTo(w)', Pending') = FSum(PaysTo(w), Pending \ {i})
    BY <1>4, <1>5
  <2> HIDE DEF p
  <2> QED
    BY <2>1, <2>2, <2>3, <2>4, <2>5
<1>7. owed' = [w \in Holders |-> owed[w] - Pays(p, w)]
  BY DEF Settle
<1>8. SumOf(p) \in Nat
  BY <1>1, SumOfPayments
<1>9. UNCHANGED <<txs, height, balance, received, allocated, raced>>
  BY DEF chain, history
<1> DEFINE g == [w \in Holders |-> Pays(p, w)]
<1>10. FSum(g, Holders) = SumOf(p)
  BY <1>1, SumOfPayments
<1> HIDE DEF p
<1>11. JournalFirst'
  <2>1. ASSUME NEW t \in DOMAIN txs', txs'[t].state = "broadcast", height' <= txs'[t].last PROVE FALSE
    <3>1. PICK j \in Sent : batches[j].tx = t
      BY <1>9, <2>1 DEF JournalFirst, Sent
    <3> QED
      BY <1>3, <1>9, <2>1, <3>1
  <2> QED
    BY <2>1 DEF JournalFirst
<1>12. PendingFits'
  <2>1. ASSUME NEW w \in Holders PROVE FSum(PaysTo(w)', Pending') <= owed'[w]
    <3>1. FSum(PaysTo(w), Pending) <= owed[w] /\ owed[w] \in Nat
      BY DEF JournalTypes, PendingFits
    <3>2. owed'[w] = owed[w] - Pays(p, w)
      BY <1>7
    <3>3. /\ Pays(p, w) \in Nat
          /\ FSum(PaysTo(w)', Pending') = FSum(PaysTo(w), Pending) - Pays(p, w)
          /\ FSum(PaysTo(w), Pending) \in Nat
      BY <1>6
    <3> QED
      BY <3>1, <3>2, <3>3
  <2> QED
    BY <2>1 DEF PendingFits
<1>13. Accounted'
  <2>1. ASSUME NEW w \in Holders
        PROVE  /\ received'[w] + owed'[w] >= allocated'[w] + Unbooked(w)'
               /\ ~raced' => received'[w] + owed'[w] = allocated'[w] + Unbooked(w)'
    <3>1. owed'[w] = owed[w] - Pays(p, w) /\ Unbooked(w) = Pays(p, w) /\ Unbooked(w)' = 0
      BY <1>0, <1>3, <1>4, <1>7 DEF DoubtOf
    <3>2. owed[w] \in Nat /\ received[w] \in Nat /\ allocated[w] \in Nat /\ Pays(p, w) \in Nat
      BY <1>6 DEF JournalTypes
    <3>3. /\ received[w] + owed[w] >= allocated[w] + Unbooked(w)
          /\ ~raced => received[w] + owed[w] = allocated[w] + Unbooked(w)
      BY DEF Accounted
    <3> QED
      BY <3>1, <3>2, <3>3, <1>9
  <2> QED
    BY <2>1 DEF Accounted
<1>14. Owed = Owed' + SumOf(p) /\ Owed' \in Nat
  <2>1. ASSUME NEW w \in Holders PROVE owed'[w] \in Nat /\ g[w] \in Int /\ owed[w] = owed'[w] + g[w]
    <3>1. owed'[w] = owed[w] - Pays(p, w) /\ g[w] = Pays(p, w) /\ owed[w] \in Nat
      BY <1>7 DEF JournalTypes
    <3>2. Pays(p, w) \in Nat /\ Pays(p, w) <= owed[w]
      BY <1>6
    <3> HIDE DEF g
    <3> QED
      BY <3>1, <3>2
  <2> HIDE DEF g
  <2>2. FSum(owed, Holders) = FSum(owed', Holders) + FSum(g, Holders)
    BY <2>1, SumPlus, SizesAssumption
  <2>3. FSum(owed', Holders) \in Nat
    BY <2>1, SumNat, SizesAssumption
  <2> QED
    BY <1>10, <2>2, <2>3 DEF Owed
<1>15. ~raced' => (Owed - InDoubt <= balance)'
  <2>1. InDoubt' = 0 /\ InDoubt = SumOf(p) /\ (~raced => Owed - InDoubt <= balance)
    BY <1>0, <1>3, <1>4 DEF DoubtOf
  <2>2. Owed \in Nat /\ balance \in Nat
    BY <1>0 DEF PlacesOf, JournalTypes
  <2>3. balance' = balance /\ raced' = raced
    BY <1>9
  <2> SUFFICES ASSUME ~raced' PROVE Owed' - InDoubt' <= balance'
    OBVIOUS
  <2>4. Owed - SumOf(p) <= balance
    BY <2>1, <2>3
  <2>5. Owed' <= balance
    BY <1>8, <1>14, <2>2, <2>4, LessIsCovered
  <2> QED
    BY <1>14, <2>1, <2>3, <2>5
<1> QED
  BY <1>11, <1>12, <1>13, <1>15

(* Steps that leave the pending and the doubtful where they are.           *)
LEMMA SumsStay ==
  ASSUME JournalInv, JournalTypes', UNCHANGED <<owed, received, allocated, raced>>,
         DOMAIN batches' = DOMAIN batches,
         \A i \in DOMAIN batches : batches'[i].payments = batches[i].payments,
         Pending' = Pending, Unsettled' = Unsettled, balance' >= balance
  PROVE  PendingFits' /\ Accounted' /\ (~raced' => Owed' - InDoubt' <= balance')
<1>1. \A w \in Holders : PaysTo(w)' = PaysTo(w)
  BY PaysToKept
<1>2. PendingFits' /\ Accounted'
  BY <1>1 DEF JournalInv, PendingFits, Accounted, Unbooked
<1>3. Owed' = Owed /\ InDoubt' = InDoubt
  BY DEF Owed, InDoubt
<1>4. Owed \in Nat /\ InDoubt \in Nat
  BY Places, Doubts DEF JournalInv, PlacesOf, DoubtOf
<1> QED
  BY <1>2, <1>3, <1>4 DEF JournalInv, JournalTypes

(* A batch whose transaction is over goes out again.                       *)
LEMMA SendAgainKeeps ==
  ASSUME JournalInv, NEW i, i \in Sent, ~raced => txs[batches[i].tx].state # "landed",
         ~(txs[batches[i].tx].state = "broadcast" /\ height <= txs[batches[i].tx].last),
         SendAgain(i), UNCHANGED <<chain, history>>, JournalTypes', OneInDoubt'
  PROVE  JournalInv'
<1> USE DEF JournalInv
<1>0. PlacesOf /\ DoubtOf /\ DoubtOf'
  <2>1. (JournalTypes /\ OneInDoubt)' => DoubtOf'
    BY Doubts, PTL
  <2> QED
    BY <2>1, Places, Doubts
<1>1. i \in DOMAIN batches /\ Sent = {i}
  BY <1>0 DEF Sent, WithStatus, OneInDoubt
<1>2. /\ DOMAIN batches' = DOMAIN batches
      /\ \A j \in DOMAIN batches : batches'[j].payments = batches[j].payments
      /\ \A j \in DOMAIN batches : batches'[j].status = IF j = i THEN "unsent" ELSE batches[j].status
  BY <1>0, <1>1 DEF SendAgain, Batch, PlacesOf
<1>3. UNCHANGED <<owed, txs, height, balance, received, allocated, raced>>
  BY DEF chain, history, SendAgain
<1>4. Pending' = Pending /\ Unsettled' = {} /\ Sent' = {}
  BY <1>1, <1>2 DEF Sent, Unsettled, Pending, WithStatus
<1>5. JournalFirst'
  <2>1. ASSUME NEW t \in DOMAIN txs', txs'[t].state = "broadcast", height' <= txs'[t].last PROVE FALSE
    <3>1. PICK j \in Sent : batches[j].tx = t
      BY <1>3, <2>1 DEF JournalFirst, Sent
    <3> QED
      BY <1>1, <1>3, <2>1, <3>1
  <2> QED
    BY <2>1 DEF JournalFirst
<1>6. CASE Unsettled = {}
  BY <1>2, <1>3, <1>4, <1>5, <1>6, SumsStay DEF JournalTypes
<1>7. CASE Unsettled # {}
  <2>1. i \in Unsettled
    BY <1>0, <1>1, <1>7 DEF PlacesOf
  <2>2. raced /\ raced'
    BY <1>3, <2>1 DEF Unsettled
  <2>3. \A w \in Holders : PaysTo(w)' = PaysTo(w)
    BY <1>2, PaysToKept
  <2>4. PendingFits'
    BY <1>3, <1>4, <2>3 DEF PendingFits
  <2>5. ASSUME NEW w \in Holders PROVE received'[w] + owed'[w] >= allocated'[w] + Unbooked(w)'
    <3>1. Unbooked(w)' = 0 /\ Unbooked(w) \in Nat
      BY <1>0, <1>4 DEF DoubtOf
    <3>2. received[w] + owed[w] >= allocated[w] + Unbooked(w)
      BY DEF Accounted
    <3>3. owed[w] \in Nat /\ received[w] \in Nat /\ allocated[w] \in Nat
      BY DEF JournalTypes
    <3> QED
      BY <1>3, <3>1, <3>2, <3>3
  <2> QED
    BY <1>5, <2>2, <2>4, <2>5 DEF Accounted
<1> QED
  BY <1>6, <1>7

(* The batch sent next is one not sent yet.                                *)
LEMMA FirstIn ==
  ASSUME NEW S \in SUBSET Nat, S # {}
  PROVE  First(S) \in S
<1>1. PICK n \in S : \A m \in S : ~(m < n)
  BY LeastMember
<1>2. \A m \in S : n <= m
  BY <1>1
<1> QED
  BY <1>2 DEF First

(* What neither file nor chain notices.                                    *)
LEMMA NothingMoves ==
  ASSUME JournalInv, JournalTypes', OneInDoubt', UNCHANGED <<owed, batches, txs, received, allocated, raced>>,
         height' >= height, balance' >= balance
  PROVE  JournalInv'
<1>1. Pending' = Pending /\ Unsettled' = Unsettled /\ Sent' = Sent
  BY DEF Pending, Unsettled, Sent, WithStatus
<1>2. PendingFits' /\ Accounted' /\ (~raced' => Owed' - InDoubt' <= balance')
  BY <1>1, SumsStay
<1>3. JournalFirst'
  <2>1. ASSUME NEW t \in DOMAIN txs', txs'[t].state = "broadcast", height' <= txs'[t].last
        PROVE  \E j \in Sent' : batches'[j].tx = t
    <3>1. txs[t] \in Tx /\ t \in DOMAIN txs
      BY <2>1 DEF JournalInv, JournalTypes
    <3>2. height <= txs[t].last
      BY <2>1, <3>1 DEF JournalInv, JournalTypes, Tx
    <3> QED
      BY <1>1, <2>1, <3>1, <3>2 DEF JournalInv, JournalFirst, Sent
  <2> QED
    BY <2>1 DEF JournalFirst, Sent
<1> QED
  BY <1>2, <1>3 DEF JournalInv

(* A batch marked anew is a batch like the others.                         *)
Marked(b, i, st, k, c) ==
  /\ c \in Seq(Batch) /\ Len(c) = Len(b) /\ DOMAIN c = DOMAIN b
  /\ \A j \in DOMAIN b : c[j].payments = b[j].payments
  /\ c[i].status = st /\ c[i].tx = k
  /\ \A j \in DOMAIN b \ {i} : c[j] = b[j]

(* A batch's new status and transaction change nothing else of it.         *)
LEMMA Marking ==
  ASSUME NEW b \in Seq(Batch), NEW i \in 1..Len(b), NEW st \in Statuses, NEW k \in Nat
  PROVE  Marked(b, i, st, k, [b EXCEPT ![i].status = st, ![i].tx = k])
<1> DEFINE c == [b EXCEPT ![i].status = st, ![i].tx = k]
<1> DEFINE q == [b[i] EXCEPT !.status = st]
           r == [q EXCEPT !.tx = k]
<1>1. b[i] \in Batch
  BY ElementOfSeq
<1>2. q \in Batch /\ q.payments = b[i].payments /\ q.status = st
  BY <1>1 DEF Batch
<1> HIDE DEF q
<1>3. r \in Batch /\ r.payments = q.payments /\ r.status = q.status /\ r.tx = k
  BY <1>2 DEF Batch
<1>4. c = [b EXCEPT ![i] = r]
  BY Zenon DEF q
<1> HIDE DEF r, c
<1>5. /\ c \in Seq(Batch) /\ Len(c) = Len(b)
      /\ \A j \in 1..Len(b) : c[j] = IF j = i THEN r ELSE b[j]
  BY <1>3, <1>4, ExceptSeq
<1>6. DOMAIN c = 1..Len(c) /\ DOMAIN b = 1..Len(b)
  BY <1>5
<1>7. Marked(b, i, st, k, c)
  BY <1>2, <1>3, <1>5, <1>6 DEF Marked
<1> QED
  BY <1>7 DEF c

(* sendPayouts: journaled before it is broadcast.                          *)
LEMMA SendBatchKeeps == ASSUME JournalInv, SendBatch PROVE JournalInv'
<1> DEFINE i == First(WithStatus("unsent"))
           tx == [payments |-> batches[i].payments, last |-> height + Validity, state |-> "signed"]
<1> USE DEF JournalInv
<1>0. PlacesOf
  BY Places
<1>1. i \in WithStatus("unsent") /\ i \in DOMAIN batches /\ i \in 1..Len(batches)
  <2>1. WithStatus("unsent") \in SUBSET Nat
    BY <1>0 DEF PlacesOf, WithStatus
  <2>2. WithStatus("unsent") # {}
    BY DEF SendBatch
  <2> QED
    BY <1>0, <2>1, <2>2, FirstIn DEF WithStatus, PlacesOf
<1>2. /\ batches' = [batches EXCEPT ![i].status = "sent", ![i].tx = Len(txs) + 1]
      /\ sending' = i /\ txs' = Append(txs, tx) /\ pc = "send" /\ pc' = "broadcast"
      /\ UNCHANGED <<owed, reading, planned, height, balance, received, history>>
  BY DEF SendBatch
<1>3. batches[i] \in Batch /\ batches[i].payments \in PaymentsTo
  BY <1>0, <1>1 DEF PlacesOf
<1>4. tx \in Tx
  BY <1>3, SizesAssumption DEF Tx, JournalTypes
<1> HIDE DEF i
<1>5. Sent = {}
  BY <1>2 DEF OneInDoubt
<1>8. /\ batches' \in Seq(Batch) /\ Len(batches') = Len(batches) /\ DOMAIN batches' = DOMAIN batches
      /\ \A j \in DOMAIN batches : batches'[j].payments = batches[j].payments
      /\ batches'[i].status = "sent" /\ batches'[i].tx = Len(txs) + 1
      /\ \A j \in DOMAIN batches \ {i} : batches'[j] = batches[j]
  <2> DEFINE k == Len(txs) + 1
             st == "sent"
  <2>1. k \in Nat /\ batches \in Seq(Batch) /\ st \in Statuses
    BY DEF JournalTypes, Statuses
  <2>2. batches' = [batches EXCEPT ![i].status = st, ![i].tx = k]
    BY <1>2
  <2> HIDE DEF k, st
  <2>3. Marked(batches, i, st, k, [batches EXCEPT ![i].status = st, ![i].tx = k])
    BY <1>1, <2>1, Marking
  <2>4. Marked(batches, i, st, k, batches')
    BY <2>2, <2>3
  <2> QED
    BY <2>4 DEF Marked, k, st
<1> HIDE DEF tx
<1>9. /\ txs' \in Seq(Tx) /\ Len(txs') = Len(txs) + 1
      /\ \A t \in 1..Len(txs) : txs'[t] = txs[t]
      /\ txs'[Len(txs) + 1] = tx
  BY <1>2, <1>4, AppendProperties DEF JournalTypes
<1>10. JournalTypes'
  BY <1>0, <1>1, <1>2, <1>8, <1>9 DEF JournalTypes, PlacesOf, history
<1>11. Sent' = {i} /\ Pending' = Pending
  BY <1>1, <1>5, <1>8 DEF Sent, Pending, WithStatus
<1>12. tx.state = "signed" /\ tx.payments = batches[i].payments
  BY DEF tx
<1>13. OneInDoubt'
  BY <1>0, <1>1, <1>2, <1>8, <1>9, <1>11, <1>12 DEF OneInDoubt, PlacesOf
<1>14. Unsettled = {} /\ Unsettled' = {}
  BY <1>0, <1>5, <1>8, <1>9, <1>11, <1>12, <1>1 DEF Unsettled, Sent, PlacesOf
<1>15. PendingFits' /\ Accounted' /\ (~raced' => Owed' - InDoubt' <= balance')
  BY <1>2, <1>8, <1>10, <1>11, <1>14, SumsStay DEF history, JournalTypes
<1>16. JournalFirst'
  <2>1. ASSUME NEW t \in DOMAIN txs', txs'[t].state = "broadcast", height' <= txs'[t].last
        PROVE  FALSE
    <3>1. t \in 1..Len(txs)
      BY <1>9, <1>12, <2>1 DEF JournalTypes
    <3> QED
      BY <1>2, <1>5, <1>9, <2>1, <3>1 DEF JournalFirst, Sent, JournalTypes
  <2> QED
    BY <2>1 DEF JournalFirst
<1> QED
  BY <1>10, <1>13, <1>15, <1>16

(* Reading a batch's fate: settled, sent again, or looked at once more.    *)
LEMMA SettleShape ==
  ASSUME JournalTypes, NEW i \in DOMAIN batches, Settle(i)
  PROVE  /\ batches' \in Seq(Batch) /\ Len(batches') = Len(batches) /\ DOMAIN batches' = DOMAIN batches
         /\ batches'[i].status = "confirmed" /\ batches'[i].tx = batches[i].tx
         /\ \A j \in DOMAIN batches \ {i} : batches'[j] = batches[j]
<1>1. PlacesOf
  BY Places
<1>2. i \in 1..Len(batches) /\ batches[i] \in Batch /\ batches \in Seq(Batch)
  BY <1>1 DEF PlacesOf, JournalTypes
<1> DEFINE r == [batches[i] EXCEPT !.status = "confirmed"]
<1>3. r \in Batch /\ r.status = "confirmed" /\ r.tx = batches[i].tx
  BY <1>2 DEF Batch, Statuses
<1>4. batches' = [batches EXCEPT ![i] = r]
  BY DEF Settle
<1> HIDE DEF r
<1>5. /\ batches' \in Seq(Batch) /\ Len(batches') = Len(batches)
      /\ \A j \in 1..Len(batches) : batches'[j] = IF j = i THEN r ELSE batches[j]
  BY <1>2, <1>3, <1>4, ExceptSeq
<1> QED
  BY <1>1, <1>2, <1>3, <1>5 DEF PlacesOf

(* A batch sent again is unsent, the others are as they were.              *)
LEMMA SendAgainShape ==
  ASSUME JournalTypes, NEW i \in DOMAIN batches, SendAgain(i)
  PROVE  /\ batches' \in Seq(Batch) /\ Len(batches') = Len(batches) /\ DOMAIN batches' = DOMAIN batches
         /\ batches'[i].status = "unsent" /\ batches'[i].tx = 0
         /\ \A j \in DOMAIN batches \ {i} : batches'[j] = batches[j]
<1>1. i \in 1..Len(batches) /\ batches \in Seq(Batch)
  BY Places DEF PlacesOf, JournalTypes
<1> DEFINE st == "unsent"
           k == 0
<1>2. st \in Statuses /\ k \in Nat
  BY DEF Statuses
<1>3. batches' = [batches EXCEPT ![i].status = st, ![i].tx = k]
  BY DEF SendAgain
<1> HIDE DEF st, k
<1>4. Marked(batches, i, st, k, [batches EXCEPT ![i].status = st, ![i].tx = k])
  BY <1>1, <1>2, Marking
<1>5. Marked(batches, i, st, k, batches')
  BY <1>3, <1>4
<1> QED
  BY <1>5 DEF Marked, st, k

(* In doubt no more: the run goes on.                                      *)
LEMMA SettleStep ==
  ASSUME JournalInv, NEW i, i \in Sent, txs[batches[i].tx].state = "landed", Settle(i),
         UNCHANGED <<sending, reading, planned, chain, history>>, pc' \in {"resolve", "send"}
  PROVE  JournalInv'
<1> USE DEF JournalInv
<1>0. PlacesOf /\ DoubtOf
  BY Places, Doubts
<1>1. i \in DOMAIN batches /\ Sent = {i} /\ i \in Unsettled
  BY <1>0 DEF Sent, WithStatus, OneInDoubt, Unsettled
<1>2. /\ batches' \in Seq(Batch) /\ Len(batches') = Len(batches) /\ DOMAIN batches' = DOMAIN batches
      /\ batches'[i].status = "confirmed" /\ batches'[i].tx = batches[i].tx
      /\ \A j \in DOMAIN batches \ {i} : batches'[j] = batches[j]
  BY <1>1, SettleShape
<1>3. owed' \in [Holders -> Nat]
  <2>1. ASSUME NEW w \in Holders PROVE owed[w] - Pays(batches[i].payments, w) \in Nat
    <3>1. PaysTo(w)[i] <= FSum(PaysTo(w), Pending)
      <4>1. \A j \in Pending : PaysTo(w)[j] \in Nat
        BY <1>0 DEF PlacesOf
      <4>2. i \in Pending /\ IsFiniteSet(Pending)
        BY <1>0, <1>1 DEF PlacesOf
      <4> QED
        BY <4>1, <4>2, SumTerm
    <3>2. FSum(PaysTo(w), Pending) \in Nat
      BY <1>0, SumNat DEF PlacesOf
    <3>3. PaysTo(w)[i] = Pays(batches[i].payments, w) /\ PaysTo(w)[i] \in Nat
      BY <1>0, <1>1 DEF PlacesOf
    <3>4. FSum(PaysTo(w), Pending) <= owed[w] /\ owed[w] \in Nat
      BY DEF PendingFits, JournalTypes
    <3> QED
      BY <3>1, <3>2, <3>3, <3>4
  <2> QED
    BY <2>1 DEF Settle
<1>4. JournalTypes'
  BY <1>0, <1>1, <1>2, <1>3 DEF JournalTypes, PlacesOf, chain, history
<1>5. Sent' = {}
  BY <1>1, <1>2 DEF Sent, WithStatus
<1>6. OneInDoubt'
  BY <1>5 DEF OneInDoubt
<1> QED
  BY <1>4, <1>6, SettleKeeps

(* A batch given up that cannot have been paid, or only by a race, is sent *)
(* again.                                                                  *)
LEMMA SendAgainStep ==
  ASSUME JournalInv, NEW i, i \in Sent, ~raced => txs[batches[i].tx].state # "landed",
         ~(txs[batches[i].tx].state = "broadcast" /\ height <= txs[batches[i].tx].last),
         SendAgain(i), UNCHANGED <<sending, reading, planned, chain, history>>, pc' = "resolve"
  PROVE  JournalInv'
<1> USE DEF JournalInv
<1>0. PlacesOf
  BY Places
<1>1. i \in DOMAIN batches /\ Sent = {i}
  BY <1>0 DEF Sent, WithStatus, OneInDoubt
<1>2. /\ batches' \in Seq(Batch) /\ Len(batches') = Len(batches) /\ DOMAIN batches' = DOMAIN batches
      /\ batches'[i].status = "unsent" /\ batches'[i].tx = 0
      /\ \A j \in DOMAIN batches \ {i} : batches'[j] = batches[j]
  BY <1>1, SendAgainShape
<1>3. Len(txs) \in Nat
  BY DEF JournalTypes
<1>4. JournalTypes'
  BY <1>0, <1>1, <1>2, <1>3 DEF JournalTypes, PlacesOf, chain, history, SendAgain
<1>5. Sent' = {}
  BY <1>1, <1>2 DEF Sent, WithStatus
<1>6. OneInDoubt'
  BY <1>5 DEF OneInDoubt
<1> QED
  BY <1>4, <1>6, SendAgainKeeps

(* The steps of a run: asking for the transaction's status,                *)
LEMMA ResolveStatusKeeps == ASSUME JournalInv, ResolveStatus PROVE JournalInv'
<1> DEFINE i == First(WithStatus("sent"))
           state == txs[batches[i].tx].state
<1>0. PlacesOf
  BY Places DEF JournalInv
<1>1. i \in Sent /\ pc = "resolve"
  <2>1. WithStatus("sent") \in SUBSET Nat /\ WithStatus("sent") # {}
    BY <1>0 DEF PlacesOf, Sent, ResolveStatus
  <2> QED
    BY <2>1, FirstIn DEF Sent, ResolveStatus
<1>2. CASE state = "landed"
  <2>1. Settle(i) /\ UNCHANGED <<pc, reading>> /\ UNCHANGED <<sending, planned, chain, history>>
    BY <1>2 DEF ResolveStatus
  <2> HIDE DEF i
  <2> QED
    BY <1>1, <1>2, <2>1, SettleStep
<1>3. CASE state = "failed"
  <2>1. SendAgain(i) /\ UNCHANGED <<pc, reading>> /\ UNCHANGED <<sending, planned, chain, history>>
    BY <1>3 DEF ResolveStatus
  <2> HIDE DEF i
  <2> QED
    BY <1>1, <1>3, <2>1, SendAgainStep
<1>4. CASE state \notin {"landed", "failed"}
  <2>1. /\ pc' = "height" /\ reading' = i /\ UNCHANGED journal /\ UNCHANGED <<sending, planned, chain, history>>
    BY <1>4 DEF ResolveStatus
  <2>2. i \in Nat
    BY <1>0, <1>1 DEF PlacesOf, Sent, WithStatus
  <2> HIDE DEF i
  <2>3. JournalTypes'
    BY <2>1, <2>2 DEF JournalInv, JournalTypes, journal, chain, history
  <2>4. OneInDoubt'
    <3>1. Sent' = Sent
      BY <2>1 DEF Sent, WithStatus, journal
    <3> QED
      BY <1>1, <1>4, <2>1, <3>1 DEF JournalInv, OneInDoubt, journal, chain, history
  <2> QED
    BY <2>1, <2>3, <2>4, NothingMoves DEF JournalInv, JournalTypes, journal, chain, history
<1> QED
  BY <1>2, <1>3, <1>4

(* asking whether its blockhash can still be used,                         *)
LEMMA ResolveHeightKeeps == ASSUME JournalInv, ResolveHeight PROVE JournalInv'
<1>1. reading \in Sent /\ (~raced => txs[batches[reading].tx].state # "landed")
      /\ batches[reading].tx \in 1..Len(txs)
  BY DEF ResolveHeight, JournalInv, OneInDoubt
<1>2. CASE height > txs[batches[reading].tx].last
  <2>1. txs[batches[reading].tx].last \in Nat /\ height \in Nat
    <3>1. txs[batches[reading].tx] \in Tx
      BY <1>1 DEF JournalInv, JournalTypes
    <3> QED
      BY <3>1 DEF JournalInv, JournalTypes, Tx
  <2> QED
    BY <1>1, <1>2, <2>1, SendAgainStep DEF ResolveHeight
<1>3. CASE ~(height > txs[batches[reading].tx].last)
  <2>1. pc' = "idle" /\ UNCHANGED <<journal, sending, reading, planned, chain, history>>
    BY <1>3 DEF ResolveHeight
  <2>2. JournalTypes'
    BY <2>1 DEF JournalInv, JournalTypes, journal, chain, history
  <2>3. OneInDoubt'
    <3>1. Sent' = Sent
      BY <2>1 DEF Sent, WithStatus, journal
    <3> QED
      BY <2>1, <3>1 DEF JournalInv, OneInDoubt, journal, chain, history
  <2> QED
    BY <2>1, <2>2, <2>3, NothingMoves DEF JournalInv, JournalTypes, journal, chain, history
<1> QED
  BY <1>2, <1>3

(* and learning that it was paid.                                          *)
LEMMA ConfirmedKeeps == ASSUME JournalInv, Confirmed PROVE JournalInv'
<1>1. sending \in Sent
  BY DEF Confirmed, JournalInv, OneInDoubt
<1> QED
  BY <1>1, SettleStep DEF Confirmed

(* What only the run notices.                                              *)
LEMMA RunKeeps ==
  ASSUME JournalInv, Begin \/ Stop \/ Resolved \/ NotConfirmed \/ NothingNew
  PROVE  JournalInv'
<1>1. UNCHANGED <<owed, batches, txs, height, balance, received, allocated, raised, raced, reading>>
  BY DEF Begin, Stop, Resolved, NotConfirmed, NothingNew, journal, chain, history
<1>2. sending' \in 0..Len(batches) /\ planned' \in BOOLEAN
      /\ pc' \in {"idle", "resolve", "height", "send", "broadcast", "confirm", "allocate", "plan"}
  <2>1. Len(batches) \in Nat
    BY Places DEF JournalInv, PlacesOf
  <2>2. sending' \in 0..Len(batches)
    BY <2>1 DEF Begin, Stop, Resolved, NotConfirmed, NothingNew, JournalInv, JournalTypes
  <2>3. planned' \in BOOLEAN
    BY DEF Begin, Stop, Resolved, NotConfirmed, NothingNew, JournalInv, JournalTypes
  <2>4. pc' \in {"idle", "resolve", "send", "plan"}
    BY DEF Begin, Stop, Resolved, NotConfirmed, NothingNew
  <2> QED
    BY <2>2, <2>3, <2>4
<1>3. JournalTypes'
  BY <1>1, <1>2 DEF JournalInv, JournalTypes
<1>4. Sent' = Sent
  BY <1>1 DEF Sent, WithStatus
<1>5. /\ pc' = "send" => Sent = {}
      /\ pc' \in {"allocate", "plan"} => pc = "allocate" /\ sending' = sending
      /\ pc' \notin {"broadcast", "confirm", "height"}
  BY DEF Begin, Stop, Resolved, NotConfirmed, NothingNew, Sent
<1>6. OneInDoubt'
  BY <1>1, <1>4, <1>5 DEF JournalInv, OneInDoubt
<1> QED
  BY <1>1, <1>3, <1>6, NothingMoves DEF JournalInv, JournalTypes

(* What happens outside of a run: blocks and income.                       *)
LEMMA OutsideKeeps ==
  ASSUME JournalInv, NewBlock \/ Income
  PROVE  JournalInv'
<1>1. UNCHANGED <<owed, batches, pc, sending, reading, planned, txs, received, allocated, raced>>
  BY DEF NewBlock, Income, Raise, journal, run, chain, history
<1>2. height' \in Nat /\ balance' \in Nat /\ raised' \in Nat /\ height' >= height /\ balance' >= balance
  BY SizesAssumption DEF NewBlock, Income, Raise, JournalInv, JournalTypes, journal, run, chain, history
<1>3. JournalTypes'
  BY <1>1, <1>2 DEF JournalInv, JournalTypes
<1>4. Sent' = Sent
  BY <1>1 DEF Sent, WithStatus
<1>5. OneInDoubt'
  BY <1>1, <1>4 DEF JournalInv, OneInDoubt
<1> QED
  BY <1>1, <1>2, <1>3, <1>5, NothingMoves

(* The transaction leaves, or does not.                                    *)
LEMMA BroadcastKeeps == ASSUME JournalInv, Broadcast PROVE JournalInv'
<1> USE DEF JournalInv
<1>0. PlacesOf
  BY Places
<1> DEFINE t == batches[sending].tx
<1>1. sending \in Sent /\ t \in 1..Len(txs) /\ txs[t].state = "signed" /\ Sent = {sending}
  BY DEF Broadcast, OneInDoubt
<1>2. UNCHANGED <<journal, sending, reading, planned, height, balance, received, history>>
  BY DEF Broadcast
<1>3. CASE pc' = "resolve" /\ UNCHANGED txs
  <2>1. JournalTypes'
    BY <1>2, <1>3 DEF JournalTypes, journal, history
  <2>2. OneInDoubt'
    <3>1. Sent' = Sent
      BY <1>2 DEF Sent, WithStatus, journal
    <3> QED
      BY <1>2, <1>3, <3>1 DEF OneInDoubt, journal
  <2> QED
    BY <1>2, <1>3, <2>1, <2>2, NothingMoves DEF JournalTypes, journal, history
<1>4. CASE pc' = "confirm" /\ txs' = [txs EXCEPT ![t].state = "broadcast"]
  <2> DEFINE r == [txs[t] EXCEPT !.state = "broadcast"]
  <2>1. txs[t] \in Tx
    BY <1>1 DEF JournalTypes
  <2>2. r \in Tx /\ r.state = "broadcast" /\ r.payments = txs[t].payments /\ r.last = txs[t].last
    BY <2>1 DEF Tx
  <2>3. txs' = [txs EXCEPT ![t] = r]
    BY <1>4
  <2> HIDE DEF r, t
  <2>4. /\ txs' \in Seq(Tx) /\ Len(txs') = Len(txs)
        /\ \A n \in 1..Len(txs) : txs'[n] = IF n = t THEN r ELSE txs[n]
    BY <1>1, <2>2, <2>3, ExceptSeq DEF JournalTypes
  <2>5. JournalTypes'
    BY <1>2, <1>4, <2>4 DEF JournalTypes, journal, history
  <2>6. Sent' = Sent /\ Pending' = Pending
    BY <1>2 DEF Sent, Pending, WithStatus, journal
  <2>7. OneInDoubt'
    BY <1>1, <1>2, <1>4, <2>2, <2>4, <2>6 DEF OneInDoubt, journal, t
  <2>8. Unsettled = {} /\ Unsettled' = {}
    BY <1>1, <1>2, <2>2, <2>4, <2>6 DEF Unsettled, Sent, t, journal
  <2>9. PendingFits' /\ Accounted' /\ (~raced' => Owed' - InDoubt' <= balance')
    BY <1>2, <2>5, <2>6, <2>8, SumsStay DEF journal, history, JournalTypes
  <2>10. JournalFirst'
    <3>1. ASSUME NEW n \in DOMAIN txs', txs'[n].state = "broadcast", height' <= txs'[n].last
          PROVE  \E j \in Sent' : batches'[j].tx = n
      <4>1. CASE n = t
        BY <1>1, <1>2, <2>6, <4>1 DEF t, journal
      <4>2. CASE n # t
        <5>1. n \in DOMAIN txs /\ txs'[n] = txs[n]
          BY <2>4, <3>1, <4>2 DEF JournalTypes
        <5> QED
          BY <1>2, <2>6, <3>1, <5>1 DEF JournalFirst, Sent, journal
      <4> QED
        BY <4>1, <4>2
    <3> QED
      BY <3>1 DEF JournalFirst, Sent
  <2> QED
    BY <2>5, <2>7, <2>9, <2>10
<1> QED
  BY <1>3, <1>4 DEF Broadcast

(* All sent: the plan is done with.                                        *)
LEMMA AllSentKeeps == ASSUME JournalInv, AllSent PROVE JournalInv'
<1> USE DEF JournalInv
<1>0. PlacesOf /\ DoubtOf
  BY Places, Doubts
<1>1. /\ Sent = {} /\ Pending = {} /\ Unsettled = {}
      /\ batches' = <<>> /\ sending' = 0 /\ pc' \in {"idle", "allocate"}
      /\ UNCHANGED <<owed, reading, planned, chain, history>>
  BY DEF AllSent, OneInDoubt, Sent, Pending, Unsettled
<1>2. batches' \in Seq(Batch) /\ Len(batches') = 0 /\ DOMAIN batches' = {}
  BY <1>1
<1>3. JournalTypes'
  BY <1>1, <1>2 DEF JournalTypes, chain, history
<1>4. Sent' = {} /\ Pending' = {} /\ Unsettled' = {}
  BY <1>2 DEF Sent, Pending, Unsettled, WithStatus
<1>5. OneInDoubt'
  BY <1>1, <1>4 DEF OneInDoubt
<1>6. DoubtOf'
  <2>1. (JournalTypes /\ OneInDoubt)' => DoubtOf'
    BY Doubts, PTL
  <2> QED
    BY <1>3, <1>5, <2>1
<1>7. PendingFits'
  BY <1>1, <1>4, SumOfNone DEF PendingFits, JournalTypes
<1>8. Accounted'
  BY <1>0, <1>1, <1>4, <1>6 DEF Accounted, DoubtOf, chain, history
<1>9. JournalFirst'
  BY <1>1 DEF JournalFirst, Sent, chain
<1>10. Owed' = Owed /\ InDoubt = 0 /\ InDoubt' = 0
  BY <1>0, <1>1, <1>4, <1>6 DEF Owed, DoubtOf
<1> QED
  BY <1>1, <1>3, <1>5, <1>7, <1>8, <1>9, <1>10 DEF chain, history

(* allocateNew: only what is not spoken for.                               *)
LEMMA AllocateKeeps == ASSUME JournalInv, Allocate PROVE JournalInv'
<1> USE DEF JournalInv
<1>0. PlacesOf /\ DoubtOf
  BY Places, Doubts
<1>1. PICK shares : AllocateNew(shares)
  BY DEF Allocate
<1>2. /\ owed' = [w \in Holders |-> owed[w] + shares[w]]
      /\ allocated' = [w \in Holders |-> allocated[w] + shares[w]]
      /\ pc = "allocate" /\ pc' = "plan"
      /\ UNCHANGED <<batches, sending, reading, planned, chain, raised, raced>>
  BY <1>1 DEF AllocateNew
<1>3. shares \in [Holders -> Nat] /\ SumOf(shares) <= balance - totalOwed
  BY <1>1 DEF AllocateNew, Splits
<1>4. SumOf(shares) = FSum(shares, Holders) /\ totalOwed = Owed
  BY <1>3, SumOfIs DEF totalOwed, Owed, JournalTypes
<1>5. batches = <<>> /\ Sent = {} /\ Pending = {} /\ Unsettled = {} /\ DOMAIN batches = {}
  BY <1>2 DEF OneInDoubt, Sent, Pending, Unsettled, WithStatus
<1>6. Sent' = {} /\ Pending' = {} /\ Unsettled' = {}
  BY <1>2, <1>5 DEF Sent, Pending, Unsettled, WithStatus
<1>7. JournalTypes'
  BY <1>2, <1>3 DEF JournalTypes, chain
<1>8. OneInDoubt'
  BY <1>2, <1>5, <1>6 DEF OneInDoubt
<1>9. DoubtOf'
  <2>1. (JournalTypes /\ OneInDoubt)' => DoubtOf'
    BY Doubts, PTL
  <2> QED
    BY <1>7, <1>8, <2>1
<1>10. PendingFits'
  BY <1>6, <1>7, SumOfNone DEF PendingFits, JournalTypes
<1>11. Accounted'
  <2>1. ASSUME NEW w \in Holders
        PROVE  /\ received'[w] + owed'[w] >= allocated'[w] + Unbooked(w)'
               /\ ~raced' => received'[w] + owed'[w] = allocated'[w] + Unbooked(w)'
    <3>1. Unbooked(w) = 0 /\ Unbooked(w)' = 0
      BY <1>0, <1>5, <1>6, <1>9 DEF DoubtOf
    <3>2. /\ owed'[w] = owed[w] + shares[w] /\ allocated'[w] = allocated[w] + shares[w]
          /\ received'[w] = received[w] /\ raced' = raced
      BY <1>2 DEF chain
    <3>3. owed[w] \in Nat /\ shares[w] \in Nat /\ allocated[w] \in Nat /\ received[w] \in Nat
      BY <1>3 DEF JournalTypes
    <3>4. /\ received[w] + owed[w] >= allocated[w] + Unbooked(w)
          /\ ~raced => received[w] + owed[w] = allocated[w] + Unbooked(w)
      BY DEF Accounted
    <3> QED
      BY <3>1, <3>2, <3>3, <3>4
  <2> QED
    BY <2>1 DEF Accounted
<1>12. JournalFirst'
  BY <1>2, <1>5 DEF JournalFirst, WithStatus, chain
<1>13. Owed' = Owed + SumOf(shares) /\ Owed \in Nat /\ SumOf(shares) \in Nat
  <2>1. \A w \in Holders : owed[w] \in Int /\ shares[w] \in Int /\ owed'[w] = owed[w] + shares[w]
    BY <1>2, <1>3 DEF JournalTypes
  <2>2. FSum(owed', Holders) = FSum(owed, Holders) + FSum(shares, Holders)
    BY <2>1, SumPlus, SizesAssumption
  <2>3. FSum(shares, Holders) \in Nat
    BY <1>3, SumNat, SizesAssumption
  <2> QED
    BY <1>0, <1>4, <2>2, <2>3 DEF Owed, PlacesOf
<1>14. Owed' - InDoubt' <= balance'
  <2>1. InDoubt' = 0 /\ balance' = balance /\ balance \in Nat
    BY <1>2, <1>6, <1>9 DEF DoubtOf, chain, JournalTypes
  <2> QED
    BY <1>3, <1>4, <1>13, <2>1
<1> QED
  BY <1>7, <1>8, <1>10, <1>11, <1>12, <1>14

(* planPayouts: every holder is in one batch.                              *)
LEMMA ChunksApart ==
  ASSUME NEW order, NEW S, IsFiniteSet(S), order \in Orders(S),
         NEW i \in Nat \ {0}, NEW j \in Nat \ {0}, NEW w, w \in Chunk(order, i), w \in Chunk(order, j)
  PROVE  i = j
<1> DEFINE n == Cardinality(S)
           T == transfersPerTx
<1>1. n \in Nat /\ order \in [1..n -> S] /\ Len(order) = n
  <2>1. n \in Nat
    BY FS_CardinalityType
  <2>2. order \in [1..n -> S]
    BY DEF Orders
  <2> HIDE DEF n
  <2>3. order \in Seq(S)
    BY <2>1, <2>2
  <2> QED
    BY <2>1, <2>2, <2>3
<1>2. order \in Injection(1..n, S)
  <2>1. \A x \in S : \E k \in 1..n : order[k] = x
    BY <1>1 DEF Orders
  <2>2. order \in Surjection(1..n, S)
    BY <1>1, <2>1 DEF Surjection
  <2>3. IsFiniteSet(1..n) /\ Cardinality(1..n) = n
    BY <1>1, FS_Interval
  <2> QED
    BY <2>2, <2>3, FS_SurjSameCardinalityImpliesInj
<1>3. \A a, b \in 1..n : order[a] = order[b] => a = b
  BY <1>2 DEF Injection, IsInjective
<1> HIDE DEF n
<1>4. PICK a \in ((i - 1) * T + 1)..Smaller((i - 1) * T + 1 + T - 1, Len(order)) : order[a] = w
  BY DEF Chunk
<1>5. PICK b \in ((j - 1) * T + 1)..Smaller((j - 1) * T + 1 + T - 1, Len(order)) : order[b] = w
  BY DEF Chunk
<1>6. T \in Nat \ {0} /\ (i - 1) * T \in Nat /\ (j - 1) * T \in Nat
  BY SizesAssumption
<1> HIDE DEF T
<1>7. /\ a \in 1..n /\ (i - 1) * T < a /\ a <= (i - 1) * T + T
      /\ b \in 1..n /\ (j - 1) * T < b /\ b <= (j - 1) * T + T
  BY <1>1, <1>4, <1>5, <1>6 DEF Smaller
<1>8. a = b
  BY <1>3, <1>4, <1>5, <1>7
<1>9. ASSUME NEW k \in Nat \ {0}, NEW l \in Nat \ {0}, k < l PROVE (k - 1) * T + T <= (l - 1) * T
  <2>1. (l - 1) - k \in Nat /\ ((l - 1) - k) * T \in Nat
    BY <1>6, <1>9
  <2>2. (l - 1) * T = k * T + ((l - 1) - k) * T /\ (k - 1) * T + T = k * T /\ k * T \in Nat
    BY <1>6
  <2> QED
    BY <2>1, <2>2
<1> QED
  BY <1>6, <1>7, <1>8, <1>9

(* The holders' orders are finite sequences.                               *)
LEMMA OrdersAreSequences ==
  ASSUME NEW S, IsFiniteSet(S), NEW order \in Orders(S)
  PROVE  order \in Seq(S) /\ Len(order) \in Nat
<1> DEFINE n == Cardinality(S)
<1>1. n \in Nat /\ order \in [1..n -> S]
  BY FS_CardinalityType DEF Orders
<1> HIDE DEF n
<1> QED
  BY <1>1

(* New batches are planned from what is owed.                              *)
LEMMA PlanKeeps == ASSUME JournalInv, Plan PROVE JournalInv'
<1> USE DEF JournalInv
<1>0. PlacesOf /\ DoubtOf
  BY Places, Doubts
<1>1. PICK payable \in SUBSET Holders : PlanPayouts(payable)
  BY DEF Plan
<1>2. PICK order \in Orders(payable) :
          batches' = [i \in 1..((Len(order) + transfersPerTx - 1) \div transfersPerTx) |->
                         [payments |-> [w \in Chunk(order, i) |-> owed[w]],
                          status |-> "unsent", tx |-> 0]]
  BY <1>1 DEF PlanPayouts
<1>3. /\ pc = "plan" /\ pc' = "send" /\ planned' = TRUE
      /\ UNCHANGED <<owed, sending, reading, chain, history>>
  BY <1>1 DEF PlanPayouts
<1>4. IsFiniteSet(payable) /\ order \in Seq(payable) /\ Len(order) \in Nat
  BY FS_Subset, SizesAssumption, OrdersAreSequences
<1> DEFINE k == (Len(order) + transfersPerTx - 1) \div transfersPerTx
           b(i) == [payments |-> [w \in Chunk(order, i) |-> owed[w]], status |-> "unsent", tx |-> 0]
<1>5. k \in Nat
  BY <1>4, SizesAssumption
<1>6. ASSUME NEW i \in 1..k
      PROVE Chunk(order, i) \subseteq Holders /\ b(i) \in Batch /\ b(i).payments \in PaymentsTo
  <2>1. (i - 1) * transfersPerTx \in Nat
    BY <1>5, SizesAssumption
  <2> DEFINE first == (i - 1) * transfersPerTx + 1
             last == Smaller(first + transfersPerTx - 1, Len(order))
  <2>2. \A j \in first..last : j \in 1..Len(order)
    BY <1>4, <2>1, SizesAssumption DEF Smaller
  <2>3. Chunk(order, i) = {order[j] : j \in first..last}
    BY DEF Chunk
  <2> HIDE DEF first, last
  <2>4. Chunk(order, i) \subseteq Holders
    BY <1>4, <2>2, <2>3
  <2>5. [w \in Chunk(order, i) |-> owed[w]] \in PaymentsTo
    BY <2>4 DEF PaymentsTo, JournalTypes
  <2> QED
    BY <2>4, <2>5 DEF Batch, Statuses
<1>7. batches' = [i \in 1..k |-> b(i)]
  BY <1>2
<1> HIDE DEF k
<1>8. batches' \in Seq(Batch) /\ Len(batches') = k /\ DOMAIN batches' = 1..k
  <2> HIDE DEF b
  <2> QED
    BY <1>5, <1>6, <1>7
<1>9. \A i \in 1..k : /\ batches'[i].status = "unsent" /\ batches'[i].tx = 0
                      /\ batches'[i].payments = [w \in Chunk(order, i) |-> owed[w]]
  BY <1>7
<1>10. Sent' = {} /\ Unsettled' = {} /\ Pending' = 1..k
  BY <1>8, <1>9 DEF Sent, Unsettled, Pending, WithStatus
<1>11. batches = <<>> /\ sending = 0 /\ Unsettled = {} /\ Sent = {}
  BY <1>3 DEF OneInDoubt, Sent, Unsettled, WithStatus
<1>12. JournalTypes'
  <2>1. \A i \in 1..Len(batches') : batches'[i].tx \in 0..Len(txs')
    <3>1. txs' = txs /\ Len(txs) \in Nat
      BY <1>3 DEF JournalTypes, chain
    <3>2. ASSUME NEW i \in 1..Len(batches') PROVE batches'[i].tx = 0
      BY <1>8, <1>9, <3>2
    <3> QED
      BY <3>1, <3>2
  <2>2. sending' \in 0..Len(batches')
    BY <1>3, <1>5, <1>8, <1>11
  <2> QED
    BY <1>3, <1>8, <2>1, <2>2 DEF JournalTypes, chain, history
<1>13. OneInDoubt'
  BY <1>3, <1>10 DEF OneInDoubt
<1>14. DoubtOf'
  <2>1. (JournalTypes /\ OneInDoubt)' => DoubtOf'
    BY Doubts, PTL
  <2> QED
    BY <1>12, <1>13, <2>1
<1>15. PendingFits'
  <2>1. ASSUME NEW w \in Holders PROVE FSum(PaysTo(w)', Pending') <= owed'[w]
    <3>1. \A i \in 1..k : PaysTo(w)'[i] = IF w \in Chunk(order, i) THEN owed[w] ELSE 0
      BY <1>8, <1>9 DEF PaysTo, Pays
    <3>2. IsFiniteSet(1..k) /\ owed[w] \in Nat /\ owed'[w] = owed[w]
      BY <1>3, <1>5, FS_Interval DEF JournalTypes
    <3>3. CASE \E i \in 1..k : w \in Chunk(order, i)
      <4>1. PICK i \in 1..k : w \in Chunk(order, i)
        BY <3>3
      <4>2. \A j \in 1..k : w \in Chunk(order, j) => j = i
        <5>1. ASSUME NEW j \in 1..k, w \in Chunk(order, j) PROVE j = i
          <6>1. i \in Nat \ {0} /\ j \in Nat \ {0}
            BY <1>5
          <6> QED
            BY <1>4, <4>1, <5>1, <6>1, ChunksApart
        <5> QED
          BY <5>1
      <4>3. \A j \in (1..k) \ {i} : PaysTo(w)'[j] = 0
        BY <3>1, <4>2
      <4>4. PaysTo(w)'[i] = owed[w] /\ PaysTo(w)'[i] \in Int
        BY <3>1, <3>2, <4>1
      <4> DEFINE f == PaysTo(w)'
      <4> HIDE DEF f
      <4>5. FSum(f, 1..k) = FSum(f, {i})
        BY <3>2, <4>3, <4>4, SumSupport DEF f
      <4>6. FSum(f, {i}) = f[i]
        BY <4>4, SumOne DEF f
      <4> QED
        BY <1>10, <3>2, <4>4, <4>5, <4>6 DEF f
    <3>4. CASE ~ \E i \in 1..k : w \in Chunk(order, i)
      <4>1. \A i \in 1..k : PaysTo(w)'[i] = 0
        BY <3>1, <3>4
      <4>2. FSum(PaysTo(w)', 1..k) = 0
        BY <3>2, <4>1, SumZero
      <4> QED
        BY <1>10, <3>2, <4>2
    <3> QED
      BY <3>3, <3>4
  <2> QED
    BY <2>1 DEF PendingFits
<1>16. Accounted'
  BY <1>0, <1>3, <1>10, <1>11, <1>14 DEF Accounted, DoubtOf, chain, history
<1>17. JournalFirst'
  BY <1>3, <1>11 DEF JournalFirst, Sent, chain
<1>18. ~raced' => Owed' - InDoubt' <= balance'
  <2>1. Owed' = Owed /\ InDoubt = 0 /\ InDoubt' = 0
    BY <1>0, <1>3, <1>10, <1>11, <1>14 DEF Owed, DoubtOf
  <2> QED
    BY <1>3, <2>1 DEF chain, history
<1> QED
  BY <1>12, <1>13, <1>15, <1>16, <1>17, <1>18

(* The chain takes a transaction, or fails it.                             *)
LEMMA LandKeeps == ASSUME JournalInv, Landing PROVE JournalInv'
<1> USE DEF JournalInv
<1>0. PlacesOf /\ DoubtOf
  BY Places, Doubts
<1>1. PICK t \in DOMAIN txs : Land(t)
  BY DEF Landing
<1>2. /\ txs[t].state = "broadcast" /\ height <= txs[t].last
      /\ UNCHANGED <<journal, run, height, allocated, raised>>
  BY <1>1 DEF Land
<1>3. t \in 1..Len(txs) /\ txs[t] \in Tx /\ DOMAIN txs = 1..Len(txs)
  BY DEF JournalTypes
<1>4. PICK i \in Sent : batches[i].tx = t
  BY <1>2 DEF JournalFirst, Sent
<1>5. Sent = {i} /\ i \in DOMAIN batches /\ Unsettled = {} /\ batches[i].payments = txs[t].payments
  BY <1>0, <1>2, <1>4 DEF OneInDoubt, Unsettled, PlacesOf
<1>6. Sent' = {i} /\ Pending' = Pending
  BY <1>2, <1>5 DEF Sent, Pending, WithStatus, journal
<1> DEFINE p == batches[i].payments
<1>7. /\ p \in PaymentsTo /\ SumOf(p) \in Nat /\ p = txs[t].payments
      /\ \A w \in Holders : Pays(p, w) \in Nat
  BY <1>0, <1>5, SumOfPayments DEF PlacesOf
<1> HIDE DEF p
<1> DEFINE paid == SumOf(p) <= balance
           became == IF paid THEN "landed" ELSE "failed"
           r == [txs[t] EXCEPT !.state = became]
<1>8. txs' = [txs EXCEPT ![t] = r]
  BY <1>1, <1>7 DEF Land
<1>9. r \in Tx /\ r.state = became /\ r.payments = p /\ r.last = txs[t].last
  BY <1>3, <1>7 DEF Tx
<1> HIDE DEF r
<1>10. /\ txs' \in Seq(Tx) /\ Len(txs') = Len(txs)
       /\ \A n \in 1..Len(txs) : txs'[n] = IF n = t THEN r ELSE txs[n]
  BY <1>3, <1>8, <1>9, ExceptSeq DEF JournalTypes
<1>11. JournalFirst'
  <2>1. ASSUME NEW n \in DOMAIN txs', txs'[n].state = "broadcast", height' <= txs'[n].last
        PROVE  \E j \in Sent' : batches'[j].tx = n
    <3>1. n \in DOMAIN txs /\ n # t /\ txs'[n] = txs[n]
      <4>1. n \in 1..Len(txs)
        BY <1>10, <2>1
      <4>2. became # "broadcast"
        OBVIOUS
      <4> QED
        BY <1>3, <1>9, <1>10, <2>1, <4>1, <4>2
    <3> QED
      BY <1>2, <1>5, <1>6, <2>1, <3>1 DEF JournalFirst, Sent, journal
  <2> QED
    BY <2>1 DEF JournalFirst, Sent
<1>12. CASE ~paid
  <2>1. UNCHANGED <<received, balance, raced>>
    BY <1>1, <1>7, <1>12 DEF Land
  <2>2. JournalTypes'
    BY <1>2, <1>10, <2>1 DEF JournalTypes, journal, run
  <2>3. OneInDoubt'
    <3>1. \A j \in Sent' : batches'[j].tx \in 1..Len(txs') /\ txs'[batches'[j].tx].payments = batches'[j].payments
      BY <1>2, <1>3, <1>4, <1>6, <1>7, <1>9, <1>10 DEF journal, p
    <3>2. pc # "broadcast"
      BY <1>2, <1>4, <1>5 DEF OneInDoubt
    <3>3. pc' = "height" => reading' \in Sent' /\ txs'[batches'[reading'].tx].state # "landed"
      BY <1>2, <1>3, <1>4, <1>5, <1>6, <1>9, <1>10, <1>12 DEF OneInDoubt, journal, run
    <3> QED
      BY <1>2, <1>5, <1>6, <3>1, <3>2, <3>3 DEF OneInDoubt, journal, run
  <2>4. Unsettled' = {}
    BY <1>2, <1>4, <1>6, <1>9, <1>10, <1>12, <1>3 DEF Unsettled, Sent, journal
  <2>5. PendingFits' /\ Accounted' /\ (~raced' => Owed' - InDoubt' <= balance')
    BY <1>2, <1>5, <1>6, <2>1, <2>2, <2>4, SumsStay DEF journal, run, JournalTypes
  <2> QED
    BY <1>11, <2>2, <2>3, <2>5
<1>13. CASE paid
  <2>1. /\ received' = [w \in Holders |-> received[w] + Pays(p, w)]
        /\ balance' = balance - SumOf(p)
        /\ raced' = (raced \/ (pc = "height" /\ batches[reading].tx = t))
    BY <1>1, <1>7, <1>13 DEF Land
  <2>2. received' \in [Holders -> Nat] /\ balance' \in Nat /\ raced' \in BOOLEAN
    BY <1>7, <1>13, <2>1 DEF JournalTypes
  <2>3. JournalTypes'
    BY <1>2, <1>10, <2>2 DEF JournalTypes, journal, run
  <2>4. OneInDoubt'
    <3>1. pc' = "height" => reading' \in Sent' /\ raced'
      BY <1>2, <1>4, <1>5, <1>6, <2>1 DEF OneInDoubt, run
    <3>2. \A j \in Sent' : batches'[j].tx \in 1..Len(txs') /\ txs'[batches'[j].tx].payments = batches'[j].payments
      BY <1>2, <1>3, <1>4, <1>6, <1>9, <1>10 DEF journal, p
    <3>3. pc # "broadcast"
      BY <1>2, <1>4, <1>5 DEF OneInDoubt
    <3> QED
      BY <1>2, <1>5, <1>6, <3>1, <3>2, <3>3 DEF OneInDoubt, journal, run
  <2>5. Unsettled' = {i}
    BY <1>2, <1>3, <1>4, <1>6, <1>9, <1>10, <1>13 DEF Unsettled, Sent, journal
  <2>6. DoubtOf'
    <3>1. (JournalTypes /\ OneInDoubt)' => DoubtOf'
      BY Doubts, PTL
    <3> QED
      BY <2>3, <2>4, <3>1
  <2>7. InDoubt' = SumOf(p) /\ InDoubt = 0
        /\ \A w \in Holders : Unbooked(w)' = Pays(p, w) /\ Unbooked(w) = 0
    BY <1>0, <1>2, <1>5, <2>5, <2>6 DEF DoubtOf, journal, p
  <2>8. PendingFits'
    <3>1. \A w \in Holders : PaysTo(w)' = PaysTo(w)
      BY <1>2 DEF PaysTo, journal
    <3> QED
      BY <1>2, <1>6, <3>1 DEF PendingFits, journal
  <2>9. Accounted'
    <3>1. ASSUME NEW w \in Holders
          PROVE  /\ received'[w] + owed'[w] >= allocated'[w] + Unbooked(w)'
                 /\ ~raced' => received'[w] + owed'[w] = allocated'[w] + Unbooked(w)'
      <4>1. Unbooked(w)' = Pays(p, w) /\ Unbooked(w) = 0 /\ Pays(p, w) \in Nat
        BY <1>7, <2>7
      <4>2. received'[w] = received[w] + Pays(p, w) /\ owed' = owed /\ allocated' = allocated
            /\ (~raced' => ~raced)
        BY <1>2, <2>1 DEF journal
      <4>3. owed[w] \in Nat /\ allocated[w] \in Nat /\ received[w] \in Nat
        BY DEF JournalTypes
      <4>4. /\ received[w] + owed[w] >= allocated[w] + Unbooked(w)
            /\ ~raced => received[w] + owed[w] = allocated[w] + Unbooked(w)
        BY DEF Accounted
      <4> QED
        BY <4>1, <4>2, <4>3, <4>4
    <3> QED
      BY <3>1 DEF Accounted
  <2>10. ~raced' => Owed' - InDoubt' <= balance'
    <3>1. Owed' = Owed /\ Owed \in Nat /\ balance \in Nat
      BY <1>0, <1>2 DEF Owed, PlacesOf, journal, JournalTypes
    <3>2. ~raced' => Owed - InDoubt <= balance
      BY <2>1
    <3>3. balance' = balance - SumOf(p) /\ InDoubt' = SumOf(p) /\ InDoubt = 0 /\ SumOf(p) \in Nat
      BY <1>7, <2>1, <2>7
    <3> QED
      BY <3>1, <3>2, <3>3
  <2> QED
    BY <1>11, <2>3, <2>4, <2>8, <2>9, <2>10
<1> QED
  BY <1>12, <1>13

-----------------------------------------------------------------------------
(* It holds at first, and no step breaks it.                               *)
LEMMA JournalInit == Init => JournalInv
<1> SUFFICES ASSUME Init PROVE JournalInv
  OBVIOUS
<1>1. batches = <<>> /\ txs = <<>> /\ DOMAIN batches = {} /\ DOMAIN txs = {}
  BY DEF Init
<1>2. JournalTypes
  <2>1. batches \in Seq(Batch) /\ txs \in Seq(Tx) /\ Len(batches) = 0 /\ Len(txs) = 0
    BY <1>1
  <2>2. \A i \in 1..Len(batches) : batches[i].tx \in 0..Len(txs)
    BY <2>1
  <2>3. sending \in 0..Len(batches)
    BY <2>1 DEF Init
  <2> QED
    BY <2>1, <2>2, <2>3 DEF Init, JournalTypes
<1>3. Sent = {} /\ Pending = {} /\ Unsettled = {}
  BY <1>1 DEF Sent, Pending, Unsettled, WithStatus
<1>4. OneInDoubt
  BY <1>3 DEF Init, OneInDoubt
<1>5. DoubtOf
  BY <1>2, <1>4, Doubts
<1>6. PendingFits
  BY <1>3, SumOfNone DEF PendingFits, Init
<1>7. Accounted
  BY <1>3, <1>5 DEF Accounted, DoubtOf, Init
<1>8. Owed = 0
  BY SumZero, SizesAssumption DEF Owed, Init
<1> QED
  BY <1>1, <1>2, <1>3, <1>4, <1>5, <1>6, <1>7, <1>8 DEF JournalInv, JournalFirst, DoubtOf, Init

(* No step breaks it.                                                      *)
LEMMA JournalStep == JournalInv /\ [Next]_vars => JournalInv'
<1> SUFFICES ASSUME JournalInv, [Next]_vars PROVE JournalInv'
  OBVIOUS
<1>1. CASE Begin \/ Stop \/ Resolved \/ NotConfirmed \/ NothingNew
  BY <1>1, RunKeeps
<1>2. CASE ResolveStatus
  BY <1>2, ResolveStatusKeeps
<1>3. CASE ResolveHeight
  BY <1>3, ResolveHeightKeeps
<1>4. CASE SendBatch
  BY <1>4, SendBatchKeeps
<1>5. CASE Broadcast
  BY <1>5, BroadcastKeeps
<1>6. CASE Confirmed
  BY <1>6, ConfirmedKeeps
<1>7. CASE AllSent
  BY <1>7, AllSentKeeps
<1>8. CASE Allocate
  BY <1>8, AllocateKeeps
<1>9. CASE Plan
  BY <1>9, PlanKeeps
<1>10. CASE Landing
  BY <1>10, LandKeeps
<1>11. CASE NewBlock \/ Income
  BY <1>11, OutsideKeeps
<1>12. CASE UNCHANGED vars
  <2>1. JournalTypes'
    BY <1>12 DEF vars, journal, run, chain, history, JournalInv, JournalTypes
  <2>2. Sent' = Sent
    BY <1>12 DEF vars, journal, Sent, WithStatus
  <2>3. OneInDoubt'
    BY <1>12, <2>2 DEF vars, journal, run, chain, history, JournalInv, OneInDoubt
  <2> QED
    BY <1>12, <2>1, <2>3, NothingMoves DEF vars, journal, run, chain, history, JournalInv, JournalTypes
<1> QED
  BY <1>1, <1>2, <1>3, <1>4, <1>5, <1>6, <1>7, <1>8, <1>9, <1>10, <1>11, <1>12 DEF Next

(* The journal is sound in every reachable state: its types, its one batch *)
(* in doubt, and its sums (sendPayouts, resolvePending, planPayouts).      *)
THEOREM JournalSound == Spec => []JournalInv
  BY JournalInit, JournalStep, PTL DEF Spec

(* The types are those the runs check.                                     *)
LEMMA JournalTypesOK == JournalTypes => TypeOK
<1> SUFFICES ASSUME JournalTypes PROVE TypeOK
  OBVIOUS
<1>0. PlacesOf
  BY Places
<1>1. ASSUME NEW p \in PaymentsTo PROVE Payments(p)
  BY DEF PaymentsTo, Payments
<1>2. \A i \in DOMAIN batches : batches[i].payments \in PaymentsTo /\ batches[i].status \in Statuses
      /\ batches[i].tx \in 0..Len(txs)
  BY <1>0 DEF PlacesOf, Batch, JournalTypes
<1>3. \A t \in DOMAIN txs : txs[t] \in Tx
  BY DEF JournalTypes
<1>4. \A t \in DOMAIN txs : txs[t].payments \in PaymentsTo /\ txs[t].last \in Nat
          /\ txs[t].state \in {"signed", "broadcast", "landed", "failed"}
  BY <1>3 DEF Tx
<1> QED
  BY <1>1, <1>2, <1>4 DEF TypeOK, JournalTypes, Statuses

(* sendPayouts, resolvePending: unless a payout landed between the two reads*)
(* of its own fate, no holder gets more than was ever allocated to it, and *)
(* the wallet holds what is owed.                                          *)
THEOREM AlwaysPaidOnce == Spec => [](PaidOnceUnlessRaced)
<1>1. JournalInv => PaidOnceUnlessRaced
  <2> SUFFICES ASSUME JournalInv, ~raced PROVE NeverPaidTwice /\ OwedIsCovered
    BY DEF PaidOnceUnlessRaced
  <2>0. PlacesOf /\ DoubtOf
    BY Places, Doubts DEF JournalInv
  <2>1. ASSUME NEW w \in Holders PROVE received[w] <= allocated[w]
    <3>1. Unbooked(w) <= FSum(PaysTo(w), Pending)
      <4>1. \A i \in Pending : PaysTo(w)[i] \in Nat
        BY <2>0 DEF PlacesOf
      <4>2. Unsettled \in SUBSET Pending /\ IsFiniteSet(Pending)
        BY <2>0 DEF PlacesOf
      <4> QED
        BY <4>1, <4>2, SumSubset DEF Unbooked
    <3>2. FSum(PaysTo(w), Pending) \in Nat
      BY <2>0, SumNat DEF PlacesOf
    <3>3. FSum(PaysTo(w), Pending) <= owed[w]
      BY DEF JournalInv, PendingFits
    <3>4. received[w] + owed[w] = allocated[w] + Unbooked(w)
      BY DEF JournalInv, Accounted
    <3>5. owed[w] \in Nat /\ allocated[w] \in Nat /\ received[w] \in Nat /\ Unbooked(w) \in Nat
      BY <2>0 DEF JournalInv, JournalTypes, DoubtOf
    <3> QED
      BY <3>1, <3>2, <3>3, <3>4, <3>5
  <2>2. totalOwed = Owed
    BY SumOfIs DEF totalOwed, Owed, JournalInv, JournalTypes
  <2>3. UnsettledSum = InDoubt
    BY DEF UnsettledSum, FSum, InDoubt
  <2> QED
    BY <2>1, <2>2, <2>3 DEF NeverPaidTwice, OwedIsCovered, JournalInv
<1> QED
  BY <1>1, JournalSound, PTL

(* settle, addOwed: an allocation is paid or still owed, whatever crashes  *)
(* and whatever is sent again.                                             *)
THEOREM NothingIsLost == Spec => []NothingLost
<1>1. JournalInv => NothingLost
  <2> SUFFICES ASSUME JournalInv, NEW w \in Holders PROVE received[w] + owed[w] >= allocated[w]
    BY DEF NothingLost
  <2>1. Unbooked(w) \in Nat
    BY Doubts DEF JournalInv, DoubtOf
  <2> QED
    BY <2>1 DEF JournalInv, JournalTypes, Accounted
<1> QED
  BY <1>1, JournalSound, PTL

(* sendPayouts, resolvePending: whatever a crash leaves, a restart can     *)
(* resume from the journal; it overlooks no payment and settling one never *)
(* throws.                                                                 *)
THEOREM AlwaysResumes == Spec => []JournalResumes
<1>1. JournalInv => SettlingNeverThrows
  <2>1. JournalInv => \A w \in Holders : FSum(PaysTo(w), Pending) <= owed[w]
    BY DEF JournalInv, PendingFits
  <2> QED
    BY <2>1 DEF SettlingNeverThrows, FSum, PaysTo, Pending, Sent
<1> QED
  BY <1>1, JournalSound, JournalTypesOK, PTL DEF JournalResumes, JournalInv


(* HolderPool's total is the model's sum.                                  *)
LEMMA TotalIsSum == ASSUME NEW f PROVE Promise!Total(f) = FSum(f, DOMAIN f)
BY DEF Promise!Total, Promise!FoldFunction, Promise!FoldFunctionOnSet, FoldFunctionOnSet, FSum,
       Promise!MapThenFoldSet, MapThenFoldSet

(* What sales brought in is in the wallet or with holders.                 *)
Received == FSum(received, Holders)
Allocated == FSum(allocated, Holders)
WalletAdds == balance + Received = raised

(* The sums' types, and what no race lets holders have.                    *)
LEMMA PromisedSums ==
  ASSUME JournalInv
  PROVE  /\ Received \in Nat /\ Allocated \in Nat
         /\ SumOf(allocated) = Allocated /\ Promise!Total(received) = Received
         /\ PaidOnceUnlessRaced => (~raced => Received <= Allocated)
<1>1. received \in [Holders -> Nat] /\ allocated \in [Holders -> Nat]
  BY DEF JournalInv, JournalTypes
<1>2. Received \in Nat /\ Allocated \in Nat
  BY <1>1, SizesAssumption, SumNat DEF Received, Allocated
<1>3. SumOf(allocated) = Allocated /\ Promise!Total(received) = Received
  BY <1>1, SumOfIs, TotalIsSum DEF Received, Allocated
<1>4. ASSUME NeverPaidTwice PROVE Received <= Allocated
  <2>1. \A w \in Holders : received[w] \in Int /\ allocated[w] \in Int /\ received[w] <= allocated[w]
    BY <1>1, <1>4 DEF NeverPaidTwice
  <2> QED
    BY <2>1, SizesAssumption, SumMonotone DEF Received, Allocated
<1> QED
  BY <1>2, <1>3, <1>4 DEF PaidOnceUnlessRaced

(* The same, also in the next state.                                       *)
PromisedHere ==
  /\ Received \in Nat /\ Allocated \in Nat /\ SumOf(allocated) = Allocated
  /\ Promise!Total(received) = Received /\ Received <= Allocated
  /\ balance \in Nat /\ raised \in Nat

LEMMA PromisedHolds == JournalInv /\ PaidOnceUnlessRaced /\ ~raced => PromisedHere
BY PromisedSums DEF JournalInv, JournalTypes, PromisedHere

LEMMA PromisedNext == (JournalInv /\ PaidOnceUnlessRaced /\ ~raced)' => PromisedHere'
BY PromisedHolds, PTL

(* A payout that lands moves as much out of the wallet as holders get.     *)
LEMMA LandMoves ==
  ASSUME JournalInv, JournalInv', NEW t \in DOMAIN txs, Land(t)
  PROVE  /\ balance' + Received' = balance + Received /\ Received <= Received'
         /\ \A w \in Holders : received'[w] >= received[w]
         /\ Received' = Received => received' = received
<1>1. received \in [Holders -> Nat] /\ received' \in [Holders -> Nat] /\ balance \in Nat
  BY DEF JournalInv, JournalTypes
<1>2. CASE UNCHANGED <<received, balance>>
  <2>1. Received' = Received
    BY <1>2 DEF Received
  <2>2. Received \in Nat
    BY PromisedSums
  <2> QED
    BY <1>1, <1>2, <2>1, <2>2
<1>3. CASE ~UNCHANGED <<received, balance>>
  <2> DEFINE p == txs[t].payments
             gain == [w \in Holders |-> Pays(p, w)]
  <2>1. /\ received' = [w \in Holders |-> received[w] + Pays(p, w)]
        /\ balance' = balance - SumOf(p)
    BY <1>3 DEF Land
  <2>2. txs[t] \in Tx
    BY DEF JournalInv, JournalTypes
  <2>3. p \in PaymentsTo
    BY <2>2 DEF Tx
  <2> HIDE DEF p
  <2>4. /\ SumOf(p) \in Nat /\ FSum(gain, Holders) = SumOf(p)
        /\ \A w \in Holders : Pays(p, w) \in Nat
    BY <2>3, SumOfPayments
  <2>5. \A w \in Holders : gain[w] \in Nat /\ received'[w] = received[w] + gain[w] /\ received[w] \in Nat
    BY <1>1, <2>1, <2>4
  <2> HIDE DEF gain
  <2> DEFINE after == received'
  <2>6. after = received' /\ \A w \in Holders : received[w] \in Int /\ gain[w] \in Int /\ after[w] = received[w] + gain[w]
    BY <2>5
  <2> HIDE DEF after
  <2>7. FSum(after, Holders) = FSum(received, Holders) + FSum(gain, Holders)
    BY <2>6, SizesAssumption, SumPlus
  <2>8. Received' = Received + SumOf(p) /\ Received \in Nat
    BY <2>4, <2>6, <2>7, PromisedSums DEF Received
  <2>9. ASSUME SumOf(p) = 0 PROVE received' = received
    <3>1. \A w \in Holders : gain[w] <= FSum(gain, Holders)
      BY <2>5, SizesAssumption, SumTerm
    <3>2. \A w \in Holders : gain[w] = 0
      BY <2>4, <2>5, <2>9, <3>1
    <3>3. \A w \in Holders : received'[w] = received[w]
      BY <2>5, <3>2
    <3> QED
      BY <1>1, <3>3
  <2>10. \A w \in Holders : received'[w] >= received[w]
    BY <2>5
  <2> QED
    BY <1>1, <2>1, <2>4, <2>8, <2>9, <2>10
<1> QED
  BY <1>2, <1>3

(* Steps that move no money to or from the wallet.                         *)
LEMMA OthersMoveNothing ==
  ASSUME [Next]_vars, ~Landing, ~Income
  PROVE  UNCHANGED <<received, balance, raised>>
BY DEF Next, Begin, Stop, ResolveStatus, ResolveHeight, Resolved, SendBatch, Broadcast, Confirmed, NotConfirmed,
   AllSent, Allocate, AllocateNew, NothingNew, Plan, PlanPayouts, NewBlock, chain, history, vars

(* Only allocating changes what was allocated.                             *)
LEMMA OthersAllocateNothing ==
  ASSUME [Next]_vars, ~Allocate
  PROVE  allocated' = allocated
BY DEF Next, Begin, Stop, ResolveStatus, ResolveHeight, Resolved, SendBatch, Broadcast, Confirmed, NotConfirmed,
   AllSent, NothingNew, Plan, PlanPayouts, NewBlock, Landing, Land, Income, Raise, chain, history, vars

(* Income reaches no holder.                                               *)
LEMMA IncomeLeavesHolders == Income => received' = received
BY DEF Income, Raise

(* Each step keeps the wallet's sum.                                       *)
LEMMA WalletKeeps ==
  ASSUME JournalInv, JournalInv', WalletAdds, [Next]_vars
  PROVE  WalletAdds'
<1>1. Received \in Nat /\ balance \in Nat /\ raised \in Nat
  BY PromisedSums DEF JournalInv, JournalTypes
<1>2. CASE Landing
  <2>1. PICK t \in DOMAIN txs : Land(t)
    BY <1>2 DEF Landing
  <2>2. raised' = raised
    BY <2>1 DEF Land
  <2> QED
    BY <2>1, <2>2, LandMoves DEF WalletAdds
<1>3. CASE Income
  <2>1. PICK amount \in Pots : Raise(amount)
    BY <1>3 DEF Income
  <2>2. received' = received /\ raised' = raised + amount /\ balance' = balance + amount /\ amount \in Nat
    BY <2>1, SizesAssumption DEF Raise
  <2>3. Received' = Received
    BY <2>2 DEF Received
  <2> QED
    BY <1>1, <2>2, <2>3 DEF WalletAdds
<1>4. CASE ~Landing /\ ~Income
  <2>1. UNCHANGED <<received, balance, raised>>
    BY <1>4, OthersMoveNothing
  <2>2. Received' = Received
    BY <2>1 DEF Received
  <2> QED
    BY <2>1, <2>2 DEF WalletAdds
<1> QED
  BY <1>2, <1>3, <1>4

(* What is not left was taken.                                             *)
LEMMA TheRest ==
  ASSUME NEW all \in Nat, NEW left \in Nat, NEW taken \in Nat, left + taken = all
  PROVE  all - left = taken
OBVIOUS

(* Every step maps to a step of the promise, or to none.                   *)
LEMMA PaysStep ==
  ASSUME JournalInv, JournalInv', WalletAdds, WalletAdds', PaidOnceUnlessRaced', ~raced', [Next]_vars
  PROVE  Promise!PoolNext \/ UNCHANGED Promise!pool
<1>1. /\ Received \in Nat /\ Allocated \in Nat /\ SumOf(allocated) = Allocated
      /\ Promise!Total(received) = Received
      /\ balance \in Nat /\ raised \in Nat
  BY PromisedSums DEF JournalInv, JournalTypes
<1>2. /\ Received' \in Nat /\ Allocated' \in Nat /\ SumOf(allocated)' = Allocated'
      /\ Promise!Total(received)' = Received' /\ Received' <= Allocated'
      /\ balance' \in Nat /\ raised' \in Nat
  BY PromisedNext DEF PromisedHere
<1>3. raised - balance = Received /\ (raised - balance)' = Received'
  <2>1. balance + Received = raised /\ balance' + Received' = raised'
    BY DEF WalletAdds
  <2>2. raised - balance = Received
    BY <1>1, <2>1, TheRest
  <2>3. raised' - balance' = Received'
    BY <1>2, <2>1, TheRest
  <2> QED
    BY <2>2, <2>3
<1>4. CASE Landing
  <2>1. PICK t \in DOMAIN txs : Land(t)
    BY <1>4 DEF Landing
  <2>2. allocated' = allocated
    BY <2>1 DEF Land
  <2>3. SumOf(allocated)' = SumOf(allocated) /\ Allocated' = Allocated
    BY <2>2 DEF Allocated
  <2>4. /\ Received <= Received' /\ \A w \in Holders : received'[w] >= received[w]
        /\ Received' = Received => received' = received
    BY <2>1, LandMoves
  <2>5. CASE Received' = Received
    BY <1>3, <2>3, <2>4, <2>5 DEF Promise!pool
  <2>6. CASE Received' # Received
    <3>1. Received < Received' /\ Received' <= Allocated
      BY <1>1, <1>2, <2>3, <2>4, <2>6
    <3>2. Promise!Total(received') - Promise!Total(received) = Received' - Received
      BY <1>1, <1>2
    <3>3. Promise!PayMany
      BY <1>1, <1>2, <1>3, <2>3, <2>4, <3>1, <3>2 DEF Promise!PayMany
    <3> QED
      BY <3>3 DEF Promise!PoolNext
  <2> QED
    BY <2>5, <2>6
<1>5. CASE Allocate
  <2>1. PICK shares \in [Holders -> 0..MaxRaised] : AllocateNew(shares)
    BY <1>5 DEF Allocate
  <2>2. /\ shares \in Splits(balance - totalOwed)
        /\ allocated' = [w \in Holders |-> allocated[w] + shares[w]]
        /\ UNCHANGED <<received, balance, raised>>
    BY <2>1 DEF AllocateNew, chain
  <2>3. 0 < FSum(shares, Holders)
    BY <2>1, <2>2, SumOfIs DEF Splits
  <2>4. Allocated' = Allocated + FSum(shares, Holders) /\ FSum(shares, Holders) \in Int
    <3>1. \A w \in Holders : shares[w] \in 0..MaxRaised
      BY <2>1
    <3> DEFINE after == allocated'
    <3>2. \A w \in Holders : allocated[w] \in Int /\ shares[w] \in Int /\ after[w] = allocated[w] + shares[w]
      BY <2>2, <3>1 DEF JournalInv, JournalTypes
    <3> HIDE DEF after
    <3>3. FSum(after, Holders) = FSum(allocated, Holders) + FSum(shares, Holders) /\ FSum(shares, Holders) \in Int
      BY <3>2, SizesAssumption, SumPlus, SumType
    <3> QED
      BY <3>3 DEF Allocated, after
  <2>5. Allocated' > Allocated
    BY <1>1, <2>3, <2>4
  <2>6. Received' = Received
    BY <2>2 DEF Received
  <2>7. Promise!Fund
    BY <1>1, <1>2, <1>3, <2>2, <2>5, <2>6 DEF Promise!Fund
  <2> QED
    BY <2>7 DEF Promise!PoolNext
<1>6. CASE ~Landing /\ ~Allocate
  <2>1. allocated' = allocated /\ received' = received
    BY <1>6, OthersAllocateNothing, OthersMoveNothing, IncomeLeavesHolders
  <2>2. Received' = Received /\ SumOf(allocated)' = SumOf(allocated)
    BY <2>1 DEF Received
  <2> QED
    BY <1>3, <2>1, <2>2 DEF Promise!pool
<1> QED
  BY <1>4, <1>5, <1>6

(* sendPayouts, resolvePending: but for a payout that lands between the    *)
(* reads of its own fate, the payout journal implements HolderPool: what   *)
(* left the wallet reached holders in full, out of what was allocated to   *)
(* them, however runs end and resume.                                      *)
THEOREM JournalKeepsPromise == Spec => PaysPromise
<1>1. Init => Promise!PoolInit /\ WalletAdds
  <2> SUFFICES ASSUME Init PROVE Promise!PoolInit /\ WalletAdds
    OBVIOUS
  <2>1. \A w \in Holders : received[w] = 0 /\ allocated[w] = 0
    BY DEF Init
  <2>2. Received = 0 /\ Allocated = 0
    BY <2>1, SizesAssumption, SumZero DEF Received, Allocated
  <2>3. SumOf(allocated) = Allocated
    BY JournalInit, PromisedSums
  <2> QED
    BY <2>2, <2>3 DEF Init, Promise!PoolInit, WalletAdds
<1>2. JournalInv /\ JournalInv' /\ WalletAdds /\ [Next]_vars => WalletAdds'
  BY WalletKeeps
<1>3. JournalInv /\ JournalInv' /\ WalletAdds /\ WalletAdds' /\ PaidOnceUnlessRaced' /\ ~raced' /\ [Next]_vars
        => [Promise!PoolNext]_(Promise!pool)
  BY PaysStep
<1> QED
  BY <1>1, <1>2, <1>3, JournalSound, AlwaysPaidOnce, PTL DEF Spec, PaysPromise, Promise!PoolSpec

-----------------------------------------------------------------------------
(* TaxCycle.                                                               *)

(* The books and the wallet as functions of their fields.                  *)
BookNames == {"lpKeep", "lpSell", "burn", "creatorSell", "lpPair", "creatorPair", "creatorXnt", "reward", "owed"}
Books == [BookNames -> Nat]
Accounts == {"token", "xnt", "pair", "reward"}
Wallets == [Accounts -> Nat]

(* What a journaled transaction may be.                                    *)
Kinds == {"withdraw", "burn", "sell", "lp", "quote-swap", "creator-swap", "creator"}
EntryTypes(e) == e.kind \in Kinds /\ e.in \in Nat /\ e.out \in Nat /\ e.lp \in Nat /\ e.creator \in Nat

(* The stage that journals it.                                             *)
StageOf(kind) ==
  CASE kind = "withdraw" -> "harvest" [] kind = "burn" -> "burnTax" [] kind = "sell" -> "sell"
    [] kind = "lp" -> "autoLp" [] kind = "quote-swap" -> "swapQuote" [] OTHER -> "creatorReward"

(* What books b promise beyond what wallet w holds, of tokens and of what  *)
(* they are sold for.                                                      *)
TokensOver(w, b) == AtLeast0(b.lpKeep + b.lpSell + b.burn + b.creatorSell - w.token)
(* What is promised of proceeds beyond what the wallet holds.              *)
ProceedsOver(w, b) ==
  AtLeast0(IF paired THEN b.lpPair + b.creatorPair - w.pair ELSE b.owed + b.creatorXnt + b.lpPair - w.xnt)

(* Rounding promises one unit too much at most per sale, of the one or the *)
(* other: what is over in tokens is over in proceeds once they are sold.   *)
AllSetAside(w, b, n) ==
  /\ TokensOver(w, b) + ProceedsOver(w, b) <= n
  /\ paired => b.owed + b.creatorXnt <= w.xnt
  /\ b.reward <= w.reward

(* An entry still in flight was made from these accounts and books.        *)
EntryFits(e, w, b) ==
  LET tokens == w.token - b.lpKeep - b.burn
      pair == w.pair - b.lpPair
  IN /\ e.kind = "burn" => e.in <= b.burn
     /\ e.kind = "sell" => /\ e.in \in 1..tokens /\ e.out <= e.in
                           /\ e.lp = ShareOf(b.lpSell, e.in, tokens)
                           /\ e.creator = ShareOf(b.creatorSell, e.in, tokens)
     /\ e.kind = "lp" => e.in <= b.lpKeep /\ e.out <= b.lpPair
     /\ e.kind = "quote-swap" => /\ paired /\ e.in \in 1..pair /\ e.out = e.in
                                 /\ e.creator = ShareOf(b.creatorPair, e.in, pair)
     /\ e.kind = "creator-swap" => otherReward /\ e.in = b.creatorXnt /\ e.out = e.in
     /\ e.kind = "creator" => e.in = IF otherReward THEN b.reward ELSE b.creatorXnt

(* The inductive invariant.  A transaction that landed and is not yet booked*)
(* is as if booked.                                                        *)
TaxInv ==
  /\ paired \in BOOLEAN /\ otherReward \in BOOLEAN /\ past \in BOOLEAN /\ taxRaced \in BOOLEAN
  /\ wallet \in Wallets /\ books \in Books /\ sales \in Nat
  /\ onChain \in {"none", "signed", "sent", "ok", "err"}
  /\ Free <=> onChain = "none"
  /\ ~Free => EntryTypes(inflight) /\ (stage \notin {"idle", "resolve"} => stage = StageOf(inflight.kind))
  /\ ~Free /\ onChain # "ok" => EntryFits(inflight, wallet, books)
  /\ ~taxRaced => AllSetAside(wallet, IF onChain = "ok" THEN Applied(books, inflight) ELSE books, sales)

(* Division, products and their order, for the solver.                     *)
LEMMA DivFacts ==
  ASSUME NEW a \in Nat, NEW n \in Nat \ {0}
  PROVE  /\ a \div n \in Nat
         /\ n * (a \div n) \in Nat
         /\ n * (a \div n) <= a
         /\ a < n * (a \div n) + n
OBVIOUS

(* Products keep the order of their factors.                               *)
LEMMA ProductBelow ==
  ASSUME NEW a \in Nat, NEW b \in Nat, NEW c \in Nat, a <= b
  PROVE  a * c \in Nat /\ b * c \in Nat /\ a * c <= b * c
OBVIOUS

(* A common factor cancels.                                                *)
LEMMA Cancel ==
  ASSUME NEW n \in Nat \ {0}, NEW a \in Int, NEW b \in Int, n * a <= n * b
  PROVE  a <= b
OBVIOUS

(* A share of a sale, rounded, against its part and the sale.              *)
LEMMA ShareBounds ==
  ASSUME NEW part \in Nat, NEW all \in Nat \ {0}, NEW sold \in 1..all
  PROVE  /\ ShareOf(part, sold, all) \in Nat
         /\ ShareOf(part, sold, all) <= part
         /\ ShareOf(part, sold, all) <= sold
         /\ part >= all => ShareOf(part, sold, all) = sold
         /\ part <= all => /\ all * ShareOf(part, sold, all) <= part * sold
                           /\ part * sold < all * ShareOf(part, sold, all) + all
<1> DEFINE m == Lesser(part, all)
           s == (m * sold) \div all
<1>1. m \in Nat /\ m <= part /\ m <= all /\ (part >= all => m = all) /\ (part <= all => m = part)
  BY DEF Lesser
<1>2. sold \in Nat /\ sold <= all
  OBVIOUS
<1> HIDE DEF m
<1>3. m * sold \in Nat /\ m * sold <= all * sold /\ m * sold <= m * all
  BY <1>1, <1>2
<1>4. s \in Nat /\ all * s \in Nat /\ all * s <= m * sold /\ m * sold < all * s + all
  BY <1>3, DivFacts
<1>5. ShareOf(part, sold, all) = s
  BY DEF ShareOf, m
<1> HIDE DEF s
<1>6. s <= m
  <2>1. all * s <= all * m
    BY <1>1, <1>2, <1>3, <1>4
  <2> QED
    BY <2>1, <1>1, <1>4, Cancel
<1>7. s <= sold
  <2>1. all * s <= all * sold
    BY <1>1, <1>2, <1>3, <1>4
  <2> QED
    BY <2>1, <1>2, <1>4, Cancel
<1>8. m = all => s = sold
  <2> SUFFICES ASSUME m = all PROVE sold <= s
    BY <1>2, <1>4, <1>7
  <2>1. all * sold < all * (s + 1)
    BY <1>2, <1>3, <1>4
  <2>2. CASE sold > s
    <3>1. s + 1 <= sold
      BY <2>2, <1>2, <1>4
    <3>2. all * (s + 1) <= all * sold
      BY <3>1, <1>2, <1>4, ProductBelow
    <3> QED
      BY <3>2, <2>1, <1>2, <1>4
  <2> QED
    BY <2>2, <1>2, <1>4
<1> QED
  BY <1>1, <1>2, <1>4, <1>5, <1>6, <1>7, <1>8

(* A share is no more than its part, nor than the sale.                    *)
LEMMA ShareSmall ==
  ASSUME NEW part \in Nat, NEW all \in Nat \ {0}, NEW sold \in 1..all
  PROVE  /\ ShareOf(part, sold, all) \in Nat
         /\ ShareOf(part, sold, all) <= part
         /\ ShareOf(part, sold, all) <= sold
BY ShareBounds

(* Two shares round the tokens by one unit at most, and what they take     *)
(* beyond the sale was over before.                                        *)
LEMMA SharesRound ==
  ASSUME NEW L \in Nat, NEW C \in Nat, NEW all \in Nat \ {0}, NEW sold \in 1..all
  PROVE  LET S == ShareOf(L, sold, all) + ShareOf(C, sold, all) - sold
         IN /\ S <= 0 => L + C - all - S <= AtLeast0(L + C - all) + 1
            /\ S > 0 => S <= L + C - all
<1> DEFINE lp == ShareOf(L, sold, all)
           cr == ShareOf(C, sold, all)
<1>1. /\ lp \in Nat /\ lp <= L /\ lp <= sold /\ (L >= all => lp = sold)
      /\ L <= all => all * lp <= L * sold /\ L * sold < all * lp + all
  BY ShareBounds
<1>2. /\ cr \in Nat /\ cr <= C /\ cr <= sold /\ (C >= all => cr = sold)
      /\ C <= all => all * cr <= C * sold /\ C * sold < all * cr + all
  BY ShareBounds
<1>3. sold \in Nat /\ sold >= 1 /\ sold <= all
  OBVIOUS
<1> HIDE DEF lp, cr
<1> SUFFICES /\ lp + cr - sold <= 0 => L + C - all - (lp + cr - sold) <= AtLeast0(L + C - all) + 1
             /\ lp + cr - sold > 0 => lp + cr - sold <= L + C - all
  BY DEF lp, cr
<1>4. CASE L >= all \/ C >= all
  BY <1>1, <1>2, <1>3, <1>4 DEF AtLeast0
<1>5. CASE L <= all /\ C <= all
  <2> DEFINE S == lp + cr - sold
             D == L + C - all
             x == all * lp
             y == all * cr
  <2>1. L * sold \in Nat /\ C * sold \in Nat /\ all * sold \in Nat /\ x \in Nat /\ y \in Nat
    BY <1>1, <1>2, <1>3
  <2>2. S \in Int /\ D \in Int /\ all * S = x + y - all * sold /\ D * sold = L * sold + C * sold - all * sold
    BY <1>1, <1>2, <1>3
  <2>3. all * S <= D * sold /\ D * sold < all * S + all + all
    BY <1>1, <1>2, <1>5, <2>1, <2>2
  <2>4. D <= 0 => D * sold >= D * all
    BY <2>2, <1>3
  <2>5. D > 0 => D * sold <= D * all /\ D * sold > 0
    BY <2>2, <1>3
  <2> HIDE DEF S, D, x, y
  <2>6. ASSUME D <= 0 PROVE S <= 0 /\ D - S <= 1
    <3>1. all * S <= all * 0
      BY <2>6, <2>3, <2>2, <1>3
    <3>2. all * (D - S) < all * 2
      BY <2>6, <2>3, <2>4, <2>2, <1>3
    <3>3. S <= 0
      BY <3>1, <2>2, Cancel
    <3>4. ~(2 <= D - S)
      <4> SUFFICES ASSUME 2 <= D - S PROVE FALSE
        OBVIOUS
      <4>1. all * 2 <= all * (D - S)
        BY <2>2
      <4> QED
        BY <4>1, <3>2, <2>2
    <3> QED
      BY <3>3, <3>4, <2>2
  <2>7. ASSUME D > 0 PROVE S <= D /\ S >= -1
    <3>1. all * S <= all * D
      BY <2>7, <2>3, <2>5, <2>2, <1>3
    <3>2. 0 < all * (S + 2)
      BY <2>7, <2>3, <2>5, <2>2, <1>3
    <3>3. ~(S + 2 <= 0)
      <4> SUFFICES ASSUME S + 2 <= 0 PROVE FALSE
        OBVIOUS
      <4>1. all * (S + 2) <= 0
        BY <2>2
      <4> QED
        BY <4>1, <3>2, <2>2
    <3> QED
      BY <3>1, <3>3, <2>2, Cancel
  <2>8. /\ S <= 0 => D - S <= AtLeast0(D) + 1
        /\ S > 0 => S <= D
    BY <2>2, <2>6, <2>7 DEF AtLeast0
  <2> QED
    BY <2>8, <1>1, <1>2, <1>3 DEF S, D
<1> QED
  BY <1>4, <1>5

(* Two parts of the proceeds are at most the proceeds and what was promised*)
(* beyond the sale.                                                        *)
LEMMA PartsRound ==
  ASSUME NEW in \in Nat \ {0}, NEW out \in 0..in, NEW lp \in Nat, NEW cr \in Nat
  PROVE  /\ (out * lp) \div in \in Nat /\ (out * cr) \div in \in Nat
         /\ (out * lp) \div in + (out * cr) \div in <= out + AtLeast0(lp + cr - in)
<1> DEFINE p == (out * lp) \div in
           q == (out * cr) \div in
           S == lp + cr - in
<1>1. out \in Nat /\ out <= in /\ out * lp \in Nat /\ out * cr \in Nat
  OBVIOUS
<1>2. p \in Nat /\ q \in Nat /\ in * p <= out * lp /\ in * q <= out * cr
  BY <1>1, DivFacts
<1> HIDE DEF p, q
<1>3. in * (p + q) <= out * (lp + cr)
  BY <1>1, <1>2
<1>4. CASE S <= 0
  <2>1. out * (lp + cr) <= out * in
    BY <1>1, <1>4
  <2>2. in * (p + q) <= in * out
    BY <2>1, <1>1, <1>2, <1>3
  <2>3. p + q <= out
    BY <2>2, <1>1, <1>2, Cancel
  <2> QED
    BY <2>3, <1>2, <1>4 DEF AtLeast0, p, q
<1>5. CASE S > 0
  <2>1. out * (lp + cr) = out * in + out * S
    BY <1>1
  <2>2. out * S <= in * S
    BY <1>1, <1>5, ProductBelow
  <2>3. in * (p + q) <= in * (out + S)
    BY <2>1, <2>2, <1>1, <1>2, <1>3
  <2>4. p + q <= out + S
    BY <2>3, <1>1, <1>2, Cancel
  <2> QED
    BY <2>4, <1>2, <1>5 DEF AtLeast0, p, q
<1> QED
  BY <1>4, <1>5

(* The split of a withdrawal is no more than the withdrawal.               *)
LEMMA SplitFits ==
  ASSUME NEW amount \in Nat
  PROVE  LET s == Split(amount)
         IN /\ s.burn \in Nat /\ s.keep \in Nat /\ s.sell \in Nat /\ s.creator \in Nat
            /\ s.burn + s.keep + s.sell + s.creator <= amount
<1> DEFINE lp == (amount * LpShare) \div 10
           burn == (amount * BurnShare) \div 10
           cr == (amount * CreatorShare) \div 10
<1>1. LpShare \in Nat /\ BurnShare \in Nat /\ CreatorShare \in Nat /\ BurnShare + LpShare + CreatorShare <= 10
  BY TaxAssumption
<1>2. amount * LpShare \in Nat /\ amount * BurnShare \in Nat /\ amount * CreatorShare \in Nat
  BY <1>1
<1>3. lp \in Nat /\ 10 * lp <= amount * LpShare
  BY <1>2, DivFacts
<1>4. burn \in Nat /\ 10 * burn <= amount * BurnShare
  BY <1>2, DivFacts
<1>5. cr \in Nat /\ 10 * cr <= amount * CreatorShare
  BY <1>2, DivFacts
<1>6. lp \div 2 \in Nat /\ lp - lp \div 2 \in Nat
  BY <1>3
<1>7. amount * BurnShare + amount * LpShare + amount * CreatorShare <= 10 * amount
  <2>1. amount * (BurnShare + LpShare + CreatorShare) <= amount * 10
    BY <1>1, ProductBelow
  <2>2. amount * (BurnShare + LpShare + CreatorShare) = amount * BurnShare + amount * LpShare + amount * CreatorShare
    BY <1>1
  <2> QED
    BY <2>1, <2>2, <1>2
<1>8. Split(amount) = [burn |-> burn, keep |-> lp \div 2, sell |-> lp - lp \div 2, creator |-> cr]
  BY DEF Split
<1> HIDE DEF lp, burn, cr
<1>9. burn + lp + cr <= amount
  BY <1>2, <1>3, <1>4, <1>5, <1>7
<1>10. lp \div 2 + (lp - lp \div 2) = lp
  BY <1>3, <1>6
<1> QED
  BY <1>3, <1>4, <1>5, <1>6, <1>8, <1>9, <1>10

(* Books have natural fields,                                              *)
LEMMA BooksFields ==
  ASSUME NEW b \in Books
  PROVE  /\ b.lpKeep \in Nat /\ b.lpSell \in Nat /\ b.burn \in Nat /\ b.creatorSell \in Nat
         /\ b.lpPair \in Nat /\ b.creatorPair \in Nat /\ b.creatorXnt \in Nat /\ b.reward \in Nat /\ b.owed \in Nat
BY DEF Books, BookNames

(* and what has natural fields is books.                                   *)
LEMMA BooksMember ==
  ASSUME NEW s, s = [x \in BookNames |-> s[x]],
         s.lpKeep \in Nat, s.lpSell \in Nat, s.burn \in Nat, s.creatorSell \in Nat,
         s.lpPair \in Nat, s.creatorPair \in Nat, s.creatorXnt \in Nat, s.reward \in Nat, s.owed \in Nat
  PROVE  s \in Books
<1>1. \A x \in BookNames : s[x] \in Nat
  BY DEF BookNames
<1> QED
  BY <1>1 DEF Books

(* So with wallets:                                                        *)
LEMMA WalletFields ==
  ASSUME NEW w \in Wallets
  PROVE  w.token \in Nat /\ w.xnt \in Nat /\ w.pair \in Nat /\ w.reward \in Nat
BY DEF Wallets, Accounts

(* what has natural fields is a wallet.                                    *)
LEMMA WalletMember ==
  ASSUME NEW s, s = [x \in Accounts |-> s[x]],
         s.token \in Nat, s.xnt \in Nat, s.pair \in Nat, s.reward \in Nat
  PROVE  s \in Wallets
<1>1. \A x \in Accounts : s[x] \in Nat
  BY DEF Accounts
<1> QED
  BY <1>1 DEF Wallets

(* Clamping at 0.                                                          *)
LEMMA AtLeast0Type ==
  ASSUME NEW x \in Int
  PROVE  AtLeast0(x) \in Nat /\ AtLeast0(x) >= x /\ (x <= 0 => AtLeast0(x) = 0) /\ (x >= 0 => AtLeast0(x) = x)
BY DEF AtLeast0

(* What each kind of transaction does to the books, field by field *)
LEMMA WithdrawBooks ==
  ASSUME NEW b \in Books, NEW e, EntryTypes(e), e.kind = "withdraw"
  PROVE  LET s == Split(e.in)
             c == Applied(b, e)
         IN /\ c \in Books
            /\ c.lpKeep = b.lpKeep + s.keep /\ c.lpSell = b.lpSell + s.sell
            /\ c.burn = b.burn + s.burn /\ c.creatorSell = b.creatorSell + s.creator
            /\ c.lpPair = b.lpPair /\ c.creatorPair = b.creatorPair
            /\ c.creatorXnt = b.creatorXnt /\ c.reward = b.reward /\ c.owed = b.owed
<1> DEFINE s == Split(e.in)
           c == [b EXCEPT !.lpKeep = @ + s.keep, !.lpSell = @ + s.sell,
                          !.burn = @ + s.burn, !.creatorSell = @ + s.creator]
<1>1. /\ b.lpKeep \in Nat /\ b.lpSell \in Nat /\ b.burn \in Nat /\ b.creatorSell \in Nat
      /\ b.lpPair \in Nat /\ b.creatorPair \in Nat /\ b.creatorXnt \in Nat /\ b.reward \in Nat /\ b.owed \in Nat
  BY BooksFields
<1>2. s.keep \in Nat /\ s.sell \in Nat /\ s.burn \in Nat /\ s.creator \in Nat
  BY SplitFits DEF EntryTypes
<1>3. Applied(b, e) = c
  BY DEF Applied
<1> HIDE DEF s
<1>4. /\ c.lpKeep = b.lpKeep + s.keep /\ c.lpSell = b.lpSell + s.sell
      /\ c.burn = b.burn + s.burn /\ c.creatorSell = b.creatorSell + s.creator
      /\ c.lpPair = b.lpPair /\ c.creatorPair = b.creatorPair
      /\ c.creatorXnt = b.creatorXnt /\ c.reward = b.reward /\ c.owed = b.owed
  BY DEF Books, BookNames
<1>5. c = [x \in BookNames |-> c[x]]
  BY Zenon DEF Books
<1> HIDE DEF c
<1>6. c \in Books
  BY <1>1, <1>2, <1>4, <1>5, BooksMember
<1> QED
  BY <1>3, <1>4, <1>6 DEF s

(* A part of the proceeds is a natural.                                    *)
LEMMA PartOfType ==
  ASSUME NEW e, EntryTypes(e), NEW part \in Nat
  PROVE  PartOf(part, e) \in Nat
<1>1. e.in \in Nat /\ e.out \in Nat /\ e.out * part \in Nat
  BY DEF EntryTypes
<1>2. CASE e.in > 0
  <2>1. (e.out * part) \div e.in \in Nat
    BY <1>1, <1>2, DivFacts
  <2> QED
    BY <1>2, <2>1 DEF PartOf
<1>3. CASE ~(e.in > 0)
  BY <1>3 DEF PartOf
<1> QED
  BY <1>2, <1>3

(* What each kind of transaction does to the books, field by field: a burn,*)
LEMMA BurnBooks ==
  ASSUME NEW b \in Books, NEW e, EntryTypes(e), e.kind = "burn"
  PROVE  LET c == Applied(b, e)
         IN /\ c \in Books
            /\ c.burn = AtLeast0(b.burn - e.in) /\ c.lpKeep = b.lpKeep
            /\ c.lpSell = b.lpSell /\ c.creatorSell = b.creatorSell
            /\ c.lpPair = b.lpPair /\ c.creatorPair = b.creatorPair
            /\ c.creatorXnt = b.creatorXnt /\ c.reward = b.reward
            /\ c.owed = b.owed
<1> DEFINE c == [b EXCEPT !.burn = AtLeast0(@ - e.in)]
<1>1. /\ b.lpKeep \in Nat /\ b.lpSell \in Nat /\ b.burn \in Nat /\ b.creatorSell \in Nat
      /\ b.lpPair \in Nat /\ b.creatorPair \in Nat /\ b.creatorXnt \in Nat /\ b.reward \in Nat /\ b.owed \in Nat
  BY BooksFields
<1>2. e.in \in Nat /\ e.out \in Nat /\ e.lp \in Nat /\ e.creator \in Nat
  BY DEF EntryTypes
<1>3. Applied(b, e) = c
  BY DEF Applied
<1>4. /\ c.burn = AtLeast0(b.burn - e.in) /\ c.lpKeep = b.lpKeep
      /\ c.lpSell = b.lpSell /\ c.creatorSell = b.creatorSell
      /\ c.lpPair = b.lpPair /\ c.creatorPair = b.creatorPair
      /\ c.creatorXnt = b.creatorXnt /\ c.reward = b.reward
      /\ c.owed = b.owed
  BY DEF Books, BookNames
<1>5. c = [x \in BookNames |-> c[x]]
  BY Zenon DEF Books
<1> HIDE DEF c
<1>6. c \in Books
  BY <1>1, <1>2, <1>4, <1>5, BooksMember, AtLeast0Type
<1> QED
  BY <1>3, <1>4, <1>6

(* a sale,                                                                 *)
LEMMA SellBooks ==
  ASSUME NEW b \in Books, NEW e, EntryTypes(e), e.kind = "sell"
  PROVE  LET c == Applied(b, e)
         IN /\ c \in Books
            /\ c.lpPair = b.lpPair + PartOf(e.lp, e) /\ c.lpSell = AtLeast0(b.lpSell - e.lp)
            /\ c.creatorSell = AtLeast0(b.creatorSell - e.creator) /\ c.creatorPair = (IF paired THEN b.creatorPair + PartOf(e.creator, e) ELSE b.creatorPair)
            /\ c.creatorXnt = (IF paired THEN b.creatorXnt ELSE b.creatorXnt + PartOf(e.creator, e)) /\ c.lpKeep = b.lpKeep
            /\ c.burn = b.burn /\ c.reward = b.reward
            /\ c.owed = b.owed
<1> DEFINE c == [b EXCEPT !.lpPair = @ + PartOf(e.lp, e), !.lpSell = AtLeast0(@ - e.lp),
                          !.creatorSell = AtLeast0(@ - e.creator),
                          !.creatorPair = IF paired THEN @ + PartOf(e.creator, e) ELSE @,
                          !.creatorXnt = IF paired THEN @ ELSE @ + PartOf(e.creator, e)]
<1>1. /\ b.lpKeep \in Nat /\ b.lpSell \in Nat /\ b.burn \in Nat /\ b.creatorSell \in Nat
      /\ b.lpPair \in Nat /\ b.creatorPair \in Nat /\ b.creatorXnt \in Nat /\ b.reward \in Nat /\ b.owed \in Nat
  BY BooksFields
<1>2. /\ e.in \in Nat /\ e.out \in Nat /\ e.lp \in Nat /\ e.creator \in Nat
      /\ PartOf(e.lp, e) \in Nat /\ PartOf(e.creator, e) \in Nat
  BY PartOfType DEF EntryTypes
<1>3. Applied(b, e) = c
  BY DEF Applied
<1>4. /\ c.lpPair = b.lpPair + PartOf(e.lp, e) /\ c.lpSell = AtLeast0(b.lpSell - e.lp)
      /\ c.creatorSell = AtLeast0(b.creatorSell - e.creator) /\ c.creatorPair = (IF paired THEN b.creatorPair + PartOf(e.creator, e) ELSE b.creatorPair)
      /\ c.creatorXnt = (IF paired THEN b.creatorXnt ELSE b.creatorXnt + PartOf(e.creator, e)) /\ c.lpKeep = b.lpKeep
      /\ c.burn = b.burn /\ c.reward = b.reward
      /\ c.owed = b.owed
  BY DEF Books, BookNames
<1>5. c = [x \in BookNames |-> c[x]]
  BY Zenon DEF Books
<1> HIDE DEF c
<1>6. c \in Books
  BY <1>1, <1>2, <1>4, <1>5, BooksMember, AtLeast0Type
<1> QED
  BY <1>3, <1>4, <1>6

(* liquidity added,                                                        *)
LEMMA LpBooks ==
  ASSUME NEW b \in Books, NEW e, EntryTypes(e), e.kind = "lp"
  PROVE  LET c == Applied(b, e)
         IN /\ c \in Books
            /\ c.lpKeep = AtLeast0(b.lpKeep - e.in) /\ c.lpPair = AtLeast0(b.lpPair - e.out)
            /\ c.lpSell = b.lpSell /\ c.burn = b.burn
            /\ c.creatorSell = b.creatorSell /\ c.creatorPair = b.creatorPair
            /\ c.creatorXnt = b.creatorXnt /\ c.reward = b.reward
            /\ c.owed = b.owed
<1> DEFINE c == [b EXCEPT !.lpKeep = AtLeast0(@ - e.in), !.lpPair = AtLeast0(@ - e.out)]
<1>1. /\ b.lpKeep \in Nat /\ b.lpSell \in Nat /\ b.burn \in Nat /\ b.creatorSell \in Nat
      /\ b.lpPair \in Nat /\ b.creatorPair \in Nat /\ b.creatorXnt \in Nat /\ b.reward \in Nat /\ b.owed \in Nat
  BY BooksFields
<1>2. e.in \in Nat /\ e.out \in Nat /\ e.lp \in Nat /\ e.creator \in Nat
  BY DEF EntryTypes
<1>3. Applied(b, e) = c
  BY DEF Applied
<1>4. /\ c.lpKeep = AtLeast0(b.lpKeep - e.in) /\ c.lpPair = AtLeast0(b.lpPair - e.out)
      /\ c.lpSell = b.lpSell /\ c.burn = b.burn
      /\ c.creatorSell = b.creatorSell /\ c.creatorPair = b.creatorPair
      /\ c.creatorXnt = b.creatorXnt /\ c.reward = b.reward
      /\ c.owed = b.owed
  BY DEF Books, BookNames
<1>5. c = [x \in BookNames |-> c[x]]
  BY Zenon DEF Books
<1> HIDE DEF c
<1>6. c \in Books
  BY <1>1, <1>2, <1>4, <1>5, BooksMember, AtLeast0Type
<1> QED
  BY <1>3, <1>4, <1>6

(* the pair swapped for the creator's XNT,                                 *)
LEMMA QuoteSwapBooks ==
  ASSUME NEW b \in Books, NEW e, EntryTypes(e), e.kind = "quote-swap"
  PROVE  LET c == Applied(b, e)
         IN /\ c \in Books
            /\ c.creatorXnt = b.creatorXnt + PartOf(e.creator, e) /\ c.creatorPair = AtLeast0(b.creatorPair - e.creator)
            /\ c.lpKeep = b.lpKeep /\ c.lpSell = b.lpSell
            /\ c.burn = b.burn /\ c.creatorSell = b.creatorSell
            /\ c.lpPair = b.lpPair /\ c.reward = b.reward
            /\ c.owed = b.owed
<1> DEFINE c == [b EXCEPT !.creatorXnt = @ + PartOf(e.creator, e), !.creatorPair = AtLeast0(@ - e.creator)]
<1>1. /\ b.lpKeep \in Nat /\ b.lpSell \in Nat /\ b.burn \in Nat /\ b.creatorSell \in Nat
      /\ b.lpPair \in Nat /\ b.creatorPair \in Nat /\ b.creatorXnt \in Nat /\ b.reward \in Nat /\ b.owed \in Nat
  BY BooksFields
<1>2. /\ e.in \in Nat /\ e.out \in Nat /\ e.lp \in Nat /\ e.creator \in Nat
      /\ PartOf(e.lp, e) \in Nat /\ PartOf(e.creator, e) \in Nat
  BY PartOfType DEF EntryTypes
<1>3. Applied(b, e) = c
  BY DEF Applied
<1>4. /\ c.creatorXnt = b.creatorXnt + PartOf(e.creator, e) /\ c.creatorPair = AtLeast0(b.creatorPair - e.creator)
      /\ c.lpKeep = b.lpKeep /\ c.lpSell = b.lpSell
      /\ c.burn = b.burn /\ c.creatorSell = b.creatorSell
      /\ c.lpPair = b.lpPair /\ c.reward = b.reward
      /\ c.owed = b.owed
  BY DEF Books, BookNames
<1>5. c = [x \in BookNames |-> c[x]]
  BY Zenon DEF Books
<1> HIDE DEF c
<1>6. c \in Books
  BY <1>1, <1>2, <1>4, <1>5, BooksMember, AtLeast0Type
<1> QED
  BY <1>3, <1>4, <1>6

(* that XNT swapped for the reward token,                                  *)
LEMMA CreatorSwapBooks ==
  ASSUME NEW b \in Books, NEW e, EntryTypes(e), e.kind = "creator-swap"
  PROVE  LET c == Applied(b, e)
         IN /\ c \in Books
            /\ c.creatorXnt = AtLeast0(b.creatorXnt - e.in) /\ c.reward = b.reward + e.out
            /\ c.lpKeep = b.lpKeep /\ c.lpSell = b.lpSell
            /\ c.burn = b.burn /\ c.creatorSell = b.creatorSell
            /\ c.lpPair = b.lpPair /\ c.creatorPair = b.creatorPair
            /\ c.owed = b.owed
<1> DEFINE c == [b EXCEPT !.creatorXnt = AtLeast0(@ - e.in), !.reward = @ + e.out]
<1>1. /\ b.lpKeep \in Nat /\ b.lpSell \in Nat /\ b.burn \in Nat /\ b.creatorSell \in Nat
      /\ b.lpPair \in Nat /\ b.creatorPair \in Nat /\ b.creatorXnt \in Nat /\ b.reward \in Nat /\ b.owed \in Nat
  BY BooksFields
<1>2. e.in \in Nat /\ e.out \in Nat /\ e.lp \in Nat /\ e.creator \in Nat
  BY DEF EntryTypes
<1>3. Applied(b, e) = c
  BY DEF Applied
<1>4. /\ c.creatorXnt = AtLeast0(b.creatorXnt - e.in) /\ c.reward = b.reward + e.out
      /\ c.lpKeep = b.lpKeep /\ c.lpSell = b.lpSell
      /\ c.burn = b.burn /\ c.creatorSell = b.creatorSell
      /\ c.lpPair = b.lpPair /\ c.creatorPair = b.creatorPair
      /\ c.owed = b.owed
  BY DEF Books, BookNames
<1>5. c = [x \in BookNames |-> c[x]]
  BY Zenon DEF Books
<1> HIDE DEF c
<1>6. c \in Books
  BY <1>1, <1>2, <1>4, <1>5, BooksMember, AtLeast0Type
<1> QED
  BY <1>3, <1>4, <1>6

(* the reward deposited,                                                   *)
LEMMA RewardBooks ==
  ASSUME NEW b \in Books, NEW e, EntryTypes(e), e.kind = "creator", otherReward
  PROVE  LET c == Applied(b, e)
         IN /\ c \in Books
            /\ c.reward = AtLeast0(b.reward - e.in) /\ c.lpKeep = b.lpKeep
            /\ c.lpSell = b.lpSell /\ c.burn = b.burn
            /\ c.creatorSell = b.creatorSell /\ c.lpPair = b.lpPair
            /\ c.creatorPair = b.creatorPair /\ c.creatorXnt = b.creatorXnt
            /\ c.owed = b.owed
<1> DEFINE c == [b EXCEPT !.reward = AtLeast0(@ - e.in)]
<1>1. /\ b.lpKeep \in Nat /\ b.lpSell \in Nat /\ b.burn \in Nat /\ b.creatorSell \in Nat
      /\ b.lpPair \in Nat /\ b.creatorPair \in Nat /\ b.creatorXnt \in Nat /\ b.reward \in Nat /\ b.owed \in Nat
  BY BooksFields
<1>2. e.in \in Nat /\ e.out \in Nat /\ e.lp \in Nat /\ e.creator \in Nat
  BY DEF EntryTypes
<1>3. Applied(b, e) = c
  BY DEF Applied
<1>4. /\ c.reward = AtLeast0(b.reward - e.in) /\ c.lpKeep = b.lpKeep
      /\ c.lpSell = b.lpSell /\ c.burn = b.burn
      /\ c.creatorSell = b.creatorSell /\ c.lpPair = b.lpPair
      /\ c.creatorPair = b.creatorPair /\ c.creatorXnt = b.creatorXnt
      /\ c.owed = b.owed
  BY DEF Books, BookNames
<1>5. c = [x \in BookNames |-> c[x]]
  BY Zenon DEF Books
<1> HIDE DEF c
<1>6. c \in Books
  BY <1>1, <1>2, <1>4, <1>5, BooksMember, AtLeast0Type
<1> QED
  BY <1>3, <1>4, <1>6

(* the XNT deposited.                                                      *)
LEMMA CreatorBooks ==
  ASSUME NEW b \in Books, NEW e, EntryTypes(e), e.kind = "creator", ~otherReward
  PROVE  LET c == Applied(b, e)
         IN /\ c \in Books
            /\ c.creatorXnt = AtLeast0(b.creatorXnt - e.in) /\ c.lpKeep = b.lpKeep
            /\ c.lpSell = b.lpSell /\ c.burn = b.burn
            /\ c.creatorSell = b.creatorSell /\ c.lpPair = b.lpPair
            /\ c.creatorPair = b.creatorPair /\ c.reward = b.reward
            /\ c.owed = b.owed
<1> DEFINE c == [b EXCEPT !.creatorXnt = AtLeast0(@ - e.in)]
<1>1. /\ b.lpKeep \in Nat /\ b.lpSell \in Nat /\ b.burn \in Nat /\ b.creatorSell \in Nat
      /\ b.lpPair \in Nat /\ b.creatorPair \in Nat /\ b.creatorXnt \in Nat /\ b.reward \in Nat /\ b.owed \in Nat
  BY BooksFields
<1>2. e.in \in Nat /\ e.out \in Nat /\ e.lp \in Nat /\ e.creator \in Nat
  BY DEF EntryTypes
<1>3. Applied(b, e) = c
  BY DEF Applied
<1>4. /\ c.creatorXnt = AtLeast0(b.creatorXnt - e.in) /\ c.lpKeep = b.lpKeep
      /\ c.lpSell = b.lpSell /\ c.burn = b.burn
      /\ c.creatorSell = b.creatorSell /\ c.lpPair = b.lpPair
      /\ c.creatorPair = b.creatorPair /\ c.reward = b.reward
      /\ c.owed = b.owed
  BY DEF Books, BookNames
<1>5. c = [x \in BookNames |-> c[x]]
  BY Zenon DEF Books
<1> HIDE DEF c
<1>6. c \in Books
  BY <1>1, <1>2, <1>4, <1>5, BooksMember, AtLeast0Type
<1> QED
  BY <1>3, <1>4, <1>6

(* What each kind moves in the wallet: a withdrawal,                       *)
LEMMA WithdrawMoves ==
  ASSUME NEW w \in Wallets, NEW e, EntryTypes(e), e.kind = "withdraw"
  PROVE  LET v == Moved(w, e)
         IN /\ Whole(v) => v \in Wallets
            /\ v.token = w.token + e.in /\ v.xnt = w.xnt
            /\ v.pair = w.pair /\ v.reward = w.reward
<1> DEFINE v == [w EXCEPT !.token = @ + e.in]
<1>1. w.token \in Nat /\ w.xnt \in Nat /\ w.pair \in Nat /\ w.reward \in Nat
  BY WalletFields
<1>2. e.in \in Nat /\ e.out \in Nat
  BY DEF EntryTypes
<1>3. Moved(w, e) = v
  BY DEF Moved, Pair
<1>4. /\ v.token = w.token + e.in /\ v.xnt = w.xnt
      /\ v.pair = w.pair /\ v.reward = w.reward
  BY DEF Wallets, Accounts
<1>5. v = [x \in Accounts |-> v[x]]
  BY Zenon DEF Wallets
<1> HIDE DEF v
<1>6. v.token \in Int /\ v.xnt \in Int /\ v.pair \in Int /\ v.reward \in Int
  BY <1>1, <1>2, <1>4
<1>7. Whole(v) => v.token >= 0 /\ v.xnt >= 0 /\ v.pair >= 0 /\ v.reward >= 0
  BY <1>5 DEF Whole, Accounts
<1>8. Whole(v) => v \in Wallets
  BY <1>5, <1>6, <1>7, WalletMember
<1> QED
  BY <1>3, <1>4, <1>8

(* a burn,                                                                 *)
LEMMA BurnMoves ==
  ASSUME NEW w \in Wallets, NEW e, EntryTypes(e), e.kind = "burn"
  PROVE  LET v == Moved(w, e)
         IN /\ Whole(v) => v \in Wallets
            /\ v.token = w.token - e.in /\ v.xnt = w.xnt
            /\ v.pair = w.pair /\ v.reward = w.reward
<1> DEFINE v == [w EXCEPT !.token = @ - e.in]
<1>1. w.token \in Nat /\ w.xnt \in Nat /\ w.pair \in Nat /\ w.reward \in Nat
  BY WalletFields
<1>2. e.in \in Nat /\ e.out \in Nat
  BY DEF EntryTypes
<1>3. Moved(w, e) = v
  BY DEF Moved, Pair
<1>4. /\ v.token = w.token - e.in /\ v.xnt = w.xnt
      /\ v.pair = w.pair /\ v.reward = w.reward
  BY DEF Wallets, Accounts
<1>5. v = [x \in Accounts |-> v[x]]
  BY Zenon DEF Wallets
<1> HIDE DEF v
<1>6. v.token \in Int /\ v.xnt \in Int /\ v.pair \in Int /\ v.reward \in Int
  BY <1>1, <1>2, <1>4
<1>7. Whole(v) => v.token >= 0 /\ v.xnt >= 0 /\ v.pair >= 0 /\ v.reward >= 0
  BY <1>5 DEF Whole, Accounts
<1>8. Whole(v) => v \in Wallets
  BY <1>5, <1>6, <1>7, WalletMember
<1> QED
  BY <1>3, <1>4, <1>8

(* a sale,                                                                 *)
LEMMA SellMoves ==
  ASSUME NEW w \in Wallets, NEW e, EntryTypes(e), e.kind = "sell"
  PROVE  LET v == Moved(w, e)
         IN /\ Whole(v) => v \in Wallets
            /\ v.token = w.token - e.in /\ v.xnt = (IF paired THEN w.xnt ELSE w.xnt + e.out)
            /\ v.pair = (IF paired THEN w.pair + e.out ELSE w.pair) /\ v.reward = w.reward
<1> DEFINE v == [w EXCEPT !.token = @ - e.in, ![IF paired THEN "pair" ELSE "xnt"] = @ + e.out]
<1>1. w.token \in Nat /\ w.xnt \in Nat /\ w.pair \in Nat /\ w.reward \in Nat
  BY WalletFields
<1>2. e.in \in Nat /\ e.out \in Nat
  BY DEF EntryTypes
<1>3. Moved(w, e) = v
  BY DEF Moved, Pair
<1>4. /\ v.token = w.token - e.in /\ v.xnt = (IF paired THEN w.xnt ELSE w.xnt + e.out)
      /\ v.pair = (IF paired THEN w.pair + e.out ELSE w.pair) /\ v.reward = w.reward
  BY DEF Wallets, Accounts
<1>5. v = [x \in Accounts |-> v[x]]
  BY Zenon DEF Wallets
<1> HIDE DEF v
<1>6. v.token \in Int /\ v.xnt \in Int /\ v.pair \in Int /\ v.reward \in Int
  BY <1>1, <1>2, <1>4
<1>7. Whole(v) => v.token >= 0 /\ v.xnt >= 0 /\ v.pair >= 0 /\ v.reward >= 0
  BY <1>5 DEF Whole, Accounts
<1>8. Whole(v) => v \in Wallets
  BY <1>5, <1>6, <1>7, WalletMember
<1> QED
  BY <1>3, <1>4, <1>8

(* liquidity added,                                                        *)
LEMMA LpMoves ==
  ASSUME NEW w \in Wallets, NEW e, EntryTypes(e), e.kind = "lp"
  PROVE  LET v == Moved(w, e)
         IN /\ Whole(v) => v \in Wallets
            /\ v.token = w.token - e.in /\ v.xnt = (IF paired THEN w.xnt ELSE w.xnt - e.out)
            /\ v.pair = (IF paired THEN w.pair - e.out ELSE w.pair) /\ v.reward = w.reward
<1> DEFINE v == [w EXCEPT !.token = @ - e.in, ![IF paired THEN "pair" ELSE "xnt"] = @ - e.out]
<1>1. w.token \in Nat /\ w.xnt \in Nat /\ w.pair \in Nat /\ w.reward \in Nat
  BY WalletFields
<1>2. e.in \in Nat /\ e.out \in Nat
  BY DEF EntryTypes
<1>3. Moved(w, e) = v
  BY DEF Moved, Pair
<1>4. /\ v.token = w.token - e.in /\ v.xnt = (IF paired THEN w.xnt ELSE w.xnt - e.out)
      /\ v.pair = (IF paired THEN w.pair - e.out ELSE w.pair) /\ v.reward = w.reward
  BY DEF Wallets, Accounts
<1>5. v = [x \in Accounts |-> v[x]]
  BY Zenon DEF Wallets
<1> HIDE DEF v
<1>6. v.token \in Int /\ v.xnt \in Int /\ v.pair \in Int /\ v.reward \in Int
  BY <1>1, <1>2, <1>4
<1>7. Whole(v) => v.token >= 0 /\ v.xnt >= 0 /\ v.pair >= 0 /\ v.reward >= 0
  BY <1>5 DEF Whole, Accounts
<1>8. Whole(v) => v \in Wallets
  BY <1>5, <1>6, <1>7, WalletMember
<1> QED
  BY <1>3, <1>4, <1>8

(* the pair swapped,                                                       *)
LEMMA QuoteSwapMoves ==
  ASSUME NEW w \in Wallets, NEW e, EntryTypes(e), e.kind = "quote-swap"
  PROVE  LET v == Moved(w, e)
         IN /\ Whole(v) => v \in Wallets
            /\ v.token = w.token /\ v.xnt = w.xnt + e.out
            /\ v.pair = w.pair - e.in /\ v.reward = w.reward
<1> DEFINE v == [w EXCEPT !.pair = @ - e.in, !.xnt = @ + e.out]
<1>1. w.token \in Nat /\ w.xnt \in Nat /\ w.pair \in Nat /\ w.reward \in Nat
  BY WalletFields
<1>2. e.in \in Nat /\ e.out \in Nat
  BY DEF EntryTypes
<1>3. Moved(w, e) = v
  BY DEF Moved, Pair
<1>4. /\ v.token = w.token /\ v.xnt = w.xnt + e.out
      /\ v.pair = w.pair - e.in /\ v.reward = w.reward
  BY DEF Wallets, Accounts
<1>5. v = [x \in Accounts |-> v[x]]
  BY Zenon DEF Wallets
<1> HIDE DEF v
<1>6. v.token \in Int /\ v.xnt \in Int /\ v.pair \in Int /\ v.reward \in Int
  BY <1>1, <1>2, <1>4
<1>7. Whole(v) => v.token >= 0 /\ v.xnt >= 0 /\ v.pair >= 0 /\ v.reward >= 0
  BY <1>5 DEF Whole, Accounts
<1>8. Whole(v) => v \in Wallets
  BY <1>5, <1>6, <1>7, WalletMember
<1> QED
  BY <1>3, <1>4, <1>8

(* XNT swapped for the reward token,                                       *)
LEMMA CreatorSwapMoves ==
  ASSUME NEW w \in Wallets, NEW e, EntryTypes(e), e.kind = "creator-swap"
  PROVE  LET v == Moved(w, e)
         IN /\ Whole(v) => v \in Wallets
            /\ v.token = w.token /\ v.xnt = w.xnt - e.in
            /\ v.pair = w.pair /\ v.reward = w.reward + e.out
<1> DEFINE v == [w EXCEPT !.xnt = @ - e.in, !.reward = @ + e.out]
<1>1. w.token \in Nat /\ w.xnt \in Nat /\ w.pair \in Nat /\ w.reward \in Nat
  BY WalletFields
<1>2. e.in \in Nat /\ e.out \in Nat
  BY DEF EntryTypes
<1>3. Moved(w, e) = v
  BY DEF Moved, Pair
<1>4. /\ v.token = w.token /\ v.xnt = w.xnt - e.in
      /\ v.pair = w.pair /\ v.reward = w.reward + e.out
  BY DEF Wallets, Accounts
<1>5. v = [x \in Accounts |-> v[x]]
  BY Zenon DEF Wallets
<1> HIDE DEF v
<1>6. v.token \in Int /\ v.xnt \in Int /\ v.pair \in Int /\ v.reward \in Int
  BY <1>1, <1>2, <1>4
<1>7. Whole(v) => v.token >= 0 /\ v.xnt >= 0 /\ v.pair >= 0 /\ v.reward >= 0
  BY <1>5 DEF Whole, Accounts
<1>8. Whole(v) => v \in Wallets
  BY <1>5, <1>6, <1>7, WalletMember
<1> QED
  BY <1>3, <1>4, <1>8

(* the reward deposited,                                                   *)
LEMMA RewardMoves ==
  ASSUME NEW w \in Wallets, NEW e, EntryTypes(e), e.kind = "creator", otherReward
  PROVE  LET v == Moved(w, e)
         IN /\ Whole(v) => v \in Wallets
            /\ v.token = w.token /\ v.xnt = w.xnt
            /\ v.pair = w.pair /\ v.reward = w.reward - e.in
<1> DEFINE v == [w EXCEPT !.reward = @ - e.in]
<1>1. w.token \in Nat /\ w.xnt \in Nat /\ w.pair \in Nat /\ w.reward \in Nat
  BY WalletFields
<1>2. e.in \in Nat /\ e.out \in Nat
  BY DEF EntryTypes
<1>3. Moved(w, e) = v
  BY DEF Moved, Pair
<1>4. /\ v.token = w.token /\ v.xnt = w.xnt
      /\ v.pair = w.pair /\ v.reward = w.reward - e.in
  BY DEF Wallets, Accounts
<1>5. v = [x \in Accounts |-> v[x]]
  BY Zenon DEF Wallets
<1> HIDE DEF v
<1>6. v.token \in Int /\ v.xnt \in Int /\ v.pair \in Int /\ v.reward \in Int
  BY <1>1, <1>2, <1>4
<1>7. Whole(v) => v.token >= 0 /\ v.xnt >= 0 /\ v.pair >= 0 /\ v.reward >= 0
  BY <1>5 DEF Whole, Accounts
<1>8. Whole(v) => v \in Wallets
  BY <1>5, <1>6, <1>7, WalletMember
<1> QED
  BY <1>3, <1>4, <1>8

(* the XNT deposited.                                                      *)
LEMMA CreatorMoves ==
  ASSUME NEW w \in Wallets, NEW e, EntryTypes(e), e.kind = "creator", ~otherReward
  PROVE  LET v == Moved(w, e)
         IN /\ Whole(v) => v \in Wallets
            /\ v.token = w.token /\ v.xnt = w.xnt - e.in
            /\ v.pair = w.pair /\ v.reward = w.reward
<1> DEFINE v == [w EXCEPT !.xnt = @ - e.in]
<1>1. w.token \in Nat /\ w.xnt \in Nat /\ w.pair \in Nat /\ w.reward \in Nat
  BY WalletFields
<1>2. e.in \in Nat /\ e.out \in Nat
  BY DEF EntryTypes
<1>3. Moved(w, e) = v
  BY DEF Moved, Pair
<1>4. /\ v.token = w.token /\ v.xnt = w.xnt - e.in
      /\ v.pair = w.pair /\ v.reward = w.reward
  BY DEF Wallets, Accounts
<1>5. v = [x \in Accounts |-> v[x]]
  BY Zenon DEF Wallets
<1> HIDE DEF v
<1>6. v.token \in Int /\ v.xnt \in Int /\ v.pair \in Int /\ v.reward \in Int
  BY <1>1, <1>2, <1>4
<1>7. Whole(v) => v.token >= 0 /\ v.xnt >= 0 /\ v.pair >= 0 /\ v.reward >= 0
  BY <1>5 DEF Whole, Accounts
<1>8. Whole(v) => v \in Wallets
  BY <1>5, <1>6, <1>7, WalletMember
<1> QED
  BY <1>3, <1>4, <1>8

(* A transaction that fits what it was journaled for leaves everything set *)
(* aside: a withdrawal,                                                    *)
LEMMA WithdrawLands ==
  ASSUME NEW w \in Wallets, NEW b \in Books, NEW n \in Nat, NEW e, EntryTypes(e), e.kind = "withdraw",
         EntryFits(e, w, b), AllSetAside(w, b, n)
  PROVE  AllSetAside(Moved(w, e), Applied(b, e), n)
<1> DEFINE v == Moved(w, e)
           c == Applied(b, e)
<1>1. /\ b.lpKeep \in Nat /\ b.lpSell \in Nat /\ b.burn \in Nat /\ b.creatorSell \in Nat
      /\ b.lpPair \in Nat /\ b.creatorPair \in Nat /\ b.creatorXnt \in Nat /\ b.reward \in Nat /\ b.owed \in Nat
  BY BooksFields
<1>2. w.token \in Nat /\ w.xnt \in Nat /\ w.pair \in Nat /\ w.reward \in Nat
  BY WalletFields
<1>3. e.in \in Nat /\ e.out \in Nat /\ e.lp \in Nat /\ e.creator \in Nat
  BY DEF EntryTypes
<1> DEFINE s == Split(e.in)
<1>4. s.burn \in Nat /\ s.keep \in Nat /\ s.sell \in Nat /\ s.creator \in Nat /\ s.burn + s.keep + s.sell + s.creator <= e.in
  BY <1>3, SplitFits
<1>5. /\ v.token = w.token + e.in /\ v.xnt = w.xnt
      /\ v.pair = w.pair /\ v.reward = w.reward
  BY WithdrawMoves
<1>6. /\ c.lpKeep = b.lpKeep + s.keep /\ c.lpSell = b.lpSell + s.sell
      /\ c.burn = b.burn + s.burn /\ c.creatorSell = b.creatorSell + s.creator
      /\ c.lpPair = b.lpPair /\ c.creatorPair = b.creatorPair
      /\ c.creatorXnt = b.creatorXnt /\ c.reward = b.reward
      /\ c.owed = b.owed
  BY WithdrawBooks
<1> HIDE DEF v, c
<1> HIDE DEF s
<1>7. TokensOver(v, c) <= TokensOver(w, b)
  BY <1>1, <1>2, <1>3, <1>4, <1>5, <1>6 DEF TokensOver, AtLeast0
<1>8. ProceedsOver(v, c) = ProceedsOver(w, b)
  BY <1>5, <1>6 DEF ProceedsOver
<1>9. TokensOver(v, c) \in Nat /\ TokensOver(w, b) \in Nat /\ ProceedsOver(w, b) \in Nat
  BY <1>1, <1>2, <1>3, <1>4, <1>5, <1>6 DEF TokensOver, ProceedsOver, AtLeast0
<1> QED
  BY <1>5, <1>6, <1>7, <1>8, <1>9 DEF AllSetAside, v, c

(* a burn,                                                                 *)
LEMMA BurnLands ==
  ASSUME NEW w \in Wallets, NEW b \in Books, NEW n \in Nat, NEW e, EntryTypes(e), e.kind = "burn",
         EntryFits(e, w, b), AllSetAside(w, b, n)
  PROVE  AllSetAside(Moved(w, e), Applied(b, e), n)
<1> DEFINE v == Moved(w, e)
           c == Applied(b, e)
<1>1. /\ b.lpKeep \in Nat /\ b.lpSell \in Nat /\ b.burn \in Nat /\ b.creatorSell \in Nat
      /\ b.lpPair \in Nat /\ b.creatorPair \in Nat /\ b.creatorXnt \in Nat /\ b.reward \in Nat /\ b.owed \in Nat
  BY BooksFields
<1>2. w.token \in Nat /\ w.xnt \in Nat /\ w.pair \in Nat /\ w.reward \in Nat
  BY WalletFields
<1>3. e.in \in Nat /\ e.out \in Nat /\ e.lp \in Nat /\ e.creator \in Nat
  BY DEF EntryTypes
<1>4. e.in <= b.burn
  BY DEF EntryFits
<1>5. /\ v.token = w.token - e.in /\ v.xnt = w.xnt
      /\ v.pair = w.pair /\ v.reward = w.reward
  BY BurnMoves
<1>6. /\ c.lpKeep = b.lpKeep /\ c.lpSell = b.lpSell
      /\ c.burn = AtLeast0(b.burn - e.in) /\ c.creatorSell = b.creatorSell
      /\ c.lpPair = b.lpPair /\ c.creatorPair = b.creatorPair
      /\ c.creatorXnt = b.creatorXnt /\ c.reward = b.reward
      /\ c.owed = b.owed
  BY BurnBooks
<1> HIDE DEF v, c
<1>7. TokensOver(v, c) = TokensOver(w, b)
  BY <1>1, <1>2, <1>3, <1>4, <1>5, <1>6 DEF TokensOver, AtLeast0
<1>8. ProceedsOver(v, c) = ProceedsOver(w, b)
  BY <1>5, <1>6 DEF ProceedsOver
<1> QED
  BY <1>5, <1>6, <1>7, <1>8 DEF AllSetAside, v, c

(* liquidity added,                                                        *)
LEMMA LpLands ==
  ASSUME NEW w \in Wallets, NEW b \in Books, NEW n \in Nat, NEW e, EntryTypes(e), e.kind = "lp",
         EntryFits(e, w, b), AllSetAside(w, b, n)
  PROVE  AllSetAside(Moved(w, e), Applied(b, e), n)
<1> DEFINE v == Moved(w, e)
           c == Applied(b, e)
<1>1. /\ b.lpKeep \in Nat /\ b.lpSell \in Nat /\ b.burn \in Nat /\ b.creatorSell \in Nat
      /\ b.lpPair \in Nat /\ b.creatorPair \in Nat /\ b.creatorXnt \in Nat /\ b.reward \in Nat /\ b.owed \in Nat
  BY BooksFields
<1>2. w.token \in Nat /\ w.xnt \in Nat /\ w.pair \in Nat /\ w.reward \in Nat
  BY WalletFields
<1>3. e.in \in Nat /\ e.out \in Nat /\ e.lp \in Nat /\ e.creator \in Nat
  BY DEF EntryTypes
<1>4. e.in <= b.lpKeep /\ e.out <= b.lpPair
  BY DEF EntryFits
<1>5. /\ v.token = w.token - e.in /\ v.xnt = (IF paired THEN w.xnt ELSE w.xnt - e.out)
      /\ v.pair = (IF paired THEN w.pair - e.out ELSE w.pair) /\ v.reward = w.reward
  BY LpMoves
<1>6. /\ c.lpKeep = AtLeast0(b.lpKeep - e.in) /\ c.lpSell = b.lpSell
      /\ c.burn = b.burn /\ c.creatorSell = b.creatorSell
      /\ c.lpPair = AtLeast0(b.lpPair - e.out) /\ c.creatorPair = b.creatorPair
      /\ c.creatorXnt = b.creatorXnt /\ c.reward = b.reward
      /\ c.owed = b.owed
  BY LpBooks
<1> HIDE DEF v, c
<1>7. TokensOver(v, c) = TokensOver(w, b)
  BY <1>1, <1>2, <1>3, <1>4, <1>5, <1>6 DEF TokensOver, AtLeast0
<1>8. ProceedsOver(v, c) = ProceedsOver(w, b)
  BY <1>1, <1>2, <1>3, <1>4, <1>5, <1>6 DEF ProceedsOver, AtLeast0
<1> QED
  BY <1>5, <1>6, <1>7, <1>8 DEF AllSetAside, v, c

(* a sale, with one unit more to round,                                    *)
LEMMA SaleLands ==
  ASSUME NEW w \in Wallets, NEW b \in Books, NEW n \in Nat, NEW e, EntryTypes(e), e.kind = "sell",
         EntryFits(e, w, b), AllSetAside(w, b, n)
  PROVE  AllSetAside(Moved(w, e), Applied(b, e), n + 1)
<1> DEFINE v == Moved(w, e)
           c == Applied(b, e)
<1>1. /\ b.lpKeep \in Nat /\ b.lpSell \in Nat /\ b.burn \in Nat /\ b.creatorSell \in Nat
      /\ b.lpPair \in Nat /\ b.creatorPair \in Nat /\ b.creatorXnt \in Nat /\ b.reward \in Nat /\ b.owed \in Nat
  BY BooksFields
<1>2. w.token \in Nat /\ w.xnt \in Nat /\ w.pair \in Nat /\ w.reward \in Nat
  BY WalletFields
<1>3. e.in \in Nat /\ e.out \in Nat /\ e.lp \in Nat /\ e.creator \in Nat
  BY DEF EntryTypes
<1> DEFINE tokens == w.token - b.lpKeep - b.burn
           S == e.lp + e.creator - e.in
           p == (e.out * e.lp) \div e.in
           q == (e.out * e.creator) \div e.in
<1>4. /\ e.in \in 1..tokens /\ e.out <= e.in /\ tokens \in Nat \ {0}
      /\ e.lp = ShareOf(b.lpSell, e.in, tokens)
      /\ e.creator = ShareOf(b.creatorSell, e.in, tokens)
  BY <1>1, <1>2 DEF EntryFits
<1>5. PartOf(e.lp, e) = p /\ PartOf(e.creator, e) = q
  BY <1>3, <1>4 DEF PartOf
<1>6. p \in Nat /\ q \in Nat /\ p + q <= e.out + AtLeast0(S)
  <2>1. e.in \in Nat \ {0} /\ e.out \in 0..e.in
    <3> HIDE DEF tokens
    <3> QED
      BY <1>3, <1>4
  <2> QED
    BY <2>1, <1>3, PartsRound, Zenon
<1> HIDE DEF tokens
<1>7. /\ S <= 0 => b.lpSell + b.creatorSell - tokens - S <= AtLeast0(b.lpSell + b.creatorSell - tokens) + 1
      /\ S > 0 => S <= b.lpSell + b.creatorSell - tokens
  BY <1>1, <1>4, SharesRound
<1>8. e.lp <= b.lpSell /\ e.creator <= b.creatorSell
  <2>1. ShareOf(b.lpSell, e.in, tokens) <= b.lpSell
    BY <1>1, <1>4, ShareBounds
  <2>2. ShareOf(b.creatorSell, e.in, tokens) <= b.creatorSell
    BY <1>1, <1>4, ShareBounds
  <2> QED
    BY <2>1, <2>2, <1>4
<1>9. /\ v.token = w.token - e.in /\ v.xnt = (IF paired THEN w.xnt ELSE w.xnt + e.out)
      /\ v.pair = (IF paired THEN w.pair + e.out ELSE w.pair) /\ v.reward = w.reward
  BY SellMoves
<1>10. /\ c.lpKeep = b.lpKeep /\ c.lpSell = AtLeast0(b.lpSell - e.lp)
      /\ c.burn = b.burn /\ c.creatorSell = AtLeast0(b.creatorSell - e.creator)
      /\ c.lpPair = b.lpPair + p /\ c.creatorPair = (IF paired THEN b.creatorPair + q ELSE b.creatorPair)
      /\ c.creatorXnt = (IF paired THEN b.creatorXnt ELSE b.creatorXnt + q) /\ c.reward = b.reward
      /\ c.owed = b.owed
  BY SellBooks, <1>5
<1> HIDE DEF v, c
<1> HIDE DEF p, q
<1>11. TokensOver(w, b) = AtLeast0(b.lpSell + b.creatorSell - tokens)
  BY <1>1, <1>2 DEF TokensOver, tokens
<1>12. TokensOver(v, c) = AtLeast0(b.lpSell + b.creatorSell - tokens - S)
  <2>1. c.lpKeep + c.lpSell + c.burn + c.creatorSell - v.token = b.lpSell + b.creatorSell - tokens - S
    <3>1. c.lpSell = b.lpSell - e.lp /\ c.creatorSell = b.creatorSell - e.creator
      BY <1>1, <1>3, <1>8, <1>10, AtLeast0Type
    <3>2. c.lpKeep = b.lpKeep /\ c.burn = b.burn /\ v.token = w.token - e.in
      BY <1>9, <1>10
    <3> QED
      BY <3>1, <3>2, <1>1, <1>2, <1>3 DEF tokens
  <2> QED
    BY <2>1 DEF TokensOver
<1>13. ProceedsOver(v, c) <= ProceedsOver(w, b) + AtLeast0(S)
  BY <1>1, <1>2, <1>3, <1>6, <1>9, <1>10 DEF ProceedsOver, AtLeast0
<1>14. /\ TokensOver(v, c) \in Nat /\ TokensOver(w, b) \in Nat /\ S \in Int /\ tokens \in Int
       /\ ProceedsOver(w, b) \in Nat /\ ProceedsOver(v, c) \in Nat
  BY <1>1, <1>2, <1>3, <1>4, <1>6, <1>9, <1>10, <1>11, <1>12 DEF ProceedsOver, AtLeast0
<1> HIDE DEF S
<1>15. TokensOver(v, c) + ProceedsOver(v, c) <= TokensOver(w, b) + ProceedsOver(w, b) + 1
  <2> DEFINE D == b.lpSell + b.creatorSell - tokens
  <2>1. D \in Int
    BY <1>1, <1>14
  <2>2. TokensOver(w, b) = AtLeast0(D) /\ TokensOver(v, c) = AtLeast0(D - S)
    BY <1>11, <1>12, <1>1, <1>14
  <2>3. (S <= 0 => D - S <= AtLeast0(D) + 1) /\ (S > 0 => S <= D)
    BY <1>7, <1>1, <1>14
  <2> HIDE DEF D
  <2> QED
    BY <2>1, <2>2, <2>3, <1>13, <1>14 DEF AtLeast0
<1>16. paired => c.owed + c.creatorXnt <= v.xnt
  BY <1>9, <1>10 DEF AllSetAside
<1>17. c.reward <= v.reward
  BY <1>9, <1>10 DEF AllSetAside
<1>18. TokensOver(w, b) + ProceedsOver(w, b) <= n
  BY DEF AllSetAside
<1> QED
  BY <1>14, <1>15, <1>16, <1>17, <1>18 DEF AllSetAside, v, c

(* the pair swapped, with one unit more,                                   *)
LEMMA QuoteSwapLands ==
  ASSUME NEW w \in Wallets, NEW b \in Books, NEW n \in Nat, NEW e, EntryTypes(e), e.kind = "quote-swap",
         EntryFits(e, w, b), AllSetAside(w, b, n)
  PROVE  AllSetAside(Moved(w, e), Applied(b, e), n + 1)
<1> DEFINE v == Moved(w, e)
           c == Applied(b, e)
<1>1. /\ b.lpKeep \in Nat /\ b.lpSell \in Nat /\ b.burn \in Nat /\ b.creatorSell \in Nat
      /\ b.lpPair \in Nat /\ b.creatorPair \in Nat /\ b.creatorXnt \in Nat /\ b.reward \in Nat /\ b.owed \in Nat
  BY BooksFields
<1>2. w.token \in Nat /\ w.xnt \in Nat /\ w.pair \in Nat /\ w.reward \in Nat
  BY WalletFields
<1>3. e.in \in Nat /\ e.out \in Nat /\ e.lp \in Nat /\ e.creator \in Nat
  BY DEF EntryTypes
<1> DEFINE held == w.pair - b.lpPair
           S == e.creator - e.in
<1>4. /\ paired /\ e.in \in 1..held /\ e.out = e.in /\ held \in Nat \ {0}
      /\ e.creator = ShareOf(b.creatorPair, e.in, held)
  BY <1>1, <1>2 DEF EntryFits
<1>5. PartOf(e.creator, e) = e.creator
  <2>1. (e.in * e.creator) \div e.in = e.creator
    <3> DEFINE d == (e.in * e.creator) \div e.in
    <3>1. e.in * e.creator \in Nat /\ e.in \in Nat \ {0}
      BY <1>3, <1>4
    <3>2. d \in Nat /\ e.in * d \in Nat /\ e.in * d <= e.in * e.creator /\ e.in * e.creator < e.in * d + e.in
      BY <3>1, DivFacts
    <3> HIDE DEF d
    <3>3. d <= e.creator
      BY <3>1, <3>2, <1>3, Cancel
    <3>4. ~(d + 1 <= e.creator)
      <4> SUFFICES ASSUME d + 1 <= e.creator PROVE FALSE
        OBVIOUS
      <4>1. e.in * (d + 1) <= e.in * e.creator
        BY <1>3, <3>1, <3>2, ProductBelow
      <4> QED
        BY <4>1, <3>1, <3>2, <1>3
    <3> QED
      BY <3>2, <3>3, <3>4, <1>3 DEF d
  <2> QED
    BY <2>1, <1>3, <1>4 DEF PartOf
<1> HIDE DEF held
<1>6. e.creator <= b.creatorPair /\ e.creator <= e.in
  <2>1. ShareOf(b.creatorPair, e.in, held) <= b.creatorPair
    BY <1>1, <1>4, ShareSmall
  <2>2. ShareOf(b.creatorPair, e.in, held) <= e.in
    BY <1>1, <1>4, ShareSmall
  <2> QED
    BY <2>1, <2>2, <1>4
<1>7. S <= 0 => b.creatorPair - held - S <= AtLeast0(b.creatorPair - held) + 1
  <2>1. ShareOf(0, e.in, held) = 0
    <3>1. ShareOf(0, e.in, held) \in Nat /\ ShareOf(0, e.in, held) <= 0
      BY <1>4, ShareBounds
    <3> QED
      BY <3>1
  <2>2. LET R == e.creator + 0 - e.in
        IN R <= 0 => b.creatorPair + 0 - held - R <= AtLeast0(b.creatorPair + 0 - held) + 1
    BY <2>1, <1>1, <1>4, SharesRound
  <2> QED
    BY <2>2, <1>1, <1>3, <1>4
<1>8. /\ v.token = w.token /\ v.xnt = w.xnt + e.out
      /\ v.pair = w.pair - e.in /\ v.reward = w.reward
  BY QuoteSwapMoves
<1>9. /\ c.lpKeep = b.lpKeep /\ c.lpSell = b.lpSell
      /\ c.burn = b.burn /\ c.creatorSell = b.creatorSell
      /\ c.lpPair = b.lpPair /\ c.creatorPair = AtLeast0(b.creatorPair - e.creator)
      /\ c.creatorXnt = b.creatorXnt + e.creator /\ c.reward = b.reward
      /\ c.owed = b.owed
  BY QuoteSwapBooks, <1>5
<1> HIDE DEF v, c
<1>10. TokensOver(v, c) = TokensOver(w, b)
  BY <1>8, <1>9 DEF TokensOver
<1>11. ProceedsOver(w, b) = AtLeast0(b.creatorPair - held)
  BY <1>1, <1>2, <1>4 DEF ProceedsOver, held
<1>12. ProceedsOver(v, c) = AtLeast0(b.creatorPair - held - S)
  <2>1. c.lpPair + c.creatorPair - v.pair = b.creatorPair - held - S
    BY <1>1, <1>2, <1>3, <1>6, <1>8, <1>9 DEF AtLeast0, held
  <2> QED
    BY <2>1, <1>4 DEF ProceedsOver
<1>13. TokensOver(w, b) \in Nat /\ held \in Int /\ b.creatorPair - held \in Int /\ b.creatorPair - held - S \in Int
  BY <1>1, <1>2, <1>3, <1>4 DEF TokensOver, AtLeast0
<1>14. ProceedsOver(v, c) <= ProceedsOver(w, b) + 1 /\ ProceedsOver(v, c) \in Nat /\ ProceedsOver(w, b) \in Nat
  BY <1>3, <1>6, <1>7, <1>11, <1>12, <1>13 DEF AtLeast0
<1>15. c.owed + c.creatorXnt <= v.xnt /\ c.reward <= v.reward
  BY <1>1, <1>2, <1>3, <1>4, <1>6, <1>8, <1>9 DEF AllSetAside
<1> QED
  BY <1>10, <1>13, <1>14, <1>15 DEF AllSetAside, v, c

(* XNT swapped for the reward token,                                       *)
LEMMA CreatorSwapLands ==
  ASSUME NEW w \in Wallets, NEW b \in Books, NEW n \in Nat, NEW e, EntryTypes(e), e.kind = "creator-swap",
         EntryFits(e, w, b), AllSetAside(w, b, n)
  PROVE  AllSetAside(Moved(w, e), Applied(b, e), n)
<1> DEFINE v == Moved(w, e)
           c == Applied(b, e)
<1>1. /\ b.lpKeep \in Nat /\ b.lpSell \in Nat /\ b.burn \in Nat /\ b.creatorSell \in Nat
      /\ b.lpPair \in Nat /\ b.creatorPair \in Nat /\ b.creatorXnt \in Nat /\ b.reward \in Nat /\ b.owed \in Nat
  BY BooksFields
<1>2. w.token \in Nat /\ w.xnt \in Nat /\ w.pair \in Nat /\ w.reward \in Nat
  BY WalletFields
<1>3. e.in \in Nat /\ e.out \in Nat /\ e.lp \in Nat /\ e.creator \in Nat
  BY DEF EntryTypes
<1>4. e.in = b.creatorXnt /\ e.out = e.in
  BY DEF EntryFits
<1>5. /\ v.token = w.token /\ v.xnt = w.xnt - e.in
      /\ v.pair = w.pair /\ v.reward = w.reward + e.out
  BY CreatorSwapMoves
<1>6. /\ c.lpKeep = b.lpKeep /\ c.lpSell = b.lpSell
      /\ c.burn = b.burn /\ c.creatorSell = b.creatorSell
      /\ c.lpPair = b.lpPair /\ c.creatorPair = b.creatorPair
      /\ c.creatorXnt = AtLeast0(b.creatorXnt - e.in) /\ c.reward = b.reward + e.out
      /\ c.owed = b.owed
  BY CreatorSwapBooks
<1> HIDE DEF v, c
<1>7. TokensOver(v, c) = TokensOver(w, b)
  BY <1>5, <1>6 DEF TokensOver
<1>8. ProceedsOver(v, c) = ProceedsOver(w, b)
  BY <1>1, <1>2, <1>3, <1>4, <1>5, <1>6 DEF ProceedsOver, AtLeast0
<1>9. (paired => c.owed + c.creatorXnt <= v.xnt) /\ c.reward <= v.reward
  BY <1>1, <1>2, <1>3, <1>4, <1>5, <1>6 DEF AllSetAside, AtLeast0
<1> QED
  BY <1>7, <1>8, <1>9 DEF AllSetAside, v, c

(* a deposit for the creator.                                              *)
LEMMA DepositLands ==
  ASSUME NEW w \in Wallets, NEW b \in Books, NEW n \in Nat, NEW e, EntryTypes(e), e.kind = "creator",
         EntryFits(e, w, b), AllSetAside(w, b, n)
  PROVE  AllSetAside(Moved(w, e), Applied(b, e), n)
<1> DEFINE v == Moved(w, e)
           c == Applied(b, e)
<1>1. /\ b.lpKeep \in Nat /\ b.lpSell \in Nat /\ b.burn \in Nat /\ b.creatorSell \in Nat
      /\ b.lpPair \in Nat /\ b.creatorPair \in Nat /\ b.creatorXnt \in Nat /\ b.reward \in Nat /\ b.owed \in Nat
  BY BooksFields
<1>2. w.token \in Nat /\ w.xnt \in Nat /\ w.pair \in Nat /\ w.reward \in Nat
  BY WalletFields
<1>3. e.in \in Nat /\ e.out \in Nat /\ e.lp \in Nat /\ e.creator \in Nat
  BY DEF EntryTypes
<1>4. e.in = IF otherReward THEN b.reward ELSE b.creatorXnt
  BY DEF EntryFits
<1>5. /\ v.token = w.token /\ v.pair = w.pair
      /\ v.xnt = (IF otherReward THEN w.xnt ELSE w.xnt - e.in) /\ v.reward = (IF otherReward THEN w.reward - e.in ELSE w.reward)
  BY RewardMoves, CreatorMoves
<1>6. /\ c.lpKeep = b.lpKeep /\ c.lpSell = b.lpSell
      /\ c.burn = b.burn /\ c.creatorSell = b.creatorSell
      /\ c.lpPair = b.lpPair /\ c.creatorPair = b.creatorPair
      /\ c.creatorXnt = (IF otherReward THEN b.creatorXnt ELSE AtLeast0(b.creatorXnt - e.in)) /\ c.reward = (IF otherReward THEN AtLeast0(b.reward - e.in) ELSE b.reward)
      /\ c.owed = b.owed
  BY RewardBooks, CreatorBooks
<1> HIDE DEF v, c
<1>7. TokensOver(v, c) = TokensOver(w, b)
  BY <1>5, <1>6 DEF TokensOver
<1>8. ProceedsOver(v, c) = ProceedsOver(w, b)
  BY <1>1, <1>2, <1>3, <1>4, <1>5, <1>6 DEF ProceedsOver, AtLeast0
<1>9. (paired => c.owed + c.creatorXnt <= v.xnt) /\ c.reward <= v.reward
  BY <1>1, <1>2, <1>3, <1>4, <1>5, <1>6 DEF AllSetAside, AtLeast0
<1> QED
  BY <1>7, <1>8, <1>9 DEF AllSetAside, v, c

(* So each kind does.                                                      *)
LEMMA LandsSetAside ==
  ASSUME NEW w \in Wallets, NEW b \in Books, NEW n \in Nat, NEW e, EntryTypes(e),
         EntryFits(e, w, b), AllSetAside(w, b, n)
  PROVE  AllSetAside(Moved(w, e), Applied(b, e), IF e.kind \in {"sell", "quote-swap"} THEN n + 1 ELSE n)
<1>1. CASE e.kind = "withdraw"
  BY <1>1, WithdrawLands
<1>2. CASE e.kind = "burn"
  BY <1>2, BurnLands
<1>3. CASE e.kind = "sell"
  BY <1>3, SaleLands
<1>4. CASE e.kind = "lp"
  BY <1>4, LpLands
<1>5. CASE e.kind = "quote-swap"
  BY <1>5, QuoteSwapLands
<1>6. CASE e.kind = "creator-swap"
  BY <1>6, CreatorSwapLands
<1>7. CASE e.kind = "creator"
  BY <1>7, DepositLands
<1> QED
  BY <1>1, <1>2, <1>3, <1>4, <1>5, <1>6, <1>7 DEF EntryTypes, Kinds

(* Wallets stay wallets, and books books.                                  *)
LEMMA MovedType ==
  ASSUME NEW w \in Wallets, NEW e, EntryTypes(e), Whole(Moved(w, e))
  PROVE  Moved(w, e) \in Wallets
BY WithdrawMoves, BurnMoves, SellMoves, LpMoves, QuoteSwapMoves, CreatorSwapMoves, RewardMoves, CreatorMoves
   DEF EntryTypes, Kinds

(* Books stay books.                                                       *)
LEMMA AppliedType ==
  ASSUME NEW b \in Books, NEW e, EntryTypes(e)
  PROVE  Applied(b, e) \in Books
BY WithdrawBooks, BurnBooks, SellBooks, LpBooks, QuoteSwapBooks, CreatorSwapBooks, RewardBooks, CreatorBooks
   DEF EntryTypes, Kinds

(* What is newly owed to holders passes a transaction by.                  *)
LEMMA OwedPasses ==
  ASSUME NEW b \in Books, NEW a \in Books, NEW e, EntryTypes(e),
         a.lpKeep = b.lpKeep, a.lpSell = b.lpSell, a.burn = b.burn, a.creatorSell = b.creatorSell,
         a.lpPair = b.lpPair, a.creatorPair = b.creatorPair, a.creatorXnt = b.creatorXnt, a.reward = b.reward
  PROVE  LET c == Applied(b, e)
             d == Applied(a, e)
         IN /\ d.owed = a.owed /\ c.owed = b.owed
            /\ d.lpKeep = c.lpKeep /\ d.lpSell = c.lpSell /\ d.burn = c.burn
            /\ d.creatorSell = c.creatorSell /\ d.lpPair = c.lpPair
            /\ d.creatorPair = c.creatorPair /\ d.creatorXnt = c.creatorXnt /\ d.reward = c.reward
<1>1. CASE e.kind = "withdraw"
  BY <1>1, WithdrawBooks
<1>2. CASE e.kind = "burn"
  BY <1>2, BurnBooks
<1>3. CASE e.kind = "sell"
  BY <1>3, SellBooks
<1>4. CASE e.kind = "lp"
  BY <1>4, LpBooks
<1>5. CASE e.kind = "quote-swap"
  BY <1>5, QuoteSwapBooks
<1>6. CASE e.kind = "creator-swap"
  BY <1>6, CreatorSwapBooks
<1>7. CASE e.kind = "creator"
  BY <1>7, RewardBooks, CreatorBooks
<1> QED
  BY <1>1, <1>2, <1>3, <1>4, <1>5, <1>6, <1>7 DEF EntryTypes, Kinds

(* The invariant holds at first.                                           *)
LEMMA TaxStart == TaxInit => TaxInv
<1> SUFFICES ASSUME TaxInit PROVE TaxInv
  OBVIOUS
<1>1. PICK amount \in Withdrawals :
        /\ wallet = [token |-> amount, xnt |-> 0, pair |-> 0, reward |-> 0]
        /\ books = Applied(NoBooks, [NoEntry EXCEPT !.kind = "withdraw", !.in = amount])
  BY DEF TaxInit
<1> DEFINE e == [NoEntry EXCEPT !.kind = "withdraw", !.in = amount]
<1>2. amount \in Nat
  BY TaxAssumption
<1>3. EntryTypes(e) /\ e.kind = "withdraw" /\ e.in = amount
  BY <1>2 DEF EntryTypes, Kinds, NoEntry
<1>4. NoBooks \in Books
  <2>1. NoBooks = [x \in BookNames |-> NoBooks[x]]
    BY DEF NoBooks, BookNames
  <2> QED
    BY <2>1, BooksMember DEF NoBooks
<1>5. wallet \in Wallets
  <2>1. wallet = [x \in Accounts |-> wallet[x]]
    BY <1>1 DEF Accounts
  <2> QED
    BY <2>1, <1>1, <1>2, WalletMember
<1> HIDE DEF e
<1> DEFINE s == Split(amount)
<1>6. s.burn \in Nat /\ s.keep \in Nat /\ s.sell \in Nat /\ s.creator \in Nat /\ s.burn + s.keep + s.sell + s.creator <= amount
  BY <1>2, SplitFits
<1>7. /\ books \in Books
      /\ books.lpKeep = s.keep /\ books.lpSell = s.sell /\ books.burn = s.burn /\ books.creatorSell = s.creator
      /\ books.lpPair = 0 /\ books.creatorPair = 0 /\ books.creatorXnt = 0 /\ books.reward = 0 /\ books.owed = 0
  <2>1. LET c == Applied(NoBooks, e)
        IN /\ c \in Books
           /\ c.lpKeep = NoBooks.lpKeep + s.keep /\ c.lpSell = NoBooks.lpSell + s.sell
           /\ c.burn = NoBooks.burn + s.burn /\ c.creatorSell = NoBooks.creatorSell + s.creator
           /\ c.lpPair = NoBooks.lpPair /\ c.creatorPair = NoBooks.creatorPair
           /\ c.creatorXnt = NoBooks.creatorXnt /\ c.reward = NoBooks.reward /\ c.owed = NoBooks.owed
    BY <1>3, <1>4, WithdrawBooks
  <2>2. books = Applied(NoBooks, e)
    BY <1>1 DEF e
  <2> HIDE DEF s
  <2> QED
    BY <2>1, <2>2, <1>6 DEF NoBooks
<1> HIDE DEF s
<1>8. wallet.token = amount /\ wallet.xnt = 0 /\ wallet.pair = 0 /\ wallet.reward = 0
  BY <1>1
<1>9. AllSetAside(wallet, books, 0)
  BY <1>2, <1>6, <1>7, <1>8 DEF AllSetAside, TokensOver, ProceedsOver, AtLeast0
<1> QED
  BY <1>5, <1>7, <1>9 DEF TaxInit, TaxInv, Free

(* Journaling a transaction that fits keeps it.                            *)
LEMMA JournalTxKeeps ==
  ASSUME TaxInv, NEW e, JournalTx(e), EntryTypes(e), stage = StageOf(e.kind), EntryFits(e, wallet, books),
         e # NoEntry
  PROVE  TaxInv'
<1>1. Free /\ onChain = "none"
  BY DEF JournalTx, TaxInv
<1>2. /\ wallet' = wallet /\ books' = books /\ sales' = sales /\ paired' = paired /\ otherReward' = otherReward
      /\ taxRaced' = taxRaced /\ past' = FALSE /\ onChain' = "signed" /\ inflight' = e /\ stage' = stage
  BY DEF JournalTx, Quiet
<1>3. EntryFits(inflight, wallet, books)'
  BY <1>2 DEF EntryFits
<1>4. ~taxRaced => AllSetAside(wallet, books, sales)'
  BY <1>1, <1>2 DEF TaxInv, AllSetAside, TokensOver, ProceedsOver
<1> QED
  BY <1>1, <1>2, <1>3, <1>4 DEF TaxInv, Free

(* Every step keeps it.                                                    *)
LEMMA TaxKeeps == TaxInv /\ [TaxNext]_taxVars => TaxInv'
<1> SUFFICES ASSUME TaxInv, [TaxNext]_taxVars PROVE TaxInv'
  OBVIOUS
<1>1. /\ wallet \in Wallets /\ books \in Books /\ sales \in Nat
      /\ wallet.token \in Nat /\ wallet.xnt \in Nat /\ wallet.pair \in Nat /\ wallet.reward \in Nat
  BY WalletFields DEF TaxInv
<1>2. /\ books.lpKeep \in Nat /\ books.lpSell \in Nat /\ books.burn \in Nat /\ books.creatorSell \in Nat
      /\ books.lpPair \in Nat /\ books.creatorPair \in Nat /\ books.creatorXnt \in Nat
      /\ books.reward \in Nat /\ books.owed \in Nat
  BY <1>1, BooksFields
<1>3. \A e : NoEntry.kind = "none" /\ (e.kind # "none" => e # NoEntry)
  BY DEF NoEntry
<1>0. ASSUME wallet' = wallet, books' = books, inflight' = inflight, sales' = sales, onChain' = onChain,
             taxRaced' = taxRaced, paired' = paired, otherReward' = otherReward, past' \in BOOLEAN,
             Free \/ stage' = stage \/ stage' \in {"idle", "resolve"}
      PROVE  TaxInv'
  <2> DEFINE c == Applied(books, inflight)
  <2>1. c' = c
    BY <1>0 DEF Applied, PartOf
  <2>2. Free' = Free
    BY <1>0 DEF Free
  <2>3. EntryFits(inflight, wallet, books)' = EntryFits(inflight, wallet, books)
    BY <1>0 DEF EntryFits
  <2>4. AllSetAside(wallet, books, sales)' = AllSetAside(wallet, books, sales)
    BY <1>0 DEF AllSetAside, TokensOver, ProceedsOver
  <2> HIDE DEF c
  <2>5. AllSetAside(wallet, c, sales)' = AllSetAside(wallet, c, sales)
    BY <1>0, <2>1 DEF AllSetAside, TokensOver, ProceedsOver
  <2>6. (~taxRaced => AllSetAside(wallet, IF onChain = "ok" THEN c ELSE books, sales))'
    BY <1>0, <2>4, <2>5 DEF TaxInv, c
  <2>7. (~Free => EntryTypes(inflight) /\ (stage \notin {"idle", "resolve"} => stage = StageOf(inflight.kind)))'
    BY <1>0, <2>2 DEF TaxInv
  <2> QED
    BY <1>0, <2>2, <2>3, <2>6, <2>7 DEF TaxInv, c
<1>4. ASSUME OnlyStage, Free \/ stage' \in {"idle", "resolve"} PROVE TaxInv'
  BY <1>0, <1>4 DEF TaxInv, OnlyStage, Quiet
<1>5. ASSUME BeginTaxCycle PROVE TaxInv'
  BY <1>4, <1>5 DEF BeginTaxCycle, Goes
<1>6. ASSUME SkipStage PROVE TaxInv'
  BY <1>4, <1>6 DEF SkipStage
<1>7. ASSUME EndTaxCycle PROVE TaxInv'
  BY <1>4, <1>7 DEF EndTaxCycle, Goes
<1>8. ASSUME BroadcastTx PROVE TaxInv'
  BY <1>8 DEF TaxInv, BroadcastTx, Quiet, Free, EntryFits, AllSetAside, TokensOver, ProceedsOver
<1>9. ASSUME BlocksPass PROVE TaxInv'
  BY <1>0, <1>9 DEF BlocksPass, Quiet
<1>10. ASSUME Apply PROVE TaxInv'
  <2>1. onChain = "ok" /\ ~Free /\ EntryTypes(inflight)
    BY <1>10 DEF Apply, TaxOutcomes, TaxInv
  <2>2. /\ books' = Applied(books, inflight) /\ inflight' = NoEntry /\ onChain' = "none" /\ past' = FALSE
        /\ wallet' = wallet /\ sales' = sales /\ taxRaced' = taxRaced /\ paired' = paired /\ otherReward' = otherReward
    BY <1>10 DEF Apply, TxResolved, Quiet
  <2>3. books' \in Books
    BY <2>1, <2>2, <1>1, AppliedType
  <2>4. ~taxRaced => AllSetAside(wallet, Applied(books, inflight), sales)
    BY <2>1 DEF TaxInv
  <2>5. ~taxRaced => AllSetAside(wallet, books, sales)'
    BY <2>2, <2>4 DEF AllSetAside, TokensOver, ProceedsOver
  <2> QED
    BY <2>2, <2>3, <2>5 DEF TaxInv, Free
<1>11. ASSUME DropTx PROVE TaxInv'
  <2>1. onChain \in {"ok", "err"} \/ past
    BY <1>11 DEF DropTx, TaxOutcomes
  <2>2. /\ books' = books /\ inflight' = NoEntry /\ onChain' = "none" /\ past' = FALSE
        /\ wallet' = wallet /\ sales' = sales /\ taxRaced' = (taxRaced \/ onChain = "ok")
        /\ paired' = paired /\ otherReward' = otherReward
    BY <1>11 DEF DropTx, TxResolved, Quiet
  <2>3. ~taxRaced' => AllSetAside(wallet, books, sales)
    BY <2>2 DEF TaxInv
  <2>4. (~taxRaced => AllSetAside(wallet, books, sales))'
    BY <2>2, <2>3 DEF AllSetAside, TokensOver, ProceedsOver
  <2> QED
    BY <2>2, <2>4 DEF TaxInv, Free
<1>12. ASSUME TaxLands PROVE TaxInv'
  <2>1. onChain = "sent" /\ ~Free /\ EntryTypes(inflight) /\ EntryFits(inflight, wallet, books)
    BY <1>12 DEF TaxLands, TaxInv
  <2>2. /\ books' = books /\ inflight' = inflight /\ past' = past /\ stage' = stage /\ taxRaced' = taxRaced
        /\ paired' = paired /\ otherReward' = otherReward
    BY <1>12 DEF TaxLands, Quiet
  <2>3. CASE onChain' = "err" /\ wallet' = wallet /\ sales' = sales
    BY <2>1, <2>2, <2>3 DEF TaxInv, Free, EntryFits, AllSetAside, TokensOver, ProceedsOver
  <2>4. CASE /\ onChain' = "ok" /\ wallet' = Moved(wallet, inflight) /\ Whole(wallet')
             /\ sales' = IF inflight.kind \in {"sell", "quote-swap"} THEN sales + 1 ELSE sales
    <3>1. wallet' \in Wallets
      BY <2>1, <2>4, <1>1, MovedType
    <3>2. ~taxRaced => AllSetAside(wallet, books, sales)
      BY <2>1 DEF TaxInv
    <3>3. ~taxRaced => AllSetAside(Moved(wallet, inflight), Applied(books, inflight),
                                   IF inflight.kind \in {"sell", "quote-swap"} THEN sales + 1 ELSE sales)
      BY <3>2, <2>1, <1>1, LandsSetAside
    <3> DEFINE v == Moved(wallet, inflight)
               c == Applied(books, inflight)
    <3>4. Applied(books, inflight)' = c
      BY <2>2 DEF Applied, PartOf
    <3>5. ~taxRaced => AllSetAside(v, c, sales')
      BY <3>3, <2>4
    <3>6. wallet' = v
      BY <2>4
    <3> HIDE DEF v, c
    <3>7. ~taxRaced => AllSetAside(wallet, Applied(books, inflight), sales)'
      BY <3>4, <3>5, <3>6, <2>2 DEF AllSetAside, TokensOver, ProceedsOver
    <3>8. sales' \in Nat
      BY <2>4, <1>1
    <3> QED
      BY <2>1, <2>2, <2>4, <3>1, <3>7, <3>8 DEF TaxInv, Free
  <2> QED
    BY <1>12, <2>3, <2>4 DEF TaxLands
<1>13. ASSUME Withdraw PROVE TaxInv'
  <2>1. PICK amount \in Withdrawals : JournalTx([NoEntry EXCEPT !.kind = "withdraw", !.in = amount])
    BY <1>13 DEF Withdraw
  <2> DEFINE e == [NoEntry EXCEPT !.kind = "withdraw", !.in = amount]
  <2>2. EntryTypes(e) /\ e.kind = "withdraw"
    BY TaxAssumption DEF EntryTypes, Kinds, NoEntry
  <2>3. JournalTx(e)
    BY <2>1
  <2> HIDE DEF e
  <2>4. stage = StageOf(e.kind) /\ EntryFits(e, wallet, books)
    BY <2>2, <1>13 DEF Withdraw, StageOf, EntryFits
  <2> QED
    BY <2>2, <2>3, <2>4, <1>3, JournalTxKeeps
<1>14. ASSUME BurnTax PROVE TaxInv'
  <2> DEFINE amount == Lesser(books.burn, wallet.token)
  <2>1. JournalTx([NoEntry EXCEPT !.kind = "burn", !.in = amount])
    BY <1>14 DEF BurnTax
  <2>2. amount \in Nat /\ amount <= books.burn
    BY <1>1, <1>2 DEF Lesser
  <2> HIDE DEF amount
  <2> DEFINE e == [NoEntry EXCEPT !.kind = "burn", !.in = amount]
  <2>3. EntryTypes(e) /\ e.kind = "burn" /\ e.in = amount
    BY <2>2 DEF EntryTypes, Kinds, NoEntry
  <2>4. JournalTx(e)
    BY <2>1
  <2> HIDE DEF e
  <2>5. stage = StageOf(e.kind) /\ EntryFits(e, wallet, books)
    BY <2>2, <2>3, <1>14 DEF BurnTax, StageOf, EntryFits
  <2> QED
    BY <2>3, <2>4, <2>5, <1>3, JournalTxKeeps
<1>15. ASSUME BalanceLp PROVE TaxInv'
  <2>1. PICK keep \in 0..(books.lpKeep + books.lpSell) :
          books' = [books EXCEPT !.lpKeep = keep, !.lpSell = books.lpKeep + books.lpSell - keep]
    BY <1>15 DEF BalanceLp
  <2> DEFINE c == [books EXCEPT !.lpKeep = keep, !.lpSell = books.lpKeep + books.lpSell - keep]
  <2>2. /\ wallet' = wallet /\ inflight' = inflight /\ onChain' = onChain /\ past' = past /\ sales' = sales
        /\ taxRaced' = taxRaced /\ paired' = paired /\ otherReward' = otherReward
    BY <1>15 DEF BalanceLp, Quiet
  <2>3. Free /\ onChain = "none"
    BY <1>15 DEF BalanceLp, TaxInv, StageOf
  <2>4. keep \in Nat /\ books.lpKeep + books.lpSell - keep \in Nat
    BY <1>2
  <2>5. /\ c.lpKeep = keep /\ c.lpSell = books.lpKeep + books.lpSell - keep
        /\ c.burn = books.burn /\ c.creatorSell = books.creatorSell /\ c.lpPair = books.lpPair
        /\ c.creatorPair = books.creatorPair /\ c.creatorXnt = books.creatorXnt
        /\ c.reward = books.reward /\ c.owed = books.owed
    BY <1>1 DEF Books, BookNames
  <2>6. c = [x \in BookNames |-> c[x]]
    BY <1>1, Zenon DEF Books
  <2>7. books' = c
    BY <2>1
  <2> HIDE DEF c
  <2>8. c \in Books
    BY <2>4, <2>5, <2>6, <1>2, BooksMember
  <2>9. ~taxRaced => AllSetAside(wallet, books, sales)
    BY <2>3 DEF TaxInv
  <2>10. c.lpKeep + c.lpSell + c.burn + c.creatorSell = books.lpKeep + books.lpSell + books.burn + books.creatorSell
    BY <2>4, <2>5, <1>2
  <2>11. (~taxRaced => AllSetAside(wallet, books, sales))'
    <3>1. TokensOver(wallet, books)' = TokensOver(wallet, books)
      BY <2>2, <2>4, <2>5, <2>7, <2>10, <1>1, <1>2 DEF TokensOver
    <3>2. ProceedsOver(wallet, books)' = ProceedsOver(wallet, books)
      BY <2>2, <2>5, <2>7 DEF ProceedsOver
    <3> QED
      BY <2>2, <2>5, <2>7, <2>9, <3>1, <3>2 DEF AllSetAside
  <2> QED
    BY <2>2, <2>3, <2>7, <2>8, <2>11 DEF TaxInv, Free
<1>16. ASSUME Sell PROVE TaxInv'
  <2>1. PICK sold \in 1..Sellable, price \in {1, 2} :
          JournalTx([kind |-> "sell", in |-> sold, out |-> sold \div price,
                     lp |-> ShareOf(books.lpSell, sold, Sellable), creator |-> ShareOf(books.creatorSell, sold, Sellable)])
    BY <1>16 DEF Sell
  <2> DEFINE tokens == wallet.token - books.lpKeep - books.burn
             lp == ShareOf(books.lpSell, sold, tokens)
             cr == ShareOf(books.creatorSell, sold, tokens)
             out == sold \div price
             e == [kind |-> "sell", in |-> sold, out |-> out, lp |-> lp, creator |-> cr]
  <2>2. Sellable = tokens /\ sold \in 1..tokens /\ tokens \in Nat \ {0} /\ sold \in Nat
    BY <1>1, <1>2 DEF Sellable, AtLeast0
  <2>3. out \in Nat /\ out <= sold
    <3>1. price = 1 \/ price = 2
      BY <2>1
    <3>2. sold \div 1 = sold /\ sold \div 2 \in Nat /\ sold \div 2 <= sold
      BY <2>2
    <3> QED
      BY <3>1, <3>2, <2>2
  <2>4. lp \in Nat /\ cr \in Nat
    <3> HIDE DEF tokens
    <3>1. lp \in Nat
      BY <2>2, <1>2, ShareBounds
    <3>2. cr \in Nat
      BY <2>2, <1>2, ShareBounds
    <3> QED
      BY <3>1, <3>2
  <2>5. JournalTx(e)
    BY <2>1, <2>2
  <2>6. e.kind = "sell" /\ e.in = sold /\ e.out = out /\ e.lp = lp /\ e.creator = cr
    OBVIOUS
  <2> HIDE DEF e, out
  <2>7. EntryTypes(e)
    BY <2>2, <2>3, <2>4, <2>6 DEF EntryTypes, Kinds
  <2>8. EntryFits(e, wallet, books)
    BY <2>2, <2>3, <2>6 DEF EntryFits
  <2>9. stage = StageOf(e.kind)
    BY <2>6, <1>16 DEF Sell, StageOf
  <2> QED
    BY <2>5, <2>6, <2>7, <2>8, <2>9, <1>3, JournalTxKeeps
<1>17. ASSUME AutoLp PROVE TaxInv'
  <2>1. PICK tokens \in 1..Lesser(books.lpKeep, wallet.token) :
          \E others \in 1..(IF paired THEN Lesser(books.lpPair, wallet.pair) ELSE books.lpPair) :
            JournalTx([NoEntry EXCEPT !.kind = "lp", !.in = tokens, !.out = others])
    BY <1>17 DEF AutoLp
  <2>2. PICK others \in 1..(IF paired THEN Lesser(books.lpPair, wallet.pair) ELSE books.lpPair) :
          JournalTx([NoEntry EXCEPT !.kind = "lp", !.in = tokens, !.out = others])
    BY <2>1
  <2>3. tokens \in Nat /\ tokens <= books.lpKeep /\ others \in Nat /\ others <= books.lpPair
    BY <1>1, <1>2 DEF Lesser
  <2> DEFINE e == [NoEntry EXCEPT !.kind = "lp", !.in = tokens, !.out = others]
  <2>4. EntryTypes(e) /\ e.kind = "lp" /\ e.in = tokens /\ e.out = others
    BY <2>3 DEF EntryTypes, Kinds, NoEntry
  <2>5. JournalTx(e)
    BY <2>2
  <2> HIDE DEF e
  <2>6. stage = StageOf(e.kind) /\ EntryFits(e, wallet, books)
    BY <2>3, <2>4, <1>17 DEF AutoLp, StageOf, EntryFits
  <2> QED
    BY <2>4, <2>5, <2>6, <1>3, JournalTxKeeps
<1>18. ASSUME SwapQuote PROVE TaxInv'
  <2>1. PICK sold \in 1..Swappable :
          JournalTx([NoEntry EXCEPT !.kind = "quote-swap", !.in = sold, !.out = sold,
                                    !.creator = ShareOf(books.creatorPair, sold, Swappable)])
    BY <1>18 DEF SwapQuote
  <2> DEFINE held == wallet.pair - books.lpPair
             cr == ShareOf(books.creatorPair, sold, held)
             e == [NoEntry EXCEPT !.kind = "quote-swap", !.in = sold, !.out = sold, !.creator = cr]
  <2>2. Swappable = held /\ sold \in 1..held /\ held \in Nat \ {0} /\ sold \in Nat
    BY <1>1, <1>2 DEF Swappable, AtLeast0
  <2>3. cr \in Nat
    <3> HIDE DEF held
    <3> QED
      BY <2>2, <1>2, ShareBounds
  <2>4. JournalTx(e)
    BY <2>1, <2>2
  <2>5. e.kind = "quote-swap" /\ e.in = sold /\ e.out = sold /\ e.lp = 0 /\ e.creator = cr
    BY DEF NoEntry
  <2> HIDE DEF e
  <2>6. EntryTypes(e)
    BY <2>2, <2>3, <2>5 DEF EntryTypes, Kinds
  <2>7. EntryFits(e, wallet, books)
    BY <2>2, <2>5, <1>18 DEF EntryFits, SwapQuote
  <2>8. stage = StageOf(e.kind)
    BY <2>5, <1>18 DEF SwapQuote, StageOf
  <2> QED
    BY <2>4, <2>5, <2>6, <2>7, <2>8, <1>3, JournalTxKeeps
<1>19. ASSUME CreatorReward PROVE TaxInv'
  <2>1. ASSUME NEW e, JournalTx(e), e.kind = "creator", e.in = IF otherReward THEN books.reward ELSE books.creatorXnt,
               e.out = 0, e.lp = 0, e.creator = 0
        PROVE  TaxInv'
    <3>1. EntryTypes(e)
      BY <2>1, <1>2 DEF EntryTypes, Kinds
    <3>2. stage = StageOf(e.kind) /\ EntryFits(e, wallet, books)
      BY <2>1, <1>19 DEF CreatorReward, StageOf, EntryFits
    <3> QED
      BY <2>1, <3>1, <3>2, <1>3, JournalTxKeeps
  <2>2. ASSUME ~otherReward, JournalTx([NoEntry EXCEPT !.kind = "creator", !.in = books.creatorXnt]) PROVE TaxInv'
    <3> DEFINE e == [NoEntry EXCEPT !.kind = "creator", !.in = books.creatorXnt]
    <3>1. e.kind = "creator" /\ e.in = books.creatorXnt /\ e.out = 0 /\ e.lp = 0 /\ e.creator = 0
      BY DEF NoEntry
    <3>2. JournalTx(e)
      BY <2>2
    <3> HIDE DEF e
    <3> QED
      BY <2>1, <2>2, <3>1, <3>2
  <2>3. ASSUME otherReward, JournalTx([NoEntry EXCEPT !.kind = "creator", !.in = books.reward]) PROVE TaxInv'
    <3> DEFINE e == [NoEntry EXCEPT !.kind = "creator", !.in = books.reward]
    <3>1. e.kind = "creator" /\ e.in = books.reward /\ e.out = 0 /\ e.lp = 0 /\ e.creator = 0
      BY DEF NoEntry
    <3>2. JournalTx(e)
      BY <2>3
    <3> HIDE DEF e
    <3> QED
      BY <2>1, <2>3, <3>1, <3>2
  <2>4. ASSUME otherReward,
               JournalTx([NoEntry EXCEPT !.kind = "creator-swap", !.in = books.creatorXnt, !.out = books.creatorXnt])
        PROVE  TaxInv'
    <3> DEFINE e == [NoEntry EXCEPT !.kind = "creator-swap", !.in = books.creatorXnt, !.out = books.creatorXnt]
    <3>1. e.kind = "creator-swap" /\ e.in = books.creatorXnt /\ e.out = books.creatorXnt /\ e.lp = 0 /\ e.creator = 0
      BY DEF NoEntry
    <3>2. JournalTx(e)
      BY <2>4
    <3> HIDE DEF e
    <3>3. EntryTypes(e)
      BY <3>1, <1>2 DEF EntryTypes, Kinds
    <3>4. stage = StageOf(e.kind) /\ EntryFits(e, wallet, books)
      BY <2>4, <3>1, <1>19 DEF CreatorReward, StageOf, EntryFits
    <3> QED
      BY <3>1, <3>2, <3>3, <3>4, <1>3, JournalTxKeeps
  <2> QED
    BY <1>19, <2>2, <2>3, <2>4 DEF CreatorReward
<1>20. ASSUME NEW n \in Nat, books' = [books EXCEPT !.owed = n]
       PROVE  /\ books' \in Books
              /\ books'.owed = n /\ books'.lpKeep = books.lpKeep /\ books'.lpSell = books.lpSell
              /\ books'.burn = books.burn /\ books'.creatorSell = books.creatorSell
              /\ books'.lpPair = books.lpPair /\ books'.creatorPair = books.creatorPair
              /\ books'.creatorXnt = books.creatorXnt /\ books'.reward = books.reward
  BY <1>1, <1>20 DEF Books, BookNames
<1>21. ASSUME AllocateRest PROVE TaxInv'
  <2>1. PICK dust \in {0, 1} :
          wallet.xnt - Reserved > dust /\ books' = [books EXCEPT !.owed = @ + wallet.xnt - Reserved - dust]
    BY <1>21 DEF AllocateRest
  <2> DEFINE n == books.owed + wallet.xnt - Reserved - dust
  <2>2. /\ wallet' = wallet /\ inflight' = inflight /\ onChain' = onChain /\ past' = past /\ sales' = sales
        /\ taxRaced' = taxRaced /\ paired' = paired /\ otherReward' = otherReward
    BY <1>21 DEF AllocateRest, Quiet
  <2>3. Free /\ onChain = "none"
    BY <1>21 DEF AllocateRest, TaxInv, StageOf
  <2>4. Reserved \in Nat /\ Reserved = books.owed + books.creatorXnt + (IF paired THEN 0 ELSE books.lpPair)
    BY <1>2 DEF Reserved
  <2>5. n \in Nat /\ n + Reserved <= books.owed + wallet.xnt
    BY <2>1, <2>4, <1>1, <1>2
  <2>6. books' = [books EXCEPT !.owed = n]
    BY <2>1
  <2> HIDE DEF n
  <2>7. /\ books' \in Books
        /\ books'.owed = n /\ books'.lpKeep = books.lpKeep /\ books'.lpSell = books.lpSell
        /\ books'.burn = books.burn /\ books'.creatorSell = books.creatorSell
        /\ books'.lpPair = books.lpPair /\ books'.creatorPair = books.creatorPair
        /\ books'.creatorXnt = books.creatorXnt /\ books'.reward = books.reward
    BY <2>5, <2>6, <1>20
  <2>8. ~taxRaced => AllSetAside(wallet, books, sales)
    BY <2>3 DEF TaxInv
  <2>9. TokensOver(wallet, books)' = TokensOver(wallet, books)
    BY <2>2, <2>7 DEF TokensOver
  <2>10. ProceedsOver(wallet, books)' <= ProceedsOver(wallet, books)
    BY <2>2, <2>4, <2>5, <2>7, <1>1, <1>2 DEF ProceedsOver, AtLeast0
  <2>11. paired => books'.owed + books'.creatorXnt <= wallet.xnt
    BY <2>4, <2>5, <2>7, <1>1, <1>2
  <2>12. TokensOver(wallet, books) \in Nat /\ ProceedsOver(wallet, books) \in Nat /\ ProceedsOver(wallet, books)' \in Nat
    BY <2>2, <2>5, <2>7, <1>1, <1>2 DEF TokensOver, ProceedsOver, AtLeast0
  <2>13. (~taxRaced => AllSetAside(wallet, books, sales))'
    BY <2>2, <2>7, <2>8, <2>9, <2>10, <2>11, <2>12, <1>1 DEF AllSetAside
  <2> QED
    BY <2>2, <2>3, <2>7, <2>13 DEF TaxInv, Free
<1>22. ASSUME PayHolders PROVE TaxInv'
  <2>1. /\ stage = "idle" /\ books.owed \in 1..wallet.xnt /\ wallet' = [wallet EXCEPT !.xnt = @ - books.owed]
        /\ books' = [books EXCEPT !.owed = 0]
        /\ inflight' = inflight /\ onChain' = onChain /\ past' = past /\ stage' = stage /\ sales' = sales
        /\ taxRaced' = taxRaced /\ paired' = paired /\ otherReward' = otherReward
    BY <1>22 DEF PayHolders, Quiet
  <2>2. /\ books' \in Books
        /\ books'.owed = 0 /\ books'.lpKeep = books.lpKeep /\ books'.lpSell = books.lpSell
        /\ books'.burn = books.burn /\ books'.creatorSell = books.creatorSell
        /\ books'.lpPair = books.lpPair /\ books'.creatorPair = books.creatorPair
        /\ books'.creatorXnt = books.creatorXnt /\ books'.reward = books.reward
    BY <2>1, <1>20
  <2>3. /\ wallet' \in Wallets
        /\ wallet'.xnt = wallet.xnt - books.owed /\ wallet'.token = wallet.token
        /\ wallet'.pair = wallet.pair /\ wallet'.reward = wallet.reward
    BY <2>1, <1>1 DEF Wallets, Accounts
  <2>4. ~Free /\ onChain # "ok" => EntryFits(inflight, wallet, books)'
    BY <2>1, <2>2, <2>3 DEF TaxInv, EntryFits
  <2>5. ASSUME NEW c \in Books, NEW d \in Books, AllSetAside(wallet, c, sales), c.owed = books.owed, d.owed = 0,
               d.lpKeep = c.lpKeep, d.lpSell = c.lpSell, d.burn = c.burn, d.creatorSell = c.creatorSell,
               d.lpPair = c.lpPair, d.creatorPair = c.creatorPair, d.creatorXnt = c.creatorXnt, d.reward = c.reward
        PROVE  AllSetAside(wallet', d, sales)
    <3>1. c.creatorXnt \in Nat /\ c.lpPair \in Nat
      BY BooksFields
    <3>2. TokensOver(wallet', d) = TokensOver(wallet, c)
      BY <2>3, <2>5 DEF TokensOver
    <3>3. ProceedsOver(wallet', d) = ProceedsOver(wallet, c)
      BY <2>3, <2>5, <3>1, <1>1, <1>2 DEF ProceedsOver
    <3>4. paired => d.owed + d.creatorXnt <= wallet'.xnt
      BY <2>3, <2>5, <3>1, <1>1, <1>2 DEF AllSetAside
    <3> QED
      BY <2>3, <2>5, <3>2, <3>3, <3>4 DEF AllSetAside
  <2>6. CASE onChain = "ok"
    <3>1. ~Free /\ EntryTypes(inflight)
      BY <2>6 DEF TaxInv
    <3> DEFINE a == [books EXCEPT !.owed = 0]
               c == Applied(books, inflight)
               d == Applied(a, inflight)
    <3>2. a \in Books /\ a = books'
      BY <2>1, <2>2
    <3>3. Applied(books, inflight)' = d
      BY <2>1 DEF Applied, PartOf
    <3>4. c \in Books /\ d \in Books
      BY <3>1, <3>2, <1>1, AppliedType
    <3>5. /\ d.owed = a.owed /\ a.owed = 0 /\ c.owed = books.owed
          /\ d.lpKeep = c.lpKeep /\ d.lpSell = c.lpSell /\ d.burn = c.burn
          /\ d.creatorSell = c.creatorSell /\ d.lpPair = c.lpPair
          /\ d.creatorPair = c.creatorPair /\ d.creatorXnt = c.creatorXnt /\ d.reward = c.reward
      <4> HIDE DEF a
      <4> QED
        BY <2>2, <3>1, <3>2, <1>1, OwedPasses
    <3>6. ~taxRaced => AllSetAside(wallet, c, sales)
      BY <2>6 DEF TaxInv
    <3> HIDE DEF a, c, d
    <3>7. ~taxRaced => AllSetAside(wallet', d, sales)
      BY <3>4, <3>5, <3>6, <2>5
    <3>8. (~taxRaced => AllSetAside(wallet, Applied(books, inflight), sales))'
      BY <3>3, <3>7, <2>1 DEF AllSetAside, TokensOver, ProceedsOver
    <3> QED
      BY <2>1, <2>2, <2>3, <2>6, <3>8 DEF TaxInv, Free
  <2>7. CASE onChain # "ok"
    <3>1. ~taxRaced => AllSetAside(wallet, books, sales)
      BY <2>7 DEF TaxInv
    <3>2. ~taxRaced => AllSetAside(wallet', books', sales)
      BY <3>1, <2>2, <2>5, <1>1
    <3>3. (~taxRaced => AllSetAside(wallet, books, sales))'
      BY <3>2, <2>1 DEF AllSetAside, TokensOver, ProceedsOver
    <3> QED
      BY <2>1, <2>2, <2>3, <2>4, <2>7, <3>3 DEF TaxInv, Free
  <2> QED
    BY <2>6, <2>7
<1>23. CASE UNCHANGED taxVars
  BY <1>0, <1>23 DEF TaxInv, taxVars
<1> QED
  BY <1>5, <1>6, <1>7, <1>8, <1>9, <1>10, <1>11, <1>12, <1>13, <1>14, <1>15, <1>16, <1>17, <1>18, <1>19, <1>21, <1>22, <1>23
     DEF TaxNext

(* It says what the run checks.                                            *)
LEMMA TaxInvSetsAside == TaxInv => SetAsideThere
<1> SUFFICES ASSUME TaxInv, Free, ~taxRaced
             PROVE  /\ wallet.token + sales >= books.lpKeep + books.lpSell + books.burn + books.creatorSell
                    /\ wallet.xnt + sales >= Reserved
                    /\ wallet.pair + sales >= IF paired THEN books.lpPair + books.creatorPair ELSE 0
                    /\ wallet.reward >= books.reward
  BY DEF SetAsideThere
<1>1. /\ wallet \in Wallets /\ books \in Books /\ sales \in Nat
      /\ wallet.token \in Nat /\ wallet.xnt \in Nat /\ wallet.pair \in Nat /\ wallet.reward \in Nat
  BY WalletFields DEF TaxInv
<1>2. /\ books.lpKeep \in Nat /\ books.lpSell \in Nat /\ books.burn \in Nat /\ books.creatorSell \in Nat
      /\ books.lpPair \in Nat /\ books.creatorPair \in Nat /\ books.creatorXnt \in Nat
      /\ books.reward \in Nat /\ books.owed \in Nat
  BY <1>1, BooksFields
<1>3. AllSetAside(wallet, books, sales)
  BY DEF TaxInv
<1> QED
  BY <1>1, <1>2, <1>3 DEF AllSetAside, TokensOver, ProceedsOver, AtLeast0, Reserved

(* sendJournaled, reconcile: what the books set aside is in the wallet but *)
(* for one unit per sale or swap, however cycles stop, as long as no       *)
(* transaction that landed is taken for expired.                           *)
THEOREM TaxSetAside == TaxSpec => []SetAsideThere
<1>1. TaxInit => TaxInv
  BY TaxStart
<1>2. TaxInv /\ [TaxNext]_taxVars => TaxInv'
  BY TaxKeeps
<1>3. TaxInv => SetAsideThere
  BY TaxInvSetsAside
<1> QED
  BY <1>1, <1>2, <1>3, PTL DEF TaxSpec

=============================================================================
