---------------------------- MODULE PayoutJournal ----------------------------
(***************************************************************************)
(* The distributor's payout journal (state.ts, distribute.ts, tx.ts): XNT  *)
(* allocated to holders is owed to them in a file on disk, paid in batches *)
(* of transfers, and every batch's signature is written to the file before *)
(* its transaction is broadcast, so that a run that ends early - a crash,  *)
(* a kill, an RPC error - can be taken up by the next one.                 *)
(*                                                                         *)
(* The file is saved before every await, so wherever a run may stop its    *)
(* memory and the file agree: one copy models both.  One run at a time;    *)
(* see DistributorLock for the lock.  Network fees are not modelled.       *)
(***************************************************************************)
EXTENDS Integers, Sequences, FiniteSets, Functions

CONSTANTS
    Holders,
    minPayout,          \* a share under this waits
    transfersPerTx,     \* payments in a batch
    Validity,           \* blocks a signed transaction stays valid
    Pots,               \* what sales may bring in
    MaxRaised, MaxHeight, MaxSends

ASSUME SizesAssumption ==
    /\ IsFiniteSet(Holders) /\ Pots \subseteq Nat
    /\ transfersPerTx \in Nat \ {0} /\ Validity \in Nat /\ minPayout \in Nat \ {0}

VARIABLES
    owed,               \* journal: allocated to each holder and not yet paid
    batches,            \* journal: the payout plan, <<>> when none is pending
    pc,                 \* where the run is; "idle" between runs
    sending,            \* the batch whose sending failed or goes on, 0 at the start
    reading,            \* the batch whose fate is being read
    planned,            \* the run has planned its payouts
    txs,                \* every transaction signed, and what became of it
    height,             \* the chain's block height
    balance,            \* the distributor wallet's XNT
    received,           \* what the chain paid each holder
    allocated,          \* history: ever allocated to each holder
    raised,             \* history: XNT brought in by sales
    raced               \* history: a payout landed between the reads of its fate

journal == <<owed, batches>>
run == <<pc, sending, reading, planned>>
chain == <<txs, height, balance, received>>
history == <<allocated, raised, raced>>
vars == <<journal, run, chain, history>>

SumOf(f) == FoldFunction(LAMBDA x, y : x + y, 0, f)
totalOwed == SumOf(owed)
Smaller(a, b) == IF a <= b THEN a ELSE b

(* What a batch or transaction pays w.                                     *)
Pays(payments, w) == IF w \in DOMAIN payments THEN payments[w] ELSE 0

WithStatus(status) == {i \in DOMAIN batches : batches[i].status = status}
First(S) == CHOOSE i \in S : \A j \in S : i <= j

-----------------------------------------------------------------------------
Init ==
    /\ owed = [w \in Holders |-> 0]
    /\ batches = <<>>
    /\ pc = "idle"
    /\ sending = 0
    /\ reading = 0
    /\ planned = FALSE
    /\ txs = <<>>
    /\ height = 0
    /\ balance = 0
    /\ received = [w \in Holders |-> 0]
    /\ allocated = [w \in Holders |-> 0]
    /\ raised = 0
    /\ raced = FALSE

Begin ==
    /\ pc = "idle"
    /\ pc' = "resolve"
    /\ sending' = 0
    /\ planned' = FALSE
    /\ UNCHANGED <<journal, reading, chain, history>>

(* The run ends early: a crash, a kill, an RPC error anywhere.             *)
Stop ==
    /\ pc # "idle"
    /\ pc' = "idle"
    /\ UNCHANGED <<journal, sending, reading, planned, chain, history>>

(* Mutation: the batch stays marked as sent.                               *)
MutSettle(i) ==
    /\ owed' = [w \in Holders |-> owed[w] - Pays(batches[i].payments, w)]
    /\ UNCHANGED batches

Settle(i) ==
    /\ owed' = [w \in Holders |-> owed[w] - Pays(batches[i].payments, w)]
    /\ batches' = [batches EXCEPT ![i].status = "confirmed"]

SendAgain(i) ==
    /\ batches' = [batches EXCEPT ![i].status = "unsent", ![i].tx = 0]
    /\ UNCHANGED owed

(* resolvePending, for the first batch sent and not settled: what does the *)
(* chain say of its signature?  Mutation: a failed transaction settled.    *)
MutResolveStatus ==
    /\ pc = "resolve"
    /\ WithStatus("sent") # {}
    /\ LET i == First(WithStatus("sent"))
           state == txs[batches[i].tx].state
       IN  \/ /\ state \in {"landed", "failed"}
              /\ Settle(i)
              /\ UNCHANGED <<pc, reading>>
           \/ /\ state \in {"signed", "broadcast"}
              /\ pc' = "height"
              /\ reading' = i
              /\ UNCHANGED journal
    /\ UNCHANGED <<sending, planned, chain, history>>

ResolveStatus ==
    /\ pc = "resolve"
    /\ WithStatus("sent") # {}
    /\ LET i == First(WithStatus("sent"))
           state == txs[batches[i].tx].state
       IN  \/ /\ state = "landed"
              /\ Settle(i)
              /\ UNCHANGED <<pc, reading>>
           \/ /\ state = "failed"
              /\ SendAgain(i)
              /\ UNCHANGED <<pc, reading>>
           \/ /\ state \in {"signed", "broadcast"}
              /\ pc' = "height"
              /\ reading' = i
              /\ UNCHANGED journal
    /\ UNCHANGED <<sending, planned, chain, history>>

(* outcome: no status; is its blockhash over?  Mutation: taken for over.   *)
MutResolveHeight ==
    /\ pc = "height"
    /\ SendAgain(reading)
    /\ pc' = "resolve"
    /\ UNCHANGED <<sending, reading, planned, chain, history>>

ResolveHeight ==
    /\ pc = "height"
    /\ IF height > txs[batches[reading].tx].last
       THEN SendAgain(reading) /\ pc' = "resolve"
       ELSE pc' = "idle" /\ UNCHANGED journal
    /\ UNCHANGED <<sending, reading, planned, chain, history>>

Resolved ==
    /\ pc = "resolve"
    /\ WithStatus("sent") = {}
    /\ pc' = IF sending # 0 /\ sending \in WithStatus("unsent") THEN "idle" ELSE "send"
    /\ UNCHANGED <<journal, sending, reading, planned, chain, history>>

(* sendPayouts: sign, simulate, journal the signature.  Mutation: the      *)
(* batch marked only once the sending succeeded.                           *)
MutSendBatch ==
    /\ pc = "send"
    /\ WithStatus("unsent") # {}
    /\ Len(txs) < MaxSends
    /\ LET i == First(WithStatus("unsent")) IN
           /\ batches' = [batches EXCEPT ![i].tx = Len(txs) + 1]
           /\ sending' = i
           /\ txs' = Append(txs, [payments |-> batches[i].payments, last |-> height + Validity,
                                  state |-> "signed"])
    /\ pc' = "broadcast"
    /\ UNCHANGED <<owed, reading, planned, height, balance, received, history>>

SendBatch ==
    /\ pc = "send"
    /\ WithStatus("unsent") # {}
    /\ Len(txs) < MaxSends
    /\ LET i == First(WithStatus("unsent")) IN
           /\ batches' = [batches EXCEPT ![i].status = "sent", ![i].tx = Len(txs) + 1]
           /\ sending' = i
           /\ txs' = Append(txs, [payments |-> batches[i].payments, last |-> height + Validity,
                                  state |-> "signed"])
    /\ pc' = "broadcast"
    /\ UNCHANGED <<owed, reading, planned, height, balance, received, history>>

(* The RPC takes the transaction, or the call fails before it does.        *)
Broadcast ==
    /\ pc = "broadcast"
    /\ \/ /\ txs' = [txs EXCEPT ![batches[sending].tx].state = "broadcast"]
          /\ pc' = "confirm"
       \/ /\ pc' = "resolve"
          /\ UNCHANGED txs
    /\ UNCHANGED <<journal, sending, reading, planned, height, balance, received,
                   history>>

(* confirmByPolling saw it land, or gave up: failed, expired, out of time. *)
Confirmed ==
    /\ pc = "confirm"
    /\ txs[batches[sending].tx].state = "landed"
    /\ Settle(sending)
    /\ pc' = "send"
    /\ UNCHANGED <<sending, reading, planned, chain, history>>

NotConfirmed ==
    /\ pc = "confirm"
    /\ pc' = "resolve"
    /\ UNCHANGED <<journal, sending, reading, planned, chain, history>>

AllSent ==
    /\ pc = "send"
    /\ WithStatus("unsent") = {}
    /\ batches' = <<>>
    /\ sending' = 0
    /\ pc' = IF planned THEN "idle" ELSE "allocate"
    /\ UNCHANGED <<owed, reading, planned, chain, history>>

(* allocateNew: what is not spoken for is split over the holders.          *)
Splits(pot) == {shares \in [Holders -> 0..pot] : 0 < SumOf(shares) /\ SumOf(shares) <= pot}

AllocateNew(shares) ==
    /\ pc = "allocate"
    /\ shares \in Splits(balance - totalOwed)
    /\ owed' = [w \in Holders |-> owed[w] + shares[w]]
    /\ allocated' = [w \in Holders |-> allocated[w] + shares[w]]
    /\ pc' = "plan"
    /\ UNCHANGED <<batches, sending, reading, planned, chain, raised, raced>>

NothingNew ==
    /\ pc = "allocate"
    /\ pc' = "plan"
    /\ UNCHANGED <<journal, sending, reading, planned, chain, history>>

(* planPayouts: the holders due, in some order, transfersPerTx to a batch. *)
(* Mutation: each batch starts with the last holder of the one before.     *)
MutChunk(order, i) ==
    LET first == (i - 1) * transfersPerTx + 1 IN
    {order[j] : j \in Smaller(first, Len(order))..Smaller(first + transfersPerTx, Len(order))}

Chunk(order, i) ==
    LET first == (i - 1) * transfersPerTx + 1 IN
    {order[j] : j \in first..Smaller(first + transfersPerTx - 1, Len(order))}

Orders(S) == {f \in [1..Cardinality(S) -> S] : \A w \in S : \E j \in DOMAIN f : f[j] = w}

PlanPayouts(payable) ==
    /\ pc = "plan"
    /\ payable \subseteq {w \in Holders : owed[w] >= minPayout}
    /\ \E order \in Orders(payable) :
          batches' = [i \in 1..((Len(order) + transfersPerTx - 1) \div transfersPerTx) |->
                         [payments |-> [w \in Chunk(order, i) |-> owed[w]],
                          status |-> "unsent", tx |-> 0]]
    /\ planned' = TRUE
    /\ pc' = "send"
    /\ UNCHANGED <<owed, sending, reading, chain, history>>

-----------------------------------------------------------------------------
(* The chain.  A transaction broadcast lands, whole or not at all, in a    *)
(* block no later than its last valid one.                                 *)
Land(t) ==
    /\ txs[t].state = "broadcast"
    /\ height <= txs[t].last
    /\ IF SumOf(txs[t].payments) <= balance
       THEN /\ txs' = [txs EXCEPT ![t].state = "landed"]
            /\ received' = [w \in Holders |-> received[w] + Pays(txs[t].payments, w)]
            /\ balance' = balance - SumOf(txs[t].payments)
            /\ raced' = (raced \/ (pc = "height" /\ batches[reading].tx = t))
       ELSE /\ txs' = [txs EXCEPT ![t].state = "failed"]
            /\ UNCHANGED <<received, balance, raced>>
    /\ UNCHANGED <<journal, run, height, allocated, raised>>

NewBlock ==
    /\ height < MaxHeight
    /\ height' = height + 1
    /\ UNCHANGED <<journal, run, txs, balance, received, history>>

(* A sale's proceeds or a tip reach the wallet.                            *)
Raise(amount) ==
    /\ raised + amount <= MaxRaised
    /\ raised' = raised + amount
    /\ balance' = balance + amount
    /\ UNCHANGED <<journal, run, txs, height, received, allocated, raced>>

Allocate == \E shares \in [Holders -> 0..MaxRaised] : AllocateNew(shares)
Plan == \E payable \in SUBSET Holders : PlanPayouts(payable)
Landing == \E t \in DOMAIN txs : Land(t)
Income == \E amount \in Pots : Raise(amount)

Next == \/ Begin \/ Stop
        \/ ResolveStatus \/ ResolveHeight \/ Resolved
        \/ SendBatch \/ Broadcast \/ Confirmed \/ NotConfirmed \/ AllSent
        \/ Allocate \/ NothingNew \/ Plan
        \/ Landing \/ NewBlock \/ Income

Spec == Init /\ [][Next]_vars
-----------------------------------------------------------------------------
Payments(f) == DOMAIN f \subseteq Holders /\ f \in [DOMAIN f -> Nat]

TypeOK ==
    /\ owed \in [Holders -> Nat]
    /\ \A i \in DOMAIN batches :
          /\ Payments(batches[i].payments)
          /\ batches[i].status \in {"unsent", "sent", "confirmed"}
          /\ batches[i].tx \in 0..Len(txs)
    /\ pc \in {"idle", "resolve", "height", "send", "broadcast", "confirm", "allocate", "plan"}
    /\ sending \in 0..Len(batches) /\ reading \in Nat /\ planned \in BOOLEAN
    /\ \A t \in DOMAIN txs :
          /\ Payments(txs[t].payments) /\ txs[t].last \in Nat
          /\ txs[t].state \in {"signed", "broadcast", "landed", "failed"}
    /\ height \in Nat /\ balance \in Nat /\ raised \in Nat
    /\ received \in [Holders -> Nat] /\ allocated \in [Holders -> Nat]
    /\ raced \in BOOLEAN

(* sendPayouts, resolvePending: however a run ends and the next one takes  *)
(* over, no holder gets more than was ever allocated to it.                *)
NeverPaidTwice == \A w \in Holders : received[w] <= allocated[w]

(* settle, addOwed: an allocation is paid or still owed, whatever crashes. *)
NothingLost == \A w \in Holders : received[w] + owed[w] >= allocated[w]

(* sendPayouts: a transaction that may still land is in the journal as     *)
(* sent, so a restart cannot overlook it and pay its batch again.          *)
JournalFirst ==
    \A t \in DOMAIN txs :
        txs[t].state = "broadcast" /\ height <= txs[t].last =>
            \E i \in WithStatus("sent") : batches[i].tx = t

(* Landed and not yet settled in the journal.                              *)
Unsettled == {i \in WithStatus("sent") : txs[batches[i].tx].state = "landed"}
UnsettledSum == FoldFunctionOnSet(LAMBDA x, y : x + y, 0,
                    [i \in DOMAIN batches |-> SumOf(batches[i].payments)], Unsettled)

(* allocateNew, reservedXnt: the wallet always holds what the journal owes *)
(* to holders, so XNT is never given out twice as new.                     *)
OwedIsCovered == totalOwed - UnsettledSum <= balance

(* outcome: both, in runs where no payout landed between the two reads of  *)
(* its own fate.                                                           *)
PaidOnceUnlessRaced == ~raced => NeverPaidTwice /\ OwedIsCovered

(* planPayouts, addOwed: the batches still to be settled never ask more of *)
(* a holder's entry than it holds, so settling one cannot throw.           *)
SettlingNeverThrows ==
    \A w \in Holders :
        FoldFunctionOnSet(LAMBDA x, y : x + y, 0,
            [i \in DOMAIN batches |-> Pays(batches[i].payments, w)],
            WithStatus("unsent") \cup WithStatus("sent")) <= owed[w]

(* sendPayouts, resolvePending: both, so any restart can resume from the   *)
(* journal, overlooking nothing and stopping at nothing; every file and    *)
(* transaction keeps its type.                                             *)
JournalResumes == TypeOK /\ JournalFirst /\ SettlingNeverThrows

(* sendPayouts, resolvePending: but for a payout that lands between the    *)
(* reads of its own fate, the journal keeps the promise of HolderPool:     *)
(* what left the wallet reached holders in full, out of what was allocated *)
(* to them, and nothing is taken back, however runs end and resume.        *)
Promise == INSTANCE HolderPool WITH
             Payees <- Holders, funded <- SumOf(allocated),
             spent <- raised - balance, received <- received
PaysPromise == []~raced => Promise!PoolSpec
=============================================================================
