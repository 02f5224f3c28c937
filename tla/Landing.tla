------------------------------ MODULE Landing ------------------------------
(***************************************************************************)
(* What can become of a transaction that was signed and perhaps broadcast, *)
(* and what fateOfSend (src/src/send-fate.ts) may answer about it.  A       *)
(* transaction can only land in a block no higher than its blockhash       *)
(* allows.  Every question goes to some node of a load-balanced RPC, which *)
(* may lag or keep a short history; only finalized blocks count as proof.  *)
(* Slots and block heights are one count here.                             *)
(***************************************************************************)
EXTENDS Integers

CONSTANTS
  Sends,      \* the transactions; a member is also its signature
  Validity,   \* how many blocks a blockhash lasts
  MaxHeight   \* bound: the highest block

ASSUME LandingAssumption == Validity \in Nat \ {0} /\ MaxHeight \in Nat

VARIABLES
  height,     \* the newest confirmed block
  final,      \* the newest finalized block
  lastValid,  \* the last block each may land in, Unsigned before it is signed
  sent,       \* the broadcast ones
  outcome,    \* "none" until it lands, then "ok" or "err"
  at          \* the block it landed in

landingVars == <<height, final, lastValid, sent, outcome, at>>

Unsigned == -1

LandingTypeOK ==
  /\ height \in 0..MaxHeight
  /\ final \in 0..height
  /\ lastValid \in [Sends -> Int]
  /\ sent \in SUBSET Sends
  /\ outcome \in [Sends -> {"none", "ok", "err"}]
  /\ at \in [Sends -> Nat]

LandingInit ==
  /\ height = 0
  /\ final = 0
  /\ lastValid = [s \in Sends |-> Unsigned]
  /\ sent = {}
  /\ outcome = [s \in Sends |-> "none"]
  /\ at = [s \in Sends |-> 0]

(* The next of the unused ones: names mean nothing, so any will do *)
NextOf(unused) == IF unused = {} THEN {} ELSE {CHOOSE s \in unused : TRUE}

IsSigned(s) == lastValid[s] # Unsigned

(* Sign with the newest blockhash; done once for a signature *)
SignSend(s) ==
  /\ lastValid' = [lastValid EXCEPT ![s] = height + Validity]
  /\ UNCHANGED <<height, final, sent, outcome, at>>

Broadcast(s) ==
  /\ sent' = sent \cup {s}
  /\ UNCHANGED <<height, final, lastValid, outcome, at>>

MayLand(s) == s \in sent /\ outcome[s] = "none" /\ height < lastValid[s]

(* A block takes any of the transactions that may land, and some fail in it *)
Block ==
  /\ height < MaxHeight
  /\ height' = height + 1
  /\ \E landing \in SUBSET {s \in Sends : MayLand(s)} : \E failing \in SUBSET landing :
       /\ outcome' = [s \in Sends |-> IF s \in failing THEN "err"
                                      ELSE IF s \in landing THEN "ok" ELSE outcome[s]]
       /\ at' = [s \in Sends |-> IF s \in landing THEN height + 1 ELSE at[s]]
  /\ UNCHANGED <<final, lastValid, sent>>

Finalize ==
  /\ final < height
  /\ final' = final + 1
  /\ UNCHANGED <<height, lastValid, sent, outcome, at>>

ChainStep == Block \/ Finalize

(***************************************************************************)
(* The answers                                                             *)
(***************************************************************************)

(* Every block after it is higher, so what has not landed by then never will *)
Expired(s) == final > lastValid[s]

(* The wallet's signature list on a node at slot view that keeps blocks from *)
(* oldest on, on finalized state                                            *)
Listed(s, oldest, view) == outcome[s] # "none" /\ at[s] \in oldest..view

(* The list answers for a transaction only when it reaches back past the    *)
(* moment it was signed                                                     *)
ReachesBack(s, oldest) == oldest <= lastValid[s] - Validity

(* Mutation: The anchor is any node's newest block, not a finalized one of the same   *)
(* slot as the list                                                         *)
MutProvenAtAnyHeight(s, anchor) ==
  /\ height > lastValid[s]
  /\ \E view \in anchor..final : \E oldest \in 0..view :
       ReachesBack(s, oldest) /\ ~Listed(s, oldest, view)

(* A finalized block at slot anchor is past the blockhash, and a node at     *)
(* anchor or later does not list it                                         *)
ProvenAt(s, anchor) ==
  /\ anchor > lastValid[s]
  /\ \E view \in anchor..final : \E oldest \in 0..view :
       ReachesBack(s, oldest) /\ ~Listed(s, oldest, view)

NeverLanded(s) == \E anchor \in 0..final : ProvenAt(s, anchor)

(* What fateOfSend may answer now.  A lagging node can make it "in-flight"   *)
(* or "unknown" at any time; "expired" is unknown with its blockhash past.   *)
Fates(s) ==
  {"in-flight", "unknown"}
  \cup {f \in {"expired"} : Expired(s)}
  \cup {f \in {"landed"} : outcome[s] = "ok"}
  \cup {f \in {"failed"} : outcome[s] = "err"}
  \cup {f \in {"never-landed"} : NeverLanded(s)}

(* What outcome (src/src/tx.ts) may answer: a status, which a lagging node   *)
(* may not know, then the block height another node gives.                  *)
Outcomes(s) ==
  {"pending"}
  \cup {o \in {"confirmed"} : outcome[s] = "ok"}
  \cup {o \in {"failed"} : outcome[s] = "err"}
  \cup {o \in {"expired"} : height > lastValid[s]}

(* Has it landed well, or may it still? *)
MayCount(s) == outcome[s] = "ok" \/ MayLand(s)

(***************************************************************************)
(* Properties                                                              *)
(***************************************************************************)

(* "never-landed" is never said of a transaction that landed or still may,  *)
(* however the nodes asked lag and forget: it may be forgotten for good.    *)
NeverMeansNever ==
  \A s \in Sends : s \in sent /\ NeverLanded(s) => outcome[s] = "none" /\ ~MayLand(s)

=============================================================================
