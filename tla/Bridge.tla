------------------------------- MODULE Bridge -------------------------------
(***************************************************************************)
(* Bridging a wallet's tokens to Solana (src/scripts/bridge-usdc.ts; its    *)
(* mirror bridge-stock.ts keeps another journal the same way).  Each run    *)
(* reads the journal once, at its start, and writes its whole copy back    *)
(* each time it moves a transfer along; there is no lock.  A run with      *)
(* --status only settles earlier transfers, any other also sends one.       *)
(***************************************************************************)
EXTENDS Landing, FiniteSets

CONSTANTS Runs, StatusRuns

ASSUME BridgeAssumption == StatusRuns \subseteq Runs

VARIABLES
  journal,    \* state/bridge-usdc.json: every transfer's status
  copy,       \* each run's copy of it
  script,     \* where each run is
  transfer,   \* the transfer each run sent or is about to send
  arrived,    \* the transfers paid out on Solana
  overlapped  \* history: two runs have been on at once

bridgeVars == <<journal, copy, script, transfer, arrived, overlapped>>

Unfinished == {"pending_x1", "pending_solana"}
Status == Unfinished \cup {"absent", "completed", "failed"}
NoTransfers == [s \in Sends |-> "absent"]

BridgeTypeOK ==
  /\ LandingTypeOK
  /\ journal \in [Sends -> Status]
  /\ copy \in [Runs -> [Sends -> Status]]
  /\ script \in [Runs -> {"off", "settling", "checking", "sending", "waiting"}]
  /\ transfer \in [Runs -> SUBSET Sends]
  /\ arrived \subseteq Sends
  /\ overlapped \in BOOLEAN

BridgeInit ==
  /\ LandingInit
  /\ journal = NoTransfers
  /\ copy = [r \in Runs |-> NoTransfers]
  /\ script = [r \in Runs |-> "off"]
  /\ transfer = [r \in Runs |-> {}]
  /\ arrived = {}
  /\ overlapped = FALSE

ScriptAt(r, from, to) == script[r] = from /\ script' = [script EXCEPT ![r] = to]

StartRun(r) ==
  /\ ScriptAt(r, "off", "settling")
  /\ copy' = [copy EXCEPT ![r] = journal]
  /\ overlapped' = (overlapped \/ \E q \in Runs : script[q] # "off")
  /\ UNCHANGED <<landingVars, journal, transfer, arrived>>

(* A status in the run's copy, then the whole copy to the file *)
Write(r, s, status) ==
  /\ copy' = [copy EXCEPT ![r][s] = status]
  /\ journal' = copy'[r]

(* The outgoing account is absent on a read at least as recent as the proof *)
MarkerAbsent(s) == outcome[s] # "ok" \/ at[s] > final

OnX1(s) ==
  {x \in {"pending_solana"} : outcome[s] = "ok" /\ at[s] <= final}
  \cup {x \in {"failed"} : \/ outcome[s] = "err" /\ at[s] <= final
                           \/ NeverLanded(s) /\ MarkerAbsent(s)}

Reconciling(r) == script[r] \in {"settling", "waiting"}

(* reconcile moves a transfer along by what finalized X1 state and a receipt *)
(* on Solana say.  (The code takes them oldest first and stops at the first *)
(* it cannot move; here any may be moved.)                                 *)
Reconcile(r) ==
  /\ Reconciling(r)
  /\ \E s \in Sends :
       \/ copy[r][s] = "pending_x1" /\ \E status \in OnX1(s) : Write(r, s, status)
       \/ copy[r][s] = "pending_solana" /\ s \in arrived /\ Write(r, s, "completed")
  /\ UNCHANGED <<landingVars, script, transfer, arrived, overlapped>>

(* Mutation: A transfer that has left X1 is out of the way                  *)
MutAllSettled(r) == \A s \in Sends : copy[r][s] # "pending_x1"

(* None is left unfinished, as this run knows it *)
AllSettled(r) == \A s \in Sends : copy[r][s] \notin Unfinished

(* A live run that found nothing unfinished builds and simulates its own   *)
Proceed(r) ==
  /\ r \notin StatusRuns
  /\ AllSettled(r)
  /\ ScriptAt(r, "settling", "checking")
  /\ UNCHANGED <<landingVars, journal, copy, transfer, arrived, overlapped>>

(* Signed, it is journaled before it is sent *)
Journal(r) ==
  /\ ScriptAt(r, "checking", "sending")
  /\ \E s \in NextOf({unused \in Sends : ~IsSigned(unused)}) :
       /\ SignSend(s)
       /\ Write(r, s, "pending_x1")
       /\ transfer' = [transfer EXCEPT ![r] = {s}]
  /\ UNCHANGED <<arrived, overlapped>>

SendTransfer(r) ==
  /\ ScriptAt(r, "sending", "waiting")
  /\ \E s \in transfer[r] : Broadcast(s)
  /\ UNCHANGED <<journal, copy, transfer, arrived, overlapped>>

(* It ends: nothing left to do, an earlier transfer in the way, tired of   *)
(* waiting, a failed check, or a crash anywhere.                           *)
End(r) ==
  /\ script[r] # "off"
  /\ script' = [script EXCEPT ![r] = "off"]
  /\ UNCHANGED <<landingVars, journal, copy, transfer, arrived, overlapped>>

(* The guardians pay a finalized transfer out on Solana *)
PayOut ==
  /\ \E s \in Sends : /\ outcome[s] = "ok" /\ at[s] <= final
                      /\ arrived' = arrived \cup {s}
  /\ UNCHANGED <<landingVars, journal, copy, script, transfer, overlapped>>

BridgeNext ==
  \/ \E r \in Runs : \/ StartRun(r) \/ Reconcile(r) \/ Proceed(r) \/ Journal(r) \/ SendTransfer(r) \/ End(r)
  \/ PayOut
  \/ ChainStep /\ UNCHANGED bridgeVars

BridgeSpec == BridgeInit /\ [][BridgeNext]_<<landingVars, bridgeVars>>

(***************************************************************************)
(* Properties                                                              *)
(***************************************************************************)

(* The transfers under way: they may still land, or have not arrived *)
UnderWay == {s \in sent : MayCount(s) /\ s \notin arrived}

(* While runs do not overlap, a transfer under way blocks the next, however *)
(* runs crash and give up and whatever lagging nodes answer: there is never *)
(* more than one, and the journal knows it.                                *)
OneTransferUnlessOverlap ==
  /\ BridgeTypeOK
  /\ ~overlapped => /\ Cardinality(UnderWay) <= 1
                    /\ \A s \in UnderWay : journal[s] \in Unfinished

(* src/scripts/bridge-usdc.ts:17-18: a transfer that has not been seen      *)
(* arriving blocks the next.  Here with at most one run that sends.        *)
UnderWayBlocksNext == \A s \in UnderWay : journal[s] \in Unfinished
=============================================================================
