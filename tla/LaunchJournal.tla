---------------------------- MODULE LaunchJournal ----------------------------
(***************************************************************************)
(* What the site keeps of a launch whose first transaction it handed to    *)
(* its creator (src/src/factory/launch.ts): the record, the new token's    *)
(* only distributor key and the height past which that transaction cannot  *)
(* land.  They are journaled under pending-launches/ before the creator    *)
(* gets the transaction, saved under launches/ once the token is seen on   *)
(* chain, and removed only when it is proven never to have landed.         *)
(*                                                                         *)
(* One launch: Sends has one member, its step 1.  A file is written whole  *)
(* or not at all (durable.ts), but an operation on several files can be    *)
(* cut short between any two by a disk error or by the server going down.  *)
(* A node may say "no account" at any time and, of a transaction that was  *)
(* sent, "account" (from a fork that is dropped later).                    *)
(***************************************************************************)
EXTENDS Landing, FiniteSets

CONSTANTS Files0, MaxFaults   \* the files of the first record; bound: operations cut short

Key == "key"        \* distributor.json; a vault launch has none
Step == "step"      \* step.json
Record == "record"  \* launch.json
Settings == "config"  \* config.json, written when the launch is registered

ASSUME LaunchAssumption == MaxFaults \in Nat /\ Files0 \in {{Record}, {Key, Record}} /\ Sends # {}

VARIABLES
  phase,       \* "none", "building", then "handed" to the creator or "failed"
  journaled,   \* the files under pending-launches/
  saved,       \* the files under launches/
  waiting,     \* is it in memory among the pending launches?
  registered,  \* does the saved record say so?
  age,         \* 0, then 1 after 15 minutes, 2 after a day
  up,          \* is the server running?
  faults,
  torn         \* history: a removal cut short left a record without step.json

launchVars == <<phase, journaled, saved, waiting, registered, age, up, faults, torn>>

LaunchInit ==
  /\ LandingInit
  /\ phase = "none"
  /\ journaled = {}
  /\ saved = {}
  /\ waiting = FALSE
  /\ registered = FALSE
  /\ age = 0
  /\ up = TRUE
  /\ faults = 0
  /\ torn = FALSE

Step1 == CHOOSE s \in Sends : TRUE

(* An operation goes through, *)
Through == up' = TRUE /\ faults' = faults

(* or is cut short by an error, keeping memory, or by the server going down *)
Fault == faults < MaxFaults /\ faults' = faults + 1 /\ up' \in BOOLEAN
CutShort == Fault /\ waiting' = (up' /\ waiting)

(***************************************************************************)
(* Handing out step 1                                                      *)
(***************************************************************************)

(* saveNewLaunch: the key first, then the record; if a write fails the       *)
(* journal goes, unless that fails too or the server goes down              *)
SaveNewLaunch ==
  /\ up /\ phase = "none"
  /\ \/ phase' = "building" /\ journaled' = Files0 /\ waiting' = TRUE /\ Through
     \/ phase' = "failed" /\ CutShort /\ journaled' \in {{}, Files0 \ {Record}, Files0}
  /\ UNCHANGED <<landingVars, saved, registered, age, torn>>

(* handOutLaunchStep: signed, the transaction's last block is journaled, and *)
(* only then can its bytes leave                                            *)
HandOut ==
  /\ up /\ phase = "building" /\ age = 0
  /\ SignSend(Step1)
  /\ journaled' = journaled \cup {Step}
  /\ phase' = "handed"
  /\ UNCHANGED <<saved, waiting, registered, age, up, faults, torn>>

(* The build fails: nothing left, so the journal goes too                   *)
BuildFails ==
  /\ up /\ phase = "building"
  /\ phase' = "failed" /\ waiting' = FALSE
  /\ \/ Through /\ journaled' = {}
     \/ CutShort /\ journaled' \in SUBSET (journaled \cup {Step})
  /\ UNCHANGED <<landingVars, saved, registered, age, torn>>

(* The creator signs and sends it, or not                                   *)
CreatorSends ==
  /\ phase = "handed" /\ Step1 \notin sent
  /\ Broadcast(Step1)
  /\ UNCHANGED launchVars

(* A removal cut short can leave files without step.json                     *)
Tearing == torn' = (torn \/ \E kept \in {journaled', saved'} : Record \in kept /\ Step \notin kept)

(***************************************************************************)
(* Saving                                                                  *)
(***************************************************************************)

(* What writeLaunch has copied when it is cut short: key, step, record       *)
Copies == {saved, saved \cup (journaled \cap {Key}), saved \cup (journaled \cap {Key, Step})}

(* Mutation: step.json is left in the journal                               *)
MutAllCopied == saved \cup (journaled \cap {Key}) \cup {Record}

AllCopied == saved \cup (journaled \cap {Key, Step}) \cup {Record}

(* writeLaunch of a waiting launch: all is copied, then it is no longer      *)
(* waiting, then the journal goes; an error there is only logged            *)
WriteLaunch ==
  /\ \/ saved' = AllCopied /\ waiting' = FALSE /\ journaled' = {} /\ Through
     \/ saved' = AllCopied /\ journaled' \in SUBSET journaled /\ waiting' = FALSE /\ Fault
     \/ saved' \in Copies /\ journaled' = journaled /\ CutShort
  /\ Tearing

(* persistLaunch, when a node shows the mint: from the sweep, from a relayed *)
(* step, from the pool's step                                               *)
PersistLaunch ==
  /\ up /\ waiting /\ Step1 \in sent
  /\ WriteLaunch
  /\ UNCHANGED <<landingVars, phase, registered, age>>

(* The sweep stops listing what was not seen for a while                     *)
StopListing ==
  /\ up /\ waiting /\ age >= 1 /\ phase # "building"
  /\ waiting' = FALSE
  /\ UNCHANGED <<landingVars, phase, journaled, saved, registered, age, up, faults, torn>>

(* recoverPendingLaunches                                                   *)
Restart ==
  /\ ~up
  /\ up' = TRUE
  /\ waiting' = (Record \in journaled /\ Record \notin saved)
  /\ phase' = IF phase = "building" THEN "failed" ELSE phase
  /\ UNCHANGED <<landingVars, journaled, saved, registered, age, faults, torn>>

GoDown ==
  /\ up /\ faults < MaxFaults
  /\ faults' = faults + 1
  /\ up' = FALSE /\ waiting' = FALSE
  /\ UNCHANGED <<landingVars, phase, journaled, saved, registered, age, torn>>

(* registerLaunch, once the chain shows token, pool and lock: the record if  *)
(* it is still waiting, the token's config, the record again                *)
RegisterLaunch ==
  /\ up /\ ~registered /\ outcome[Step1] = "ok"
  /\ waiting \/ Record \in saved
  /\ \/ saved' = AllCopied \cup {Settings} /\ journaled' = {} /\ waiting' = FALSE /\ registered' = TRUE /\ Through
     \/ waiting /\ WriteLaunch /\ faults' # faults /\ registered' = FALSE
     \/ /\ \E first \in {IF waiting THEN AllCopied ELSE saved} : saved' \in {first, first \cup {Settings}}
        /\ journaled' = IF waiting THEN {} ELSE journaled
        /\ waiting' = FALSE /\ registered' = FALSE /\ Fault
  /\ Tearing
  /\ UNCHANGED <<landingVars, phase, age>>

(***************************************************************************)
(* Tidying up                                                              *)
(***************************************************************************)

(* provenNeverLanded: the finalized tip is past step 1's last block, and an  *)
(* answer at that slot or later shows neither mint nor wallet                *)
Proven ==
  \E anchor \in 0..final :
    /\ anchor > lastValid[Step1]
    /\ \E view \in anchor..final : ~(outcome[Step1] = "ok" /\ at[Step1] <= view)

(* Mutation: Old enough, and a node does not show it                        *)
MutMayRemove(files) == age = 2 /\ Step \in files

(* A day old, its last block known, and the proof                           *)
MayRemove(files) == age = 2 /\ Step \in files /\ Proven

(* The journal of a launch that is saved: key and step if they are missing   *)
(* there, then it goes (tidySavedJournal)                                   *)
TidySavedJournal ==
  /\ up /\ ~waiting /\ journaled # {} /\ Record \in saved
  /\ \/ saved' = AllCopied /\ journaled' = {} /\ waiting' = waiting /\ Through
     \/ saved' = AllCopied /\ journaled' \in SUBSET journaled /\ CutShort
     \/ saved' \in Copies /\ journaled' = journaled /\ CutShort
  /\ Tearing
  /\ UNCHANGED <<landingVars, phase, registered, age>>

(* gcJournalOnce, of one not saved: saved after all when a node shows it,    *)
SaveFromJournal ==
  /\ up /\ ~waiting /\ Record \in journaled /\ Record \notin saved /\ Step1 \in sent
  /\ WriteLaunch
  /\ UNCHANGED <<landingVars, phase, registered, age>>

(* removed when it may be                                                   *)
RemoveJournal ==
  /\ up /\ ~waiting /\ Record \notin saved /\ MayRemove(journaled)
  /\ \/ journaled' = {} /\ waiting' = waiting /\ Through
     \/ journaled' \in SUBSET journaled /\ CutShort
  /\ saved' = saved
  /\ Tearing
  /\ UNCHANGED <<landingVars, phase, registered, age>>

(* gcLaunchRecords: so is a saved record that got no further                 *)
RemoveRecord ==
  /\ up /\ Record \in saved /\ ~registered /\ Settings \notin saved /\ MayRemove(saved)
  /\ \/ saved' = {} /\ waiting' = waiting /\ Through
     \/ saved' \in SUBSET saved /\ CutShort
  /\ journaled' = journaled
  /\ Tearing
  /\ UNCHANGED <<landingVars, phase, registered, age>>

TimePasses ==
  /\ age < 2
  /\ age' = age + 1
  /\ UNCHANGED <<landingVars, phase, journaled, saved, waiting, registered, up, faults, torn>>

LaunchNext ==
  \/ SaveNewLaunch \/ HandOut \/ BuildFails \/ CreatorSends
  \/ PersistLaunch \/ StopListing \/ Restart \/ GoDown \/ RegisterLaunch
  \/ TidySavedJournal \/ SaveFromJournal \/ RemoveJournal \/ RemoveRecord
  \/ TimePasses
  \/ ChainStep /\ UNCHANGED launchVars

LaunchSpec == LaunchInit /\ [][LaunchNext]_<<landingVars, launchVars>>

(* A server that is down comes back; its sweep and its collections run again *)
(* and again, and a node answers truthfully in the end; time and blocks pass *)
LaunchFair ==
  LET all == <<landingVars, launchVars>>
  IN /\ WF_all(Restart)
     /\ WF_all(PersistLaunch /\ outcome[Step1] = "ok")
     /\ WF_all(StopListing)
     /\ WF_all(TidySavedJournal)
     /\ WF_all(SaveFromJournal /\ outcome[Step1] = "ok")
     /\ WF_all(RemoveJournal)
     /\ WF_all(RemoveRecord)
     /\ WF_all(TimePasses)
     /\ WF_all(ChainStep /\ UNCHANGED launchVars)

(***************************************************************************)
(* Properties                                                              *)
(***************************************************************************)

Kept == journaled \cup saved
MayExist == \/ outcome[Step1] = "ok"
            \/ outcome[Step1] = "none" /\ height < lastValid[Step1]

(* A token that exists, or still may, never loses its only key or record,    *)
(* and one that is registered has all its files saved.                      *)
KeyKept ==
  /\ phase = "handed" /\ MayExist => Files0 \subseteq Kept
  /\ registered => Files0 \cup {Settings} \subseteq saved

(* A launch that was handed out is settled for good: saved when its token   *)
(* exists; when it never will, its record is removed, unless a removal was  *)
(* cut short (step.json may then be gone, and nothing is proven without it). *)
LaunchSettles ==
  /\ outcome[Step1] = "ok" ~> (journaled = {} /\ Files0 \cup {Step} \subseteq saved)
  /\ (phase = "handed" /\ Expired(Step1)) ~> (outcome[Step1] = "ok" \/ Record \notin Kept \/ torn)
=============================================================================
