--------------------------- MODULE JournalsProofs ---------------------------
(***************************************************************************)
(* What is kept in journals and files while transactions are on their way  *)
(* and processes come and go, for any number of runs, passes, loops,       *)
(* processes and blocks: launches keep their files, bridge runs have one   *)
(* transfer out, claim roots cover what was allocated, and the locks keep  *)
(* processes apart.                                                        *)
(***************************************************************************)
EXTENDS TradesProofs, LaunchJournal, Bridge, ClaimRoots, DistributorLock, FileLock,
  FiniteSums, FiniteSetTheorems, TLAPS

-----------------------------------------------------------------------------
(* LaunchJournal: the files of a launch.                                   *)

(* Before any block nothing is signed.                                     *)
LEMMA ChainStarts == LandingInit => ChainSound
BY LandingAssumption DEF LandingInit, ChainSound, ChainTyped, Dated, IsSigned, Unsigned

(* Signing a new transaction keeps what the chain knows.                   *)
LEMMA SigningKeepsChain ==
  ASSUME ChainSound, NEW s \in Sends, ~IsSigned(s), SignSend(s)
  PROVE  ChainSound' /\ IsSigned(s)'
<1>1. /\ lastValid' = [lastValid EXCEPT ![s] = height + Validity]
      /\ UNCHANGED <<height, final, sent, outcome, at>>
  BY DEF SignSend
<1>2. height \in Nat /\ Validity \in Nat \ {0} /\ lastValid \in [Sends -> Int]
  BY LandingAssumption DEF ChainSound, ChainTyped
<1>3. ChainTyped'
  BY <1>1, <1>2 DEF ChainSound, ChainTyped
<1>4. IsSigned(s)'
  BY <1>1, <1>2 DEF IsSigned, Unsigned
<1>5. Dated'
  <2> SUFFICES ASSUME NEW t \in Sends
               PROVE  /\ IsSigned(t)' => lastValid'[t] - Validity \in 0..height
                      /\ t \in sent => IsSigned(t)'
                      /\ outcome[t] # "none" =>
                           t \in sent /\ lastValid'[t] - Validity <= at[t] /\ at[t] <= lastValid'[t]
    BY <1>1 DEF Dated
  <2>1. /\ IsSigned(t) => lastValid[t] - Validity \in 0..height
        /\ t \in sent => IsSigned(t)
        /\ outcome[t] # "none" =>
             t \in sent /\ lastValid[t] - Validity <= at[t] /\ at[t] <= lastValid[t]
    BY DEF ChainSound, Dated
  <2>2. CASE t = s
    BY <1>1, <1>2, <1>4, <2>1, <2>2
  <2>3. CASE t # s
    BY <1>1, <2>1, <2>3 DEF IsSigned
  <2> QED
    BY <2>2, <2>3
<1> QED
  BY <1>3, <1>4, <1>5 DEF ChainSound

(* So does sending one that is signed.                                     *)
LEMMA SendingKeepsChain ==
  ASSUME ChainSound, NEW s \in Sends, IsSigned(s), Broadcast(s)
  PROVE  ChainSound' /\ IsSigned(s)'
BY DEF ChainSound, ChainTyped, Dated, IsSigned, Broadcast

-----------------------------------------------------------------------------
(* A launch.                                                               *)
LaunchInv ==
  /\ ChainSound
  /\ saved \subseteq {Key, Step, Record, Settings}
  /\ IsSigned(Step1) <=> phase = "handed"
  /\ phase \in {"none", "building"} => saved = {}
  /\ registered \in BOOLEAN
  /\ phase = "none" => journaled = {}
  /\ phase = "building" => journaled = Files0
  /\ KeyKept

(* The journaled step is a transaction.                                    *)
LEMMA Step1Is == Step1 \in Sends
BY LaunchAssumption DEF Step1

(* A launch proven to have never landed has no token and never will.       *)
LEMMA ProvenMeansGone ==
  ASSUME ChainSound, Proven, IsSigned(Step1)
  PROVE  ~MayExist
<1>1. PICK anchor \in 0..final :
        /\ anchor > lastValid[Step1]
        /\ \E view \in anchor..final : ~(outcome[Step1] = "ok" /\ at[Step1] <= view)
  BY DEF Proven
<1>2. PICK view \in anchor..final : ~(outcome[Step1] = "ok" /\ at[Step1] <= view)
  BY <1>1
<1>3. /\ Step1 \in Sends /\ final \in Nat /\ height \in Nat /\ final <= height /\ lastValid[Step1] \in Int
      /\ at[Step1] \in Nat
  BY Step1Is DEF ChainSound, ChainTyped
<1>4. outcome[Step1] # "none" => at[Step1] <= lastValid[Step1]
  BY <1>3 DEF ChainSound, Dated
<1> QED
  BY <1>1, <1>2, <1>3, <1>4 DEF MayExist

(* A token that may still exist, might already have before a block.        *)
LEMMA ExistenceOnlyEnds ==
  ASSUME ChainSound, ChainStep
  PROVE  MayExist' => MayExist
<1>1. Step1 \in Sends
  BY Step1Is
<1>2. /\ lastValid' = lastValid
      /\ \A s \in Sends : (Dead(s) => Dead(s)') /\ (MayCount(s)' => MayCount(s))
  BY ChainStepKeeps
<1>3. height \in Nat /\ height' \in Nat /\ height <= height' /\ lastValid[Step1] \in Int
  BY <1>1 DEF ChainSound, ChainTyped, ChainStep, Block, Finalize
<1>4. outcome[Step1] \in {"none", "ok", "err"}
  BY <1>1 DEF ChainSound, ChainTyped
<1>5. IsSigned(Step1) \/ outcome[Step1] = "none"
  BY <1>1 DEF ChainSound, Dated
<1>6. CASE outcome[Step1] = "err"
  BY <1>1, <1>2, <1>3, <1>6 DEF MayExist, Dead
<1>7. CASE outcome[Step1] = "ok"
  BY <1>7 DEF MayExist
<1>8. CASE outcome[Step1] = "none"
  <2>1. outcome'[Step1] = "ok" => height < lastValid[Step1]
    BY <1>1, <1>2, <1>8 DEF MayCount, MayLand
  <2> QED
    BY <1>2, <1>3, <1>8, <2>1 DEF MayExist
<1> QED
  BY <1>4, <1>6, <1>7, <1>8

(* No step of a launch breaks the invariant.                               *)
LEMMA LaunchKeeps == LaunchInv /\ [LaunchNext]_<<landingVars, launchVars>> => LaunchInv'
<1> SUFFICES ASSUME LaunchInv, [LaunchNext]_<<landingVars, launchVars>> PROVE LaunchInv'
  OBVIOUS
<1>1. Step1 \in Sends /\ Files0 \subseteq {Key, Record} /\ Record \in Files0
  BY Step1Is, LaunchAssumption
<1>2. Key # Step /\ Key # Record /\ Key # Settings /\ Step # Record /\ Step # Settings /\ Record # Settings
  BY DEF Key, Step, Record, Settings
<1>3. ChainSound /\ KeyKept
  BY DEF LaunchInv
<1>4. Step1 \in sent => phase = "handed"
  BY <1>1 DEF LaunchInv, ChainSound, Dated
<1>5. outcome[Step1] = "ok" => Step1 \in sent
  BY <1>1 DEF LaunchInv, ChainSound, Dated
(* Steps that leave the chain alone, and lose no file a token may need.    *)
<1>6. ASSUME UNCHANGED landingVars, UNCHANGED phase, UNCHANGED registered,
             saved' \subseteq {Key, Step, Record, Settings},
             phase \notin {"none", "building"} \/ (UNCHANGED <<saved, journaled>>),
             phase = "handed" /\ MayExist => Kept \cap Files0 \subseteq Kept',
             registered => saved \subseteq saved'
      PROVE  LaunchInv'
  <2>1. MayExist' <=> MayExist
    BY <1>6 DEF MayExist, landingVars
  <2>2. KeyKept'
    BY <1>1, <1>3, <1>6, <2>1 DEF KeyKept, Kept
  <2>3. ChainSound' /\ (IsSigned(Step1)' <=> IsSigned(Step1))
    BY <1>3, <1>6 DEF ChainSound, ChainTyped, Dated, IsSigned, landingVars
  <2> QED
    BY <1>6, <2>2, <2>3 DEF LaunchInv
<1>7. ASSUME WriteLaunch
      PROVE  saved' \subseteq {Key, Step, Record, Settings} /\ saved \subseteq saved' /\ Kept \cap Files0 \subseteq Kept'
  BY <1>1, <1>7 DEF WriteLaunch, AllCopied, Copies, Kept, LaunchInv
<1>8. ASSUME SaveNewLaunch PROVE LaunchInv'
  <2>1. UNCHANGED landingVars /\ saved' = saved /\ registered' = registered /\ phase = "none"
        /\ phase' \in {"building", "failed"} /\ (phase' = "building" => journaled' = Files0)
    BY <1>8 DEF SaveNewLaunch
  <2>2. ChainSound' /\ (IsSigned(Step1)' <=> IsSigned(Step1))
    BY <1>3, <2>1 DEF ChainSound, ChainTyped, Dated, IsSigned, landingVars
  <2>3. KeyKept'
    BY <1>3, <2>1 DEF KeyKept
  <2> QED
    BY <2>1, <2>2, <2>3 DEF LaunchInv
<1>9. ASSUME HandOut PROVE LaunchInv'
  <2>1. /\ phase = "building" /\ SignSend(Step1) /\ journaled' = journaled \cup {Step} /\ phase' = "handed"
        /\ saved' = saved /\ registered' = registered
    BY <1>9 DEF HandOut
  <2>2. ~IsSigned(Step1) /\ journaled = Files0
    BY <2>1 DEF LaunchInv
  <2>3. ChainSound' /\ IsSigned(Step1)'
    BY <1>1, <1>3, <2>1, <2>2, SigningKeepsChain
  <2>4. KeyKept'
    BY <1>3, <2>1, <2>2 DEF KeyKept, Kept
  <2> QED
    BY <2>1, <2>3, <2>4 DEF LaunchInv
<1>10. ASSUME BuildFails PROVE LaunchInv'
  <2>1. UNCHANGED landingVars /\ saved' = saved /\ registered' = registered /\ phase = "building" /\ phase' = "failed"
    BY <1>10 DEF BuildFails
  <2>2. ChainSound' /\ (IsSigned(Step1)' <=> IsSigned(Step1))
    BY <1>3, <2>1 DEF ChainSound, ChainTyped, Dated, IsSigned, landingVars
  <2> QED
    BY <1>3, <2>1, <2>2 DEF LaunchInv, KeyKept
<1>11. ASSUME CreatorSends PROVE LaunchInv'
  <2>1. phase = "handed" /\ Broadcast(Step1) /\ UNCHANGED launchVars
    BY <1>11 DEF CreatorSends
  <2>2. ChainSound' /\ IsSigned(Step1)'
    BY <1>1, <1>3, <2>1, SendingKeepsChain DEF LaunchInv
  <2>3. MayExist' <=> MayExist
    BY <2>1 DEF Broadcast, MayExist
  <2>4. KeyKept'
    BY <1>3, <2>1, <2>3 DEF KeyKept, Kept, launchVars
  <2> QED
    BY <2>1, <2>2, <2>4 DEF LaunchInv, launchVars
<1>12. ASSUME PersistLaunch \/ SaveFromJournal PROVE LaunchInv'
  BY <1>4, <1>6, <1>7, <1>12 DEF PersistLaunch, SaveFromJournal
<1>13. ASSUME StopListing \/ GoDown \/ TimePasses PROVE LaunchInv'
  BY <1>6, <1>13 DEF StopListing, GoDown, TimePasses, Kept, LaunchInv
<1>14. ASSUME Restart PROVE LaunchInv'
  <2>1. /\ UNCHANGED <<landingVars, journaled, saved, registered>>
        /\ phase' = IF phase = "building" THEN "failed" ELSE phase
    BY <1>14 DEF Restart
  <2>2. ChainSound' /\ (IsSigned(Step1)' <=> IsSigned(Step1)) /\ (MayExist' <=> MayExist)
    BY <1>3, <2>1 DEF ChainSound, ChainTyped, Dated, IsSigned, MayExist, landingVars
  <2> QED
    BY <1>3, <2>1, <2>2 DEF LaunchInv, KeyKept, Kept
<1>15. ASSUME RegisterLaunch PROVE LaunchInv'
  <2>1. /\ UNCHANGED <<landingVars, phase>> /\ ~registered /\ outcome[Step1] = "ok" /\ phase = "handed" /\ MayExist
    BY <1>4, <1>5, <1>15 DEF RegisterLaunch, MayExist
  <2>2. Files0 \subseteq Kept
    BY <1>3, <2>1 DEF KeyKept
  <2>3. CASE saved' = AllCopied \cup {Settings} /\ registered' = TRUE
    <3>1. Files0 \cup {Settings} \subseteq saved' /\ saved' \subseteq {Key, Step, Record, Settings}
      BY <1>1, <2>2, <2>3 DEF AllCopied, Kept, LaunchInv
    <3>2. KeyKept'
      BY <3>1 DEF KeyKept, Kept
    <3>3. ChainSound' /\ (IsSigned(Step1)' <=> IsSigned(Step1))
      BY <1>3, <2>1 DEF ChainSound, ChainTyped, Dated, IsSigned, landingVars
    <3> QED
      BY <2>1, <2>3, <3>1, <3>2, <3>3 DEF LaunchInv
  <2>4. CASE WriteLaunch /\ registered' = FALSE
    BY <1>6, <1>7, <2>1, <2>4 DEF LaunchInv
  <2>5. CASE /\ \E first \in {IF waiting THEN AllCopied ELSE saved} : saved' \in {first, first \cup {Settings}}
             /\ journaled' = IF waiting THEN {} ELSE journaled
             /\ registered' = FALSE
    <3>1. saved' \subseteq {Key, Step, Record, Settings} /\ saved \subseteq saved' /\ Kept \cap Files0 \subseteq Kept'
      BY <1>1, <2>5 DEF AllCopied, Kept, LaunchInv
    <3> QED
      BY <1>6, <2>1, <2>5, <3>1 DEF LaunchInv
  <2> QED
    BY <1>15, <2>3, <2>4, <2>5 DEF RegisterLaunch
<1>16. ASSUME TidySavedJournal PROVE LaunchInv'
  <2>1. /\ UNCHANGED <<landingVars, phase, registered>> /\ Record \in saved
        /\ saved' \subseteq {Key, Step, Record, Settings} /\ saved \subseteq saved' /\ Kept \cap Files0 \subseteq Kept'
    BY <1>1, <1>16 DEF TidySavedJournal, AllCopied, Copies, Kept, LaunchInv
  <2>2. phase \notin {"none", "building"}
    BY <2>1 DEF LaunchInv
  <2> QED
    BY <1>6, <2>1, <2>2
<1>17. ASSUME RemoveJournal PROVE LaunchInv'
  <2>1. UNCHANGED <<landingVars, phase, registered>> /\ saved' = saved /\ Proven
    BY <1>17 DEF RemoveJournal, MayRemove
  <2>2. phase = "handed" => ~MayExist
    BY <1>3, <2>1, ProvenMeansGone DEF LaunchInv
  <2>3. phase \notin {"none", "building"} \/ journaled' = journaled
    BY <1>1, <1>2, <1>17 DEF RemoveJournal, MayRemove, LaunchInv
  <2> QED
    BY <1>6, <2>1, <2>2, <2>3 DEF LaunchInv
<1>18. ASSUME RemoveRecord PROVE LaunchInv'
  <2>1. UNCHANGED <<landingVars, phase, registered>> /\ saved' \subseteq saved /\ Proven /\ Record \in saved /\ ~registered
    BY <1>18 DEF RemoveRecord, MayRemove
  <2>2. phase = "handed" => ~MayExist
    BY <1>3, <2>1, ProvenMeansGone DEF LaunchInv
  <2>3. phase \notin {"none", "building"} /\ saved' \subseteq {Key, Step, Record, Settings}
    BY <2>1 DEF LaunchInv
  <2> QED
    BY <1>6, <2>1, <2>2, <2>3
<1>19. ASSUME ChainStep, UNCHANGED launchVars PROVE LaunchInv'
  <2>1. ChainSound' /\ lastValid' = lastValid
    BY <1>3, <1>19, ChainStepKeeps
  <2>2. MayExist' => MayExist
    BY <1>3, <1>19, ExistenceOnlyEnds
  <2> QED
    BY <1>3, <1>19, <2>1, <2>2 DEF LaunchInv, KeyKept, Kept, launchVars, IsSigned
<1>20. CASE UNCHANGED <<landingVars, launchVars>>
  BY <1>6, <1>20 DEF launchVars, Kept, LaunchInv
<1> QED
  BY <1>8, <1>9, <1>10, <1>11, <1>12, <1>13, <1>14, <1>15, <1>16, <1>17, <1>18, <1>19, <1>20 DEF LaunchNext

(* Launches: a token that exists, or still may, never loses its only key or*)
(* record, and a registered one has all its files saved, whatever crashes. *)
THEOREM FilesKept == LaunchSpec => []KeyKept
<1>1. LaunchInit => LaunchInv
  <2> SUFFICES ASSUME LaunchInit PROVE LaunchInv
    OBVIOUS
  <2>1. ChainSound /\ ~IsSigned(Step1)
    BY ChainStarts, Step1Is DEF LaunchInit, LandingInit, IsSigned
  <2> QED
    BY <2>1 DEF LaunchInit, LaunchInv, KeyKept
<1>2. LaunchInv /\ [LaunchNext]_<<landingVars, launchVars>> => LaunchInv'
  BY LaunchKeeps
<1>3. LaunchInv => KeyKept
  BY DEF LaunchInv
<1> QED
  BY <1>1, <1>2, <1>3, PTL DEF LaunchSpec

-----------------------------------------------------------------------------
(* Bridge: one transfer under way.                                         *)

(* What the journal says of a transfer that was signed is so: it is        *)
(* unfinished, or failed for good, or arrived.                             *)
Told(s) ==
  \/ journal[s] \in Unfinished
  \/ journal[s] = "failed" /\ Dead(s)
  \/ journal[s] = "completed" /\ s \in arrived

(* One run at a time has the journal as it is, and at most one transfer is *)
(* unfinished, none while a run that found none prepares its own.          *)
OneRun ==
  /\ \A q, r \in Runs : script[q] # "off" /\ script[r] # "off" => q = r
  /\ \A r \in Runs : script[r] # "off" => copy[r] = journal
  /\ \A s, t \in Sends : journal[s] \in Unfinished /\ journal[t] \in Unfinished => s = t
  /\ \A r \in Runs : script[r] = "checking" => \A s \in Sends : journal[s] \notin Unfinished
  /\ \A s \in Sends : IsSigned(s) => Told(s)

(* The variables' types.                                                   *)
BridgeTyped ==
  /\ journal \in [Sends -> Status]
  /\ copy \in [Runs -> [Sends -> Status]]
  /\ script \in [Runs -> {"off", "settling", "checking", "sending", "waiting"}]
  /\ transfer \in [Runs -> SUBSET Sends]
  /\ arrived \subseteq Sends
  /\ overlapped \in BOOLEAN

(* The inductive invariant.                                                *)
BridgeInv ==
  /\ ChainSound
  /\ height <= MaxHeight
  /\ BridgeTyped
  /\ \A r \in Runs : \A s \in transfer[r] : IsSigned(s)
  /\ ~overlapped => OneRun

(* It holds at first.                                                      *)
LEMMA BridgeStarts == BridgeInit => BridgeInv
<1> SUFFICES ASSUME BridgeInit PROVE BridgeInv
  OBVIOUS
<1>1. ChainSound /\ height <= MaxHeight /\ \A s \in Sends : ~IsSigned(s)
  BY ChainStarts, LandingAssumption DEF BridgeInit, LandingInit, IsSigned
<1>2. BridgeTyped
  BY DEF BridgeInit, BridgeTyped, NoTransfers, Status
<1>3. OneRun
  BY <1>1 DEF BridgeInit, OneRun, NoTransfers, Unfinished
<1> QED
  BY <1>1, <1>2, <1>3 DEF BridgeInit, BridgeInv

(* Every step keeps it.                                                    *)
LEMMA BridgeKeeps == BridgeInv /\ [BridgeNext]_<<landingVars, bridgeVars>> => BridgeInv'
<1> SUFFICES ASSUME BridgeInv, [BridgeNext]_<<landingVars, bridgeVars>> PROVE BridgeInv'
  OBVIOUS
<1>1. ChainSound /\ BridgeTyped /\ height <= MaxHeight
  BY DEF BridgeInv
<1>2. /\ journal \in [Sends -> Status] /\ copy \in [Runs -> [Sends -> Status]]
      /\ script \in [Runs -> {"off", "settling", "checking", "sending", "waiting"}]
      /\ transfer \in [Runs -> SUBSET Sends] /\ arrived \subseteq Sends /\ overlapped \in BOOLEAN
  BY <1>1 DEF BridgeTyped
<1>3. ASSUME UNCHANGED landingVars
      PROVE  /\ ChainSound' /\ (height <= MaxHeight)'
             /\ \A s : (Dead(s)' <=> Dead(s)) /\ (IsSigned(s)' <=> IsSigned(s))
  BY <1>1, <1>3 DEF ChainSound, ChainTyped, Dated, Dead, IsSigned, landingVars
<1>4. ASSUME NEW r \in Runs, StartRun(r) PROVE BridgeInv'
  <2>1. /\ script[r] = "off" /\ script' = [script EXCEPT ![r] = "settling"]
        /\ copy' = [copy EXCEPT ![r] = journal]
        /\ overlapped' = (overlapped \/ \E q \in Runs : script[q] # "off")
        /\ UNCHANGED <<landingVars, journal, transfer, arrived>>
    BY <1>4 DEF StartRun, ScriptAt
  <2>2. BridgeTyped'
    BY <1>2, <2>1 DEF BridgeTyped
  <2>3. ASSUME ~overlapped' PROVE OneRun'
    <3>1. OneRun /\ \A q \in Runs : script[q] = "off"
      BY <2>1, <2>3 DEF BridgeInv
    <3>2. \A q \in Runs : script'[q] # "off" => q = r
      BY <1>2, <2>1, <3>1
    <3>3. copy'[r] = journal /\ script'[r] = "settling"
      BY <1>2, <2>1
    <3> QED
      BY <1>3, <2>1, <3>1, <3>2, <3>3 DEF OneRun, Told
  <2>4. overlapped' \/ ~overlapped
    BY <2>1
  <2> QED
    BY <1>3, <2>1, <2>2, <2>3, <2>4 DEF BridgeInv
<1>5. ASSUME NEW r \in Runs, NEW s \in Sends, NEW status \in Status, Write(r, s, status)
      PROVE  /\ copy' \in [Runs -> [Sends -> Status]] /\ journal' \in [Sends -> Status] /\ copy'[r] = journal'
             /\ \A q \in Runs : q # r => copy'[q] = copy[q]
             /\ journal'[s] = status /\ \A t \in Sends : t # s => journal'[t] = copy[r][t]
  BY <1>2, <1>5 DEF Write
<1>6. ASSUME NEW r \in Runs, Reconcile(r) PROVE BridgeInv'
  <2>1. UNCHANGED <<landingVars, script, transfer, arrived, overlapped>> /\ script[r] \in {"settling", "waiting"}
    BY <1>6 DEF Reconcile, Reconciling
  <2>2. PICK s \in Sends :
          \/ copy[r][s] = "pending_x1" /\ \E status \in OnX1(s) : Write(r, s, status)
          \/ copy[r][s] = "pending_solana" /\ s \in arrived /\ Write(r, s, "completed")
    BY <1>6 DEF Reconcile
  <2>3. \E status \in Status : /\ Write(r, s, status) /\ copy[r][s] \in Unfinished
                               /\ \/ status = "pending_solana"
                                  \/ status = "failed" /\ Dead(s)
                                  \/ status = "completed" /\ s \in arrived
    <3>1. CASE copy[r][s] = "pending_x1" /\ \E status \in OnX1(s) : Write(r, s, status)
      <4>1. PICK status \in OnX1(s) : Write(r, s, status)
        BY <3>1
      <4>2. \/ status = "pending_solana"
            \/ status = "failed" /\ (outcome[s] = "err" \/ NeverLanded(s))
        BY <4>1 DEF OnX1
      <4>3. status = "failed" => Dead(s)
        <5>1. CASE outcome[s] = "err"
          BY <5>1 DEF Dead
        <5>2. CASE NeverLanded(s)
          <6>1. outcome[s] = "none" /\ IsSigned(s) /\ height > lastValid[s]
            BY <1>1, <5>2, ProofIsFinal
          <6>2. height \in Int /\ lastValid[s] \in Int
            BY <1>1 DEF ChainSound, ChainTyped
          <6> QED
            BY <6>1, <6>2 DEF Dead
        <5> QED
          BY <4>2, <5>1, <5>2
      <4> QED
        BY <3>1, <4>1, <4>2, <4>3 DEF Status, Unfinished
    <3>2. CASE copy[r][s] = "pending_solana" /\ s \in arrived /\ Write(r, s, "completed")
      BY <3>2 DEF Status, Unfinished
    <3> QED
      BY <2>2, <3>1, <3>2
  <2>4. PICK status \in Status : /\ Write(r, s, status) /\ copy[r][s] \in Unfinished
                                 /\ \/ status = "pending_solana"
                                    \/ status = "failed" /\ Dead(s)
                                    \/ status = "completed" /\ s \in arrived
    BY <2>3
  <2>5. /\ copy' \in [Runs -> [Sends -> Status]] /\ journal' \in [Sends -> Status] /\ copy'[r] = journal'
        /\ \A q \in Runs : q # r => copy'[q] = copy[q]
        /\ journal'[s] = status /\ \A t \in Sends : t # s => journal'[t] = copy[r][t]
    BY <1>5, <2>4
  <2>6. BridgeTyped'
    BY <1>2, <2>1, <2>5 DEF BridgeTyped
  <2>7. ASSUME ~overlapped PROVE OneRun'
    <3>1. OneRun /\ copy[r] = journal
      BY <2>1, <2>7 DEF BridgeInv, OneRun
    <3>2. \A q \in Runs : script[q] # "off" => q = r
      BY <2>1, <3>1 DEF OneRun
    <3>3. \A t \in Sends : journal'[t] \in Unfinished => journal[t] \in Unfinished
      BY <2>4, <2>5, <3>1
    <3>4. \A t \in Sends : IsSigned(t) => Told(t)'
      <4> SUFFICES ASSUME NEW t \in Sends, IsSigned(t) PROVE Told(t)'
        OBVIOUS
      <4>1. CASE t = s
        BY <1>3, <2>1, <2>4, <2>5, <4>1 DEF Told, Unfinished
      <4>2. CASE t # s
        BY <1>3, <2>1, <2>5, <3>1, <4>2 DEF Told, OneRun
      <4> QED
        BY <4>1, <4>2
    <3> QED
      BY <1>3, <2>1, <2>5, <3>1, <3>2, <3>3, <3>4 DEF OneRun
  <2> QED
    BY <1>3, <2>1, <2>6, <2>7 DEF BridgeInv
<1>7. ASSUME NEW r \in Runs, Proceed(r) PROVE BridgeInv'
  <2>1. /\ AllSettled(r) /\ script[r] = "settling" /\ script' = [script EXCEPT ![r] = "checking"]
        /\ UNCHANGED <<landingVars, journal, copy, transfer, arrived, overlapped>>
    BY <1>7 DEF Proceed, ScriptAt
  <2>2. BridgeTyped'
    BY <1>2, <2>1 DEF BridgeTyped
  <2>3. ASSUME ~overlapped PROVE OneRun'
    <3>1. OneRun /\ copy[r] = journal
      BY <2>1, <2>3 DEF BridgeInv, OneRun
    <3>2. \A q \in Runs : script'[q] # "off" <=> script[q] # "off"
      BY <1>2, <2>1
    <3>3. \A s \in Sends : journal[s] \notin Unfinished
      BY <2>1, <3>1 DEF AllSettled
    <3> QED
      BY <1>3, <2>1, <3>1, <3>2, <3>3 DEF OneRun, Told
  <2> QED
    BY <1>3, <2>1, <2>2, <2>3 DEF BridgeInv
<1>8. ASSUME NEW r \in Runs, Journal(r) PROVE BridgeInv'
  <2>1. script[r] = "checking" /\ script' = [script EXCEPT ![r] = "sending"] /\ UNCHANGED <<arrived, overlapped>>
    BY <1>8 DEF Journal, ScriptAt
  <2>2. PICK s \in NextOf({unused \in Sends : ~IsSigned(unused)}) :
          SignSend(s) /\ Write(r, s, "pending_x1") /\ transfer' = [transfer EXCEPT ![r] = {s}]
    BY <1>8 DEF Journal
  <2>3. s \in Sends /\ ~IsSigned(s)
    <3> HIDE DEF IsSigned
    <3> QED
      BY <2>2, NextIsOne
  <2>4. ChainSound' /\ IsSigned(s)' /\ height' = height
    BY <1>1, <2>2, <2>3, SigningKeepsChain DEF SignSend
  <2>5. \A t \in Sends : t # s => lastValid'[t] = lastValid[t]
    BY <2>2 DEF SignSend, ChainSound, ChainTyped
  <2>6. /\ copy' \in [Runs -> [Sends -> Status]] /\ journal' \in [Sends -> Status] /\ copy'[r] = journal'
        /\ \A q \in Runs : q # r => copy'[q] = copy[q]
        /\ journal'[s] = "pending_x1" /\ \A t \in Sends : t # s => journal'[t] = copy[r][t]
    BY <1>5, <2>2, <2>3 DEF Status, Unfinished
  <2>7. BridgeTyped'
    BY <1>2, <2>1, <2>2, <2>3, <2>6 DEF BridgeTyped
  <2>8. \A q \in Runs : \A t \in transfer'[q] : IsSigned(t)'
    <3> SUFFICES ASSUME NEW q \in Runs, NEW t \in transfer'[q] PROVE IsSigned(t)'
      OBVIOUS
    <3>1. CASE t = s
      BY <2>4, <3>1
    <3>2. CASE t # s
      <4>1. t \in transfer[q] /\ t \in Sends
        BY <1>2, <2>2, <2>3, <3>2
      <4> QED
        BY <2>5, <3>2, <4>1 DEF BridgeInv, IsSigned
    <3> QED
      BY <3>1, <3>2
  <2>9. ASSUME ~overlapped PROVE OneRun'
    <3>1. OneRun /\ copy[r] = journal /\ \A t \in Sends : journal[t] \notin Unfinished
      BY <2>1, <2>9 DEF BridgeInv, OneRun
    <3>2. \A q \in Runs : script[q] # "off" => q = r
      BY <2>1, <3>1 DEF OneRun
    <3>3. \A q \in Runs : (script'[q] # "off" => q = r) /\ script'[q] # "checking"
      BY <1>2, <2>1, <3>2
    <3>4. \A t \in Sends : journal'[t] \in Unfinished => t = s
      BY <2>6, <3>1
    <3>5. \A t \in Sends : IsSigned(t)' => Told(t)'
      <4> SUFFICES ASSUME NEW t \in Sends, IsSigned(t)' PROVE Told(t)'
        OBVIOUS
      <4>1. CASE t = s
        BY <2>6, <4>1 DEF Told, Unfinished
      <4>2. CASE t # s
        <5>1. IsSigned(t)
          BY <2>5, <4>2 DEF IsSigned
        <5>2. Told(t) /\ journal'[t] = journal[t]
          BY <5>1, <2>6, <3>1, <4>2 DEF OneRun
        <5>3. Dead(t) => Dead(t)'
          BY <2>2, <2>5, <4>2 DEF SignSend, Dead, IsSigned
        <5> QED
          BY <2>1, <5>2, <5>3 DEF Told
      <4> QED
        BY <4>1, <4>2
    <3> QED
      BY <2>6, <3>3, <3>4, <3>5 DEF OneRun
  <2> QED
    BY <1>1, <2>1, <2>4, <2>7, <2>8, <2>9 DEF BridgeInv
<1>9. ASSUME NEW r \in Runs, SendTransfer(r) PROVE BridgeInv'
  <2>1. /\ script[r] = "sending" /\ script' = [script EXCEPT ![r] = "waiting"]
        /\ UNCHANGED <<journal, copy, transfer, arrived, overlapped>>
    BY <1>9 DEF SendTransfer, ScriptAt
  <2>2. PICK s \in transfer[r] : Broadcast(s)
    BY <1>9 DEF SendTransfer
  <2>3. s \in Sends /\ IsSigned(s)
    BY <1>2, <2>2 DEF BridgeInv
  <2>4. ChainSound' /\ height' = height /\ lastValid' = lastValid /\ outcome' = outcome
    BY <1>1, <2>2, <2>3, SendingKeepsChain DEF Broadcast
  <2>5. BridgeTyped'
    BY <1>2, <2>1 DEF BridgeTyped
  <2>6. \A q \in Runs : (script'[q] # "off" <=> script[q] # "off") /\ (script'[q] = "checking" => script[q] = "checking")
    BY <1>2, <2>1
  <2>7. \A t \in Sends : (IsSigned(t)' <=> IsSigned(t)) /\ (Dead(t)' <=> Dead(t))
    BY <2>4 DEF IsSigned, Dead
  <2>8. ASSUME ~overlapped PROVE OneRun'
    <3>1. OneRun
      BY <2>8 DEF BridgeInv
    <3>2. \A t \in Sends : IsSigned(t)' => Told(t)'
      BY <2>1, <2>7, <3>1 DEF OneRun, Told
    <3> QED
      BY <2>1, <2>6, <3>1, <3>2 DEF OneRun
  <2>9. \A q \in Runs : \A t \in transfer'[q] : IsSigned(t)'
    BY <2>1, <2>4 DEF BridgeInv, IsSigned
  <2> QED
    BY <1>1, <2>1, <2>4, <2>5, <2>8, <2>9 DEF BridgeInv
<1>10. ASSUME NEW r \in Runs, End(r) PROVE BridgeInv'
  <2>1. /\ script' = [script EXCEPT ![r] = "off"]
        /\ UNCHANGED <<landingVars, journal, copy, transfer, arrived, overlapped>>
    BY <1>10 DEF End
  <2>2. BridgeTyped'
    BY <1>2, <2>1 DEF BridgeTyped
  <2>3. \A q \in Runs : script'[q] # "off" => script'[q] = script[q]
    BY <1>2, <2>1
  <2>4. ASSUME ~overlapped PROVE OneRun'
    <3>1. OneRun
      BY <2>4 DEF BridgeInv
    <3>2. \A s \in Sends : IsSigned(s)' => Told(s)'
      BY <1>3, <2>1, <3>1 DEF OneRun, Told
    <3> QED
      BY <2>1, <2>3, <3>1, <3>2 DEF OneRun
  <2> QED
    BY <1>3, <2>1, <2>2, <2>4 DEF BridgeInv
<1>11. ASSUME PayOut PROVE BridgeInv'
  <2>1. PICK s \in Sends : arrived' = arrived \cup {s}
    BY <1>11 DEF PayOut
  <2>2. UNCHANGED <<landingVars, journal, copy, script, transfer, overlapped>>
    BY <1>11 DEF PayOut
  <2>3. BridgeTyped'
    BY <1>2, <2>1, <2>2 DEF BridgeTyped
  <2>4. ASSUME ~overlapped PROVE OneRun'
    <3>1. OneRun
      BY <2>4 DEF BridgeInv
    <3>2. \A t \in Sends : IsSigned(t)' => Told(t)'
      BY <1>3, <2>1, <2>2, <3>1 DEF OneRun, Told
    <3> QED
      BY <2>2, <3>1, <3>2 DEF OneRun
  <2> QED
    BY <1>3, <2>2, <2>3, <2>4 DEF BridgeInv
<1>12. ASSUME ChainStep, UNCHANGED bridgeVars PROVE BridgeInv'
  <2>1. ChainSound' /\ lastValid' = lastValid /\ \A s \in Sends : Dead(s) => Dead(s)'
    BY <1>1, <1>12, ChainStepKeeps
  <2>2. (height <= MaxHeight)'
    BY <1>1, <1>12, LandingAssumption DEF ChainStep, Block, Finalize, ChainSound, ChainTyped
  <2>3. \A s \in Sends : IsSigned(s)' <=> IsSigned(s)
    BY <2>1 DEF IsSigned
  <2>4. BridgeTyped'
    BY <1>1, <1>12 DEF BridgeTyped, bridgeVars
  <2>5. \A r \in Runs : \A s \in transfer'[r] : IsSigned(s)'
    BY <1>2, <1>12, <2>3 DEF BridgeInv, bridgeVars
  <2>6. (~overlapped => OneRun)'
    BY <1>12, <2>1, <2>3 DEF BridgeInv, OneRun, Told, bridgeVars
  <2> QED
    BY <2>1, <2>2, <2>4, <2>5, <2>6 DEF BridgeInv
<1>13. CASE UNCHANGED <<landingVars, bridgeVars>>
  BY <1>1, <1>3, <1>13 DEF BridgeInv, BridgeTyped, OneRun, Told, bridgeVars
<1> QED
  BY <1>4, <1>6, <1>7, <1>8, <1>9, <1>10, <1>11, <1>12, <1>13 DEF BridgeNext

(* It says what the run checks.                                            *)
LEMMA OneUnderWay == BridgeInv => OneTransferUnlessOverlap
<1> SUFFICES ASSUME BridgeInv PROVE OneTransferUnlessOverlap
  OBVIOUS
<1>1. BridgeTypeOK
  BY LandingAssumption DEF BridgeInv, BridgeTyped, BridgeTypeOK, LandingTypeOK, ChainSound, ChainTyped
<1>2. ASSUME ~overlapped, NEW s \in UnderWay PROVE journal[s] \in Unfinished /\ s \in Sends
  <2>1. s \in sent /\ s \in Sends /\ MayCount(s) /\ s \notin arrived
    BY DEF UnderWay, BridgeInv, ChainSound, ChainTyped
  <2>2. Told(s)
    BY <1>2, <2>1 DEF BridgeInv, OneRun, ChainSound, Dated
  <2>3. ~Dead(s)
    BY <2>1 DEF BridgeInv, ChainSound, ChainTyped, Dead, MayCount, MayLand
  <2> QED
    BY <2>1, <2>2, <2>3 DEF Told
<1>3. ASSUME ~overlapped PROVE Cardinality(UnderWay) <= 1
  <2>1. CASE UnderWay = {}
    BY <2>1, FS_EmptySet
  <2>2. CASE UnderWay # {}
    <3>1. PICK s : s \in UnderWay
      BY <2>2
    <3>2. \A t \in UnderWay : t = s
      BY <1>2, <1>3, <3>1 DEF BridgeInv, OneRun
    <3>3. UnderWay = {s}
      BY <3>1, <3>2
    <3>4. Cardinality({s}) = 1
      BY FS_Singleton
    <3> QED
      BY <3>3, <3>4
  <2> QED
    BY <2>1, <2>2
<1> QED
  BY <1>1, <1>2, <1>3 DEF OneTransferUnlessOverlap

(* While bridge runs do not overlap, at most one transfer is under way and *)
(* the journal knows it, however runs crash and give up and whatever lagging*)
(* nodes answer.                                                           *)
THEOREM OneTransfer == BridgeSpec => []OneTransferUnlessOverlap
<1>1. BridgeInit => BridgeInv
  BY BridgeStarts
<1>2. BridgeInv /\ [BridgeNext]_<<landingVars, bridgeVars>> => BridgeInv'
  BY BridgeKeeps
<1>3. BridgeInv => OneTransferUnlessOverlap
  BY OneUnderWay
<1> QED
  BY <1>1, <1>2, <1>3, PTL DEF BridgeSpec

-----------------------------------------------------------------------------
(* ClaimRoots: claims are covered.                                         *)

(* Amounts by pass, their order, and the roots that landed.                *)
Amounts == [Passes -> Nat]
Below(f, g) == \A p \in Passes : f[p] <= g[p]
OnChain == {s \in Sends : outcome[s] = "ok"}
LandedBy(view) == {s \in Sends : outcome[s] = "ok" /\ at[s] <= view}

(* The variables' types.                                                   *)
ClaimsTyped ==
  /\ owed \in Amounts /\ cumulative \in Amounts /\ claimed \in Amounts /\ accrued \in Amounts
  /\ epoch \in Nat
  /\ pendingRoot \in SUBSET Sends

(* A root says what was allocated when it was signed, so roots are ordered, *)
(* and those that landed are ordered by their epochs.                      *)
RootsSound ==
  /\ roots \in [Sends -> [epoch : Nat, totals : Amounts]]
  /\ \A s \in Sends : IsSigned(s) => roots[s].epoch >= 1 /\ Below(roots[s].totals, accrued)
  /\ \A s, t \in Sends : IsSigned(s) /\ IsSigned(t) =>
       Below(roots[s].totals, roots[t].totals) \/ Below(roots[t].totals, roots[s].totals)
  /\ \A s, t \in OnChain : roots[s].epoch <= roots[t].epoch => Below(roots[s].totals, roots[t].totals)
  /\ \A s, t \in OnChain : roots[s].epoch = roots[t].epoch => s = t
  /\ \A s \in OnChain : at[s] <= height
  /\ \A s \in pendingRoot : IsSigned(s)

(* What is in the books was allocated.                                     *)
BooksAdd == \A p \in Passes : cumulative[p] + owed[p] = accrued[p]

(* The inductive invariant.                                                *)
ClaimsInv ==
  /\ ChainSound /\ ClaimsTyped /\ RootsSound /\ BooksAdd
  /\ Below(cumulative, ClaimPool.totals)
  /\ Below(claimed, ClaimPool.totals)

(* What a node shows is the newest of the roots that landed by then.       *)
Newest(pool, landed) ==
  \/ landed = {} /\ pool = NoRoot
  \/ \E s \in landed : pool = roots[s] /\ \A t \in landed : roots[t].epoch <= roots[s].epoch

(* The pool has the newest root that landed by then,                       *)
LEMMA PoolIsNewest ==
  ASSUME RootsSound, NEW view
  PROVE  Newest(PoolAt(view), LandedBy(view))
<1> DEFINE landed == LandedBy(view)
           e == [s \in Sends |-> roots[s].epoch]
<1>1. CASE landed = {}
  BY <1>1 DEF PoolAt, LandedBy, Newest
<1>2. CASE landed # {}
  <2>1. IsFiniteSet(landed) /\ landed \subseteq Sends
    BY ClaimsAssumption, FS_Subset DEF LandedBy
  <2>2. \A s \in landed : e[s] \in Int /\ e[s] = roots[s].epoch
    <3> HIDE DEF landed
    <3> SUFFICES ASSUME NEW s \in landed
                 PROVE  e[s] \in Int /\ e[s] = roots[s].epoch
      OBVIOUS
    <3>1. s \in Sends
      BY <2>1
    <3>2. roots[s] \in [epoch : Nat, totals : Amounts]
      BY <3>1 DEF RootsSound
    <3>3. e[s] = roots[s].epoch
      BY <3>1
    <3>4. roots[s].epoch \in Nat
      BY <3>2
    <3> QED
      BY <3>3, <3>4
  <2> HIDE DEF e, landed
  <2>3. \E s \in landed : \A t \in landed : e[t] <= e[s]
    BY <1>2, <2>1, <2>2, GreatestOf
  <2>4. \E s \in landed : \A t \in landed : roots[t].epoch <= roots[s].epoch
    BY <2>2, <2>3
  <2> DEFINE s == CHOOSE u \in landed : \A t \in landed : roots[t].epoch <= roots[u].epoch
  <2>5. s \in landed /\ \A t \in landed : roots[t].epoch <= roots[s].epoch
    BY <2>4
  <2>6. PoolAt(view) = roots[s]
    BY <1>2 DEF PoolAt, LandedBy, landed
  <2> HIDE DEF s
  <2> QED
    BY <2>5, <2>6 DEF Newest, landed
<1> QED
  BY <1>1, <1>2

(* and the newest of all when read at the tip.                             *)
LEMMA ClaimPoolIsNewest == RootsSound => Newest(ClaimPool, OnChain)
<1> SUFFICES ASSUME RootsSound PROVE Newest(ClaimPool, OnChain)
  OBVIOUS
<1>1. LandedBy(height) = OnChain
  BY DEF LandedBy, OnChain, RootsSound
<1> QED
  BY <1>1, PoolIsNewest DEF ClaimPool

(* Before any root the pool has none.                                      *)
LEMMA NothingType == Nothing \in Amounts /\ NoRoot.epoch = 0 /\ NoRoot.totals = Nothing
BY DEF Nothing, Amounts, NoRoot

(* A root that landed says no more than the newest, and that no more than  *)
(* was allocated.                                                          *)
LEMMA PoolBounds ==
  ASSUME ChainSound, RootsSound, ClaimsTyped
  PROVE  /\ ClaimPool.epoch \in Nat /\ ClaimPool.totals \in Amounts
         /\ \A s \in OnChain : Below(roots[s].totals, ClaimPool.totals) /\ roots[s].epoch <= ClaimPool.epoch
         /\ Below(ClaimPool.totals, accrued)
<1>1. \A s \in OnChain : s \in Sends /\ IsSigned(s)
  BY DEF OnChain, ChainSound, Dated
<1>2. Newest(ClaimPool, OnChain)
  BY ClaimPoolIsNewest
<1>3. CASE OnChain = {} /\ ClaimPool = NoRoot
  BY <1>3, NothingType DEF Below, ClaimsTyped, Amounts, Nothing
<1>4. CASE \E s \in OnChain : ClaimPool = roots[s] /\ \A t \in OnChain : roots[t].epoch <= roots[s].epoch
  <2>1. PICK s \in OnChain : ClaimPool = roots[s] /\ \A t \in OnChain : roots[t].epoch <= roots[s].epoch
    BY <1>4
  <2> QED
    BY <1>1, <2>1 DEF RootsSound
<1> QED
  BY <1>2, <1>3, <1>4 DEF Newest

(* What a node shows, when it shows a root at all, is one that landed.     *)
LEMMA ShownLanded ==
  ASSUME ChainSound, RootsSound, ClaimsTyped, NEW view, PoolAt(view).epoch >= 1
  PROVE  Below(PoolAt(view).totals, ClaimPool.totals)
<1>1. Newest(PoolAt(view), LandedBy(view))
  BY PoolIsNewest
<1>2. PoolAt(view) # NoRoot
  BY NothingType
<1>3. PICK s \in LandedBy(view) : PoolAt(view) = roots[s]
  BY <1>1, <1>2 DEF Newest
<1>4. s \in OnChain
  BY DEF LandedBy, OnChain
<1> QED
  BY <1>3, <1>4, PoolBounds

(* Two answers that are the newest are the same.                           *)
LEMMA NewestIsOne ==
  ASSUME RootsSound, NEW p, NEW q, Newest(p, OnChain), Newest(q, OnChain)
  PROVE  p = q
<1>1. CASE OnChain = {}
  BY <1>1 DEF Newest
<1>2. CASE OnChain # {}
  <2>1. PICK s \in OnChain : p = roots[s] /\ \A t \in OnChain : roots[t].epoch <= roots[s].epoch
    BY <1>2 DEF Newest
  <2>2. PICK u \in OnChain : q = roots[u] /\ \A t \in OnChain : roots[t].epoch <= roots[u].epoch
    BY <1>2 DEF Newest
  <2>3. roots[s].epoch \in Nat /\ roots[u].epoch \in Nat
    BY DEF RootsSound, OnChain
  <2>4. s = u
    BY <2>1, <2>2, <2>3 DEF RootsSound
  <2> QED
    BY <2>1, <2>2, <2>4
<1> QED
  BY <1>1, <1>2

(* The same in the next state.                                             *)
LEMMA ClaimPoolIsNewestNext == RootsSound' => Newest(ClaimPool, OnChain)'
BY ClaimPoolIsNewest, PTL

(* The pool is as it was while no block lands a root and no landed root    *)
(* changes.                                                                *)
LEMMA PoolStays ==
  ASSUME RootsSound, RootsSound', outcome' = outcome, \A s \in OnChain : roots'[s] = roots[s]
  PROVE  ClaimPool' = ClaimPool
<1>1. Newest(ClaimPool, OnChain) /\ Newest(ClaimPool, OnChain)'
  BY ClaimPoolIsNewest, ClaimPoolIsNewestNext
<1>2. OnChain' = OnChain
  BY DEF OnChain
<1> DEFINE p == ClaimPool'
<1>3. \/ OnChain = {} /\ p = NoRoot
      \/ \E s \in OnChain : p = roots'[s] /\ \A t \in OnChain : roots'[t].epoch <= roots'[s].epoch
  BY <1>1, <1>2 DEF Newest
<1> HIDE DEF p
<1>4. Newest(p, OnChain)
  BY <1>3 DEF Newest
<1>5. p = ClaimPool
  BY <1>1, <1>4, NewestIsOne
<1> QED
  BY <1>5 DEF p

(* A step that leaves the chain's roots alone and keeps the books.         *)
LEMMA BooksStep ==
  ASSUME ClaimsInv, ChainSound', ClaimsTyped', RootsSound', BooksAdd',
         outcome' = outcome, \A s \in OnChain : roots'[s] = roots[s],
         Below(cumulative', ClaimPool.totals), Below(claimed', ClaimPool.totals)
  PROVE  ClaimsInv'
<1>1. ClaimPool' = ClaimPool
  BY PoolStays DEF ClaimsInv
<1> QED
  BY <1>1 DEF ClaimsInv, Below

(* Each step keeps the invariant: settling a root on the chain,            *)
LEMMA SettleKeeps ==
  ASSUME ClaimsInv, NEW s \in pendingRoot, SettleRoot(s), Below(roots[s].totals, ClaimPool.totals)
  PROVE  ClaimsInv'
<1>1. /\ cumulative' = roots[s].totals /\ epoch' = roots[s].epoch
      /\ owed' = [p \in Passes |-> owed[p] - (roots[s].totals[p] - cumulative[p])]
      /\ pendingRoot' = {}
      /\ UNCHANGED <<landingVars, roots, claimed, accrued>>
  BY DEF SettleRoot
<1>2. s \in Sends /\ IsSigned(s)
  BY DEF ClaimsInv, RootsSound, ClaimsTyped
<1>3. /\ roots[s].totals \in Amounts /\ roots[s].epoch \in Nat
      /\ \A p \in Passes : roots[s].totals[p] <= accrued[p]
  BY <1>2 DEF ClaimsInv, RootsSound, Below
<1>4. ASSUME NEW p \in Passes
      PROVE  owed'[p] = accrued[p] - roots[s].totals[p] /\ owed'[p] \in Nat
  <2>1. /\ owed[p] \in Nat /\ cumulative[p] \in Nat /\ accrued[p] \in Nat /\ roots[s].totals[p] \in Nat
        /\ cumulative[p] + owed[p] = accrued[p] /\ roots[s].totals[p] <= accrued[p]
    BY <1>3 DEF ClaimsInv, ClaimsTyped, Amounts, BooksAdd
  <2>2. owed'[p] = owed[p] - (roots[s].totals[p] - cumulative[p])
    BY <1>1
  <2> QED
    BY <2>1, <2>2
<1>5. ClaimsTyped'
  <2>1. owed' \in Amounts
    BY <1>1, <1>4 DEF Amounts
  <2> QED
    BY <1>1, <1>3, <2>1 DEF ClaimsInv, ClaimsTyped
<1>6. BooksAdd'
  <2> SUFFICES ASSUME NEW p \in Passes PROVE cumulative'[p] + owed'[p] = accrued[p]
    BY <1>1 DEF BooksAdd
  <2>1. accrued[p] \in Nat /\ roots[s].totals[p] \in Nat
    BY <1>3 DEF ClaimsInv, ClaimsTyped, Amounts
  <2> QED
    BY <1>1, <1>4, <2>1
<1>7. ChainSound' /\ RootsSound'
  BY <1>1 DEF ClaimsInv, ChainSound, ChainTyped, Dated, IsSigned, RootsSound, OnChain, landingVars
<1> QED
  BY <1>1, <1>5, <1>6, <1>7, BooksStep DEF ClaimsInv, landingVars

(* the cycle's own steps,                                                  *)
LEMMA CycleKeeps ==
  ASSUME ClaimsInv, OnlyCycle \/ DropRoot
  PROVE  ClaimsInv'
<1>1. /\ UNCHANGED <<landingVars, owed, cumulative, epoch, roots, claimed, accrued>>
      /\ pendingRoot' = pendingRoot \/ pendingRoot' = {}
  BY DEF OnlyCycle, DropRoot
<1>2. ChainSound' /\ RootsSound' /\ ClaimsTyped' /\ BooksAdd'
  BY <1>1 DEF ClaimsInv, ChainSound, ChainTyped, Dated, IsSigned, RootsSound, OnChain, landingVars, ClaimsTyped, BooksAdd
<1> QED
  BY <1>1, <1>2, BooksStep DEF ClaimsInv, landingVars

(* (a pending root that landed is the pool's, or older)                    *)
LEMMA LandedBelow ==
  ASSUME ClaimsInv, NEW s \in pendingRoot, outcome[s] = "ok"
  PROVE  Below(roots[s].totals, ClaimPool.totals)
BY PoolBounds DEF ClaimsInv, ClaimsTyped, OnChain

(* reading the pool,                                                       *)
LEMMA ReadKeeps == ClaimsInv /\ ReadPool => ClaimsInv'
<1> SUFFICES ASSUME ClaimsInv, ReadPool PROVE ClaimsInv'
  OBVIOUS
<1>1. PICK s \in pendingRoot, view \in 0..height :
        IF PoolAt(view).epoch >= roots[s].epoch /\ PoolAt(view).totals = roots[s].totals
        THEN At("reconciling", "allocating") /\ SettleRoot(s)
        ELSE At("reconciling", "asking") /\ OnlyCycle
  BY DEF ReadPool
<1>2. CASE /\ PoolAt(view).epoch >= roots[s].epoch /\ PoolAt(view).totals = roots[s].totals
           /\ SettleRoot(s)
  <2>1. s \in Sends /\ roots[s].epoch \in Nat /\ roots[s].epoch >= 1
    BY DEF ClaimsInv, ClaimsTyped, RootsSound
  <2>2. PoolAt(view).epoch >= 1
    <3>1. PoolAt(view) = NoRoot \/ \E t \in Sends : PoolAt(view) = roots[t]
      BY PoolIsNewest DEF ClaimsInv, Newest, LandedBy
    <3>2. PoolAt(view).epoch \in Nat
      BY <3>1, NothingType DEF ClaimsInv, RootsSound
    <3> QED
      BY <1>2, <2>1, <3>2
  <2>3. Below(roots[s].totals, ClaimPool.totals)
    BY <1>2, <2>2, ShownLanded DEF ClaimsInv
  <2> QED
    BY <1>2, <2>3, SettleKeeps
<1>3. CASE OnlyCycle
  BY <1>3, CycleKeeps
<1> QED
  BY <1>1, <1>2, <1>3

(* allocating to passes,                                                   *)
LEMMA AllocateKeeps == ClaimsInv /\ AllocateToPasses => ClaimsInv'
<1> SUFFICES ASSUME ClaimsInv, AllocateToPasses PROVE ClaimsInv'
  OBVIOUS
<1>1. PICK add \in [Passes -> {0, 1}] :
        /\ owed' = [p \in Passes |-> owed[p] + add[p]]
        /\ accrued' = [p \in Passes |-> accrued[p] + add[p]]
  BY DEF AllocateToPasses
<1>2. UNCHANGED <<landingVars, cumulative, epoch, pendingRoot, roots, claimed>>
  BY DEF AllocateToPasses
<1>3. ASSUME NEW p \in Passes
      PROVE  /\ owed[p] \in Nat /\ accrued[p] \in Nat /\ cumulative[p] \in Nat /\ add[p] \in Nat
             /\ owed'[p] = owed[p] + add[p] /\ accrued'[p] = accrued[p] + add[p]
             /\ cumulative[p] + owed[p] = accrued[p]
  <2>1. add[p] = 0 \/ add[p] = 1
    BY <1>1
  <2> QED
    BY <1>1, <2>1 DEF ClaimsInv, ClaimsTyped, Amounts, BooksAdd
<1>4. ClaimsTyped'
  <2>1. owed' \in Amounts /\ accrued' \in Amounts
    BY <1>1, <1>3 DEF Amounts
  <2> QED
    BY <1>2, <2>1 DEF ClaimsInv, ClaimsTyped
<1>5. BooksAdd'
  BY <1>2, <1>3 DEF BooksAdd
<1>6. \A s \in Sends : IsSigned(s) => Below(roots[s].totals, accrued')
  <2> SUFFICES ASSUME NEW s \in Sends, IsSigned(s), NEW p \in Passes PROVE roots[s].totals[p] <= accrued'[p]
    BY DEF Below
  <2>1. roots[s].totals[p] \in Nat /\ roots[s].totals[p] <= accrued[p]
    BY DEF ClaimsInv, RootsSound, Below, Amounts
  <2> QED
    BY <1>3, <2>1
<1>7. ChainSound'
  BY <1>2 DEF ClaimsInv, ChainSound, ChainTyped, Dated, IsSigned, landingVars
<1>8. RootsSound'
  BY <1>2, <1>6 DEF ClaimsInv, RootsSound, OnChain, IsSigned, landingVars
<1> QED
  BY <1>2, <1>4, <1>5, <1>7, <1>8, BooksStep DEF ClaimsInv, landingVars

(* signing a root,                                                         *)
LEMMA PublishKeeps == ClaimsInv /\ PublishRoot => ClaimsInv'
<1> SUFFICES ASSUME ClaimsInv, PublishRoot PROVE ClaimsInv'
  OBVIOUS
<1>1. PICK s \in NextOf({unused \in Sends : ~IsSigned(unused)}), view \in 0..height :
        SignSend(s) /\ roots' = [roots EXCEPT ![s] = NextRoot(PoolAt(view))] /\ pendingRoot' = {s}
  BY DEF PublishRoot
<1>2. UNCHANGED <<owed, cumulative, epoch, claimed, accrued>>
  BY DEF PublishRoot
<1>3. s \in Sends /\ ~IsSigned(s)
  <2> HIDE DEF IsSigned
  <2> QED
    BY <1>1, NextIsOne
<1>4. ChainSound' /\ IsSigned(s)' /\ height' = height /\ outcome' = outcome /\ at' = at
  BY <1>1, <1>3, SigningKeepsChain DEF ClaimsInv, SignSend
<1>5. \A t \in Sends : t # s => (IsSigned(t)' <=> IsSigned(t))
  BY <1>1 DEF SignSend, IsSigned, ClaimsInv, ChainSound, ChainTyped
<1> DEFINE root == NextRoot(PoolAt(view))
<1>6. root.totals \in Amounts /\ (\A p \in Passes : root.totals[p] = accrued[p]) /\ root.epoch \in Nat /\ root.epoch >= 1
      /\ root \in [epoch : Nat, totals : Amounts]
  <2>1. PoolAt(view) = NoRoot \/ \E t \in Sends : PoolAt(view) = roots[t]
    BY PoolIsNewest DEF ClaimsInv, Newest, LandedBy
  <2>2. PoolAt(view).epoch \in Nat /\ epoch \in Nat
    BY <2>1, NothingType DEF ClaimsInv, RootsSound, ClaimsTyped
  <2>3. \A p \in Passes : cumulative[p] + owed[p] = accrued[p] /\ accrued[p] \in Nat
    BY DEF ClaimsInv, BooksAdd, ClaimsTyped, Amounts
  <2> QED
    BY <2>2, <2>3 DEF NextRoot, Amounts
<1> HIDE DEF root
<1>7. roots'[s] = root /\ (\A t \in Sends : t # s => roots'[t] = roots[t])
      /\ roots' \in [Sends -> [epoch : Nat, totals : Amounts]]
  BY <1>1, <1>3, <1>6 DEF ClaimsInv, RootsSound, root
<1>8. OnChain' = OnChain /\ s \notin OnChain /\ OnChain \subseteq Sends
  BY <1>3, <1>4 DEF OnChain, ClaimsInv, ChainSound, Dated
<1>9. \A t \in OnChain : roots'[t] = roots[t]
  BY <1>7, <1>8
<1>10. \A t \in Sends : IsSigned(t)' => roots'[t].epoch >= 1 /\ Below(roots'[t].totals, accrued)
  <2>1. Below(root.totals, accrued)
    BY <1>6 DEF Below, ClaimsInv, ClaimsTyped, Amounts
  <2> QED
    BY <1>5, <1>6, <1>7, <2>1 DEF ClaimsInv, RootsSound
<1>11. \A t \in Sends : IsSigned(t)' => Below(roots'[t].totals, roots'[s].totals)
  BY <1>6, <1>7, <1>10 DEF Below
<1>12. RootsSound'
  <2>1. \A t, u \in Sends : IsSigned(t)' /\ IsSigned(u)' =>
           Below(roots'[t].totals, roots'[u].totals) \/ Below(roots'[u].totals, roots'[t].totals)
    <3> SUFFICES ASSUME NEW t \in Sends, NEW u \in Sends, IsSigned(t)', IsSigned(u)'
                 PROVE  Below(roots'[t].totals, roots'[u].totals) \/ Below(roots'[u].totals, roots'[t].totals)
      OBVIOUS
    <3>1. CASE t = s \/ u = s
      BY <3>1, <1>11
    <3>2. CASE t # s /\ u # s
      BY <3>2, <1>5, <1>7 DEF ClaimsInv, RootsSound
    <3> QED
      BY <3>1, <3>2
  <2>2. \A t \in pendingRoot' : IsSigned(t)'
    BY <1>1, <1>4
  <2>3. /\ \A t, u \in OnChain : roots'[t].epoch <= roots'[u].epoch => Below(roots'[t].totals, roots'[u].totals)
        /\ \A t, u \in OnChain : roots'[t].epoch = roots'[u].epoch => t = u
        /\ \A t \in OnChain : at[t] <= height
    BY <1>9 DEF ClaimsInv, RootsSound
  <2> QED
    BY <1>2, <1>4, <1>7, <1>8, <1>10, <2>1, <2>2, <2>3 DEF RootsSound
<1>13. ClaimsTyped' /\ BooksAdd'
  BY <1>1, <1>2, <1>3 DEF ClaimsInv, ClaimsTyped, BooksAdd
<1> QED
  BY <1>2, <1>4, <1>9, <1>12, <1>13, BooksStep DEF ClaimsInv

(* sending it,                                                             *)
LEMMA SendRootKeeps == ClaimsInv /\ SendRoot => ClaimsInv'
<1> SUFFICES ASSUME ClaimsInv, SendRoot PROVE ClaimsInv'
  OBVIOUS
<1>1. PICK s \in pendingRoot : Broadcast(s)
  BY DEF SendRoot
<1>2. UNCHANGED <<owed, cumulative, epoch, pendingRoot, roots, claimed, accrued>>
  BY DEF SendRoot
<1>3. s \in Sends /\ IsSigned(s)
  BY DEF ClaimsInv, ClaimsTyped, RootsSound
<1>4. ChainSound' /\ UNCHANGED <<height, final, lastValid, outcome, at>>
  BY <1>1, <1>3, SendingKeepsChain DEF ClaimsInv, Broadcast
<1>5. ClaimsTyped' /\ BooksAdd' /\ RootsSound'
  BY <1>2, <1>4 DEF ClaimsInv, ClaimsTyped, BooksAdd, RootsSound, OnChain, IsSigned
<1> QED
  BY <1>2, <1>4, <1>5, BooksStep DEF ClaimsInv

(* a pass claiming,                                                        *)
LEMMA ClaimKeepsPool == \A p \in Passes : ClaimsInv /\ ClaimPass(p) => ClaimsInv'
<1> SUFFICES ASSUME NEW p \in Passes, ClaimsInv, ClaimPass(p) PROVE ClaimsInv'
  OBVIOUS
<1>1. /\ claimed' = [claimed EXCEPT ![p] = ClaimPool.totals[p]]
      /\ UNCHANGED <<landingVars, owed, cumulative, epoch, pendingRoot, roots, cycleAt, accrued>>
  BY DEF ClaimPass
<1>2. ClaimPool.totals \in Amounts
  BY PoolBounds DEF ClaimsInv
<1> DEFINE totals == ClaimPool.totals
<1> HIDE DEF totals
<1>3. claimed' = [claimed EXCEPT ![p] = totals[p]] /\ totals \in Amounts
  BY <1>1, <1>2 DEF totals
<1>4. claimed' \in Amounts /\ Below(claimed', totals)
  <2>1. claimed \in Amounts /\ Below(claimed, totals)
    BY DEF ClaimsInv, ClaimsTyped, totals
  <2> QED
    BY <2>1, <1>3 DEF Amounts, Below
<1>5. ChainSound' /\ ClaimsTyped' /\ BooksAdd' /\ RootsSound'
  BY <1>1, <1>4 DEF ClaimsInv, ChainSound, ChainTyped, Dated, ClaimsTyped, BooksAdd, RootsSound, OnChain, IsSigned, landingVars
<1> QED
  BY <1>1, <1>4, <1>5, BooksStep DEF ClaimsInv, totals, landingVars

(* A block with a root in it: set_root takes only a newer epoch and no     *)
(* smaller a total, and roots are ordered, so none is taken away.          *)
LEMMA BlockKeeps == ClaimsInv /\ ClaimsChain => ClaimsInv'
<1> SUFFICES ASSUME ClaimsInv, ClaimsChain PROVE ClaimsInv'
  OBVIOUS
<1> DEFINE landing == {s \in Sends : outcome'[s] = "ok" /\ outcome[s] = "none"}
<1>1. /\ Block /\ UNCHANGED claimsVars
      /\ Cardinality(landing) <= 1 /\ \A s \in landing : RootAccepted(s)
  BY DEF ClaimsChain
<1>2. ChainSound' /\ lastValid' = lastValid
  BY <1>1, ChainStepKeeps DEF ClaimsInv, ChainStep
<1>3. /\ height' = height + 1 /\ height \in Nat
      /\ \A s \in Sends : /\ outcome[s] = "ok" => outcome'[s] = "ok" /\ at'[s] = at[s]
                          /\ outcome'[s] = "ok" /\ outcome[s] # "ok" =>
                               outcome[s] = "none" /\ at'[s] = height + 1 /\ s \in sent
  <2>1. PICK taken \in SUBSET {s \in Sends : MayLand(s)} : \E failing \in SUBSET taken :
          /\ outcome' = [s \in Sends |-> IF s \in failing THEN "err"
                                         ELSE IF s \in taken THEN "ok" ELSE outcome[s]]
          /\ at' = [s \in Sends |-> IF s \in taken THEN height + 1 ELSE at[s]]
    BY <1>1 DEF Block
  <2>2. PICK failing \in SUBSET taken :
          /\ outcome' = [s \in Sends |-> IF s \in failing THEN "err"
                                         ELSE IF s \in taken THEN "ok" ELSE outcome[s]]
          /\ at' = [s \in Sends |-> IF s \in taken THEN height + 1 ELSE at[s]]
    BY <2>1
  <2>3. height' = height + 1 /\ height \in Nat
    BY <1>1 DEF Block, ClaimsInv, ChainSound, ChainTyped
  <2> QED
    BY <2>2, <2>3 DEF MayLand
<1>4. \A s, t \in landing : s = t
  <2>1. IsFiniteSet(landing)
    BY ClaimsAssumption, FS_Subset
  <2> SUFFICES ASSUME NEW s \in landing, NEW t \in landing, s # t PROVE FALSE
    OBVIOUS
  <2>2. IsFiniteSet({s}) /\ Cardinality({s}) = 1
    BY FS_Singleton
  <2>3. IsFiniteSet({s} \cup {t}) /\ Cardinality({s} \cup {t}) = 2
    BY <2>2, FS_AddElement
  <2>4. Cardinality({s} \cup {t}) <= Cardinality(landing)
    BY <2>1, <2>3, FS_Subset
  <2>5. Cardinality(landing) \in Nat
    BY <2>1, FS_CardinalityType
  <2> QED
    BY <1>1, <2>3, <2>4, <2>5
<1>5. OnChain' = OnChain \cup landing
  BY <1>3 DEF OnChain, ClaimsInv, ChainSound, ChainTyped
<1>6. /\ ClaimPool.epoch \in Nat /\ ClaimPool.totals \in Amounts
      /\ \A s \in OnChain : Below(roots[s].totals, ClaimPool.totals) /\ roots[s].epoch <= ClaimPool.epoch
  BY PoolBounds DEF ClaimsInv
<1>7. ASSUME NEW s \in landing
      PROVE  /\ roots[s].epoch > ClaimPool.epoch /\ Below(ClaimPool.totals, roots[s].totals)
             /\ s \in Sends /\ IsSigned(s) /\ roots[s].epoch \in Nat /\ roots[s].totals \in Amounts
             /\ s \notin OnChain
  <2>1. s \in Sends /\ IsSigned(s) /\ roots[s].epoch \in Nat /\ roots[s].totals \in Amounts /\ s \notin OnChain
    BY <1>3 DEF ClaimsInv, ChainSound, Dated, RootsSound, OnChain
  <2>2. roots[s].epoch > ClaimPool.epoch /\ TotalOf(roots[s].totals) >= TotalOf(ClaimPool.totals)
    BY <1>1 DEF RootAccepted
  <2> DEFINE f == roots[s].totals
             g == ClaimPool.totals
  <2>3. f \in Amounts /\ g \in Amounts
    BY <1>6, <2>1
  <2>4. Below(f, g) \/ Below(g, f)
    <3>1. CASE OnChain = {} /\ ClaimPool = NoRoot
      BY <2>3, <3>1, NothingType DEF Below, Amounts, Nothing
    <3>2. CASE \E t \in OnChain : ClaimPool = roots[t]
      <4>1. PICK t \in OnChain : ClaimPool = roots[t]
        BY <3>2
      <4>2. t \in Sends /\ IsSigned(t)
        BY DEF OnChain, ClaimsInv, ChainSound, Dated
      <4> QED
        BY <4>1, <4>2, <2>1 DEF ClaimsInv, RootsSound
    <3> QED
      BY <3>1, <3>2, ClaimPoolIsNewest DEF ClaimsInv, Newest
  <2>5. FSum(f, Passes) >= FSum(g, Passes)
    BY <2>2, SumFunctionIs DEF TotalOf
  <2> HIDE DEF f, g
  <2>6. \A p \in Passes : f[p] \in Int /\ g[p] \in Int
    BY <2>3 DEF Amounts
  <2>7. Below(g, f)
    <3>1. CASE Below(f, g)
      <4>1. \A p \in Passes : f[p] <= g[p]
        BY <3>1 DEF Below
      <4>2. FSum(f, Passes) \in Int /\ FSum(g, Passes) \in Int /\ FSum(g, Passes) <= FSum(f, Passes)
        BY <2>5, <2>6, ClaimsAssumption, SumType
      <4>3. \A p \in Passes : f[p] = g[p]
        BY <4>1, <4>2, <2>6, ClaimsAssumption, SumStrict
      <4> QED
        BY <4>3, <2>6 DEF Below
    <3> QED
      BY <2>4, <3>1
  <2> QED
    BY <2>1, <2>2, <2>7 DEF f, g
<1>8. ClaimsTyped' /\ BooksAdd'
  BY <1>1 DEF ClaimsInv, ClaimsTyped, BooksAdd, claimsVars
<1>9. ASSUME NEW s \in OnChain, NEW t \in landing
      PROVE  roots[s].epoch < roots[t].epoch /\ Below(roots[s].totals, roots[t].totals)
  <2>1. roots[s].epoch \in Nat /\ roots[s].totals \in Amounts
    BY DEF OnChain, ClaimsInv, RootsSound
  <2> DEFINE a == roots[s].totals
             b == ClaimPool.totals
             c == roots[t].totals
  <2>2. a \in Amounts /\ b \in Amounts /\ c \in Amounts /\ Below(a, b) /\ Below(b, c)
    BY <1>6, <1>7, <2>1
  <2> HIDE DEF a, b, c
  <2>3. Below(a, c)
    BY <2>2 DEF Below, Amounts
  <2>4. roots[s].epoch <= ClaimPool.epoch /\ roots[t].epoch > ClaimPool.epoch /\ roots[t].epoch \in Nat
    BY <1>6, <1>7
  <2> QED
    BY <2>1, <2>3, <2>4, <1>6 DEF a, c
<1>10. RootsSound'
  <2>1. \A s, t \in OnChain \cup landing :
           /\ roots[s].epoch <= roots[t].epoch => Below(roots[s].totals, roots[t].totals)
           /\ roots[s].epoch = roots[t].epoch => s = t
    <3> SUFFICES ASSUME NEW s \in OnChain \cup landing, NEW t \in OnChain \cup landing
                 PROVE  /\ roots[s].epoch <= roots[t].epoch => Below(roots[s].totals, roots[t].totals)
                        /\ roots[s].epoch = roots[t].epoch => s = t
      OBVIOUS
    <3>1. s \in Sends /\ t \in Sends /\ roots[s].epoch \in Nat /\ roots[t].epoch \in Nat
          /\ roots[s].totals \in Amounts /\ roots[t].totals \in Amounts
      BY DEF OnChain, ClaimsInv, RootsSound
    <3>2. CASE s \in OnChain /\ t \in OnChain
      BY <3>2 DEF ClaimsInv, RootsSound
    <3>3. CASE s \in OnChain /\ t \in landing
      BY <1>9, <3>1, <3>3
    <3>4. CASE s \in landing /\ t \in OnChain
      BY <1>9, <3>1, <3>4
    <3>5. CASE s \in landing /\ t \in landing
      <4>1. s = t
        BY <1>4, <3>5
      <4>2. Below(roots[s].totals, roots[s].totals)
        BY <3>1 DEF Below, Amounts
      <4> QED
        BY <4>1, <4>2
    <3> QED
      BY <3>2, <3>3, <3>4, <3>5
  <2>2. \A s \in OnChain \cup landing : at'[s] <= height'
    <3>1. \A s \in Sends : at[s] \in Nat
      BY DEF ClaimsInv, ChainSound, ChainTyped
    <3>2. \A s \in OnChain : at[s] <= height /\ s \in Sends /\ outcome[s] = "ok"
      BY DEF ClaimsInv, RootsSound, OnChain
    <3> QED
      BY <1>3, <3>1, <3>2
  <2>3. \A s : IsSigned(s)' <=> IsSigned(s)
    BY <1>2 DEF IsSigned
  <2> HIDE DEF landing
  <2> QED
    BY <1>1, <1>5, <2>1, <2>2, <2>3 DEF ClaimsInv, RootsSound, claimsVars
<1>11. Below(ClaimPool.totals, ClaimPool'.totals)
  <2>1. Newest(ClaimPool, OnChain) /\ Newest(ClaimPool, OnChain)'
    BY <1>10, ClaimPoolIsNewest, ClaimPoolIsNewestNext DEF ClaimsInv
  <2> DEFINE p == ClaimPool'
  <2>2. \/ OnChain' = {} /\ p = NoRoot
        \/ \E s \in OnChain' : p = roots[s] /\ \A t \in OnChain' : roots[t].epoch <= roots[s].epoch
    BY <1>1, <2>1 DEF Newest, claimsVars
  <2> HIDE DEF p
  <2>3. CASE landing = {}
    <3>1. OnChain' = OnChain
      BY <1>5, <2>3
    <3>2. Newest(p, OnChain)
      BY <2>2, <3>1 DEF Newest
    <3>3. p = ClaimPool
      BY <2>1, <3>2, NewestIsOne DEF ClaimsInv
    <3> QED
      BY <3>3, <1>6 DEF Below, Amounts, p
  <2>4. CASE landing # {}
    <3>1. PICK s \in landing : TRUE
      BY <2>4
    <3>2. PICK u \in OnChain' : p = roots[u] /\ roots[s].epoch <= roots[u].epoch
      BY <2>2, <3>1, <1>5
    <3>3. u = s
      <4>1. CASE u \in OnChain
        <5>1. roots[u].epoch \in Nat /\ roots[s].epoch \in Nat
          BY <4>1, <1>7 DEF OnChain, ClaimsInv, RootsSound
        <5>2. roots[u].epoch < roots[s].epoch
          BY <4>1, <1>9
        <5> QED
          BY <3>2, <5>1, <5>2
      <4>2. CASE u \in landing
        BY <4>2, <1>4
      <4> QED
        BY <1>5, <4>1, <4>2
    <3> QED
      BY <3>2, <3>3, <1>7 DEF p
  <2> QED
    BY <2>3, <2>4
<1>12. Below(cumulative, ClaimPool'.totals) /\ Below(claimed, ClaimPool'.totals)
  <2>1. ClaimPool'.totals \in Amounts
    <3>1. Newest(ClaimPool, OnChain)'
      BY <1>10, ClaimPoolIsNewestNext
    <3> DEFINE p == ClaimPool'
    <3>2. p = NoRoot \/ \E s \in Sends : p = roots[s]
      BY <1>1, <3>1 DEF Newest, claimsVars, OnChain
    <3> HIDE DEF p
    <3>3. p.totals \in Amounts
      BY <3>2, NothingType DEF ClaimsInv, RootsSound
    <3> QED
      BY <3>3 DEF p
  <2> DEFINE a == ClaimPool.totals
             b == ClaimPool'.totals
  <2>2. /\ a \in Amounts /\ b \in Amounts /\ Below(a, b)
        /\ Below(cumulative, a) /\ Below(claimed, a) /\ cumulative \in Amounts /\ claimed \in Amounts
    BY <1>6, <1>11, <2>1 DEF ClaimsInv, ClaimsTyped
  <2> HIDE DEF a, b
  <2>3. Below(cumulative, b) /\ Below(claimed, b)
    BY <2>2 DEF Below, Amounts
  <2> QED
    BY <2>3 DEF b
<1> QED
  BY <1>1, <1>2, <1>8, <1>10, <1>12 DEF ClaimsInv, claimsVars, Below

(* and so every step.                                                      *)
LEMMA ClaimsKeep == ClaimsInv /\ [ClaimsNext]_<<landingVars, claimsVars>> => ClaimsInv'
<1> SUFFICES ASSUME ClaimsInv, [ClaimsNext]_<<landingVars, claimsVars>> PROVE ClaimsInv'
  OBVIOUS
<1>1. ASSUME BeginCycle \/ TireOfRoot \/ EndCycle PROVE ClaimsInv'
  BY <1>1, CycleKeeps DEF BeginCycle, TireOfRoot, EndCycle
<1>2. ASSUME AskOutcome PROVE ClaimsInv'
  <2>1. PICK s \in pendingRoot :
          \/ "confirmed" \in Outcomes(s) /\ SettleRoot(s)
          \/ DropRoot
          \/ OnlyCycle
    BY <1>2 DEF AskOutcome
  <2>2. "confirmed" \in Outcomes(s) => outcome[s] = "ok"
    BY DEF Outcomes
  <2> QED
    BY <2>1, <2>2, LandedBelow, SettleKeeps, CycleKeeps
<1>3. ASSUME ConfirmRoot PROVE ClaimsInv'
  <2>1. PICK s \in pendingRoot : outcome[s] = "ok" /\ SettleRoot(s)
    BY <1>3 DEF ConfirmRoot
  <2> QED
    BY <2>1, LandedBelow, SettleKeeps
<1>4. CASE UNCHANGED <<landingVars, claimsVars>>
  <2>1. OnlyCycle
    BY <1>4 DEF OnlyCycle, claimsVars
  <2> QED
    BY <2>1, CycleKeeps
<1> QED
  BY <1>1, <1>2, <1>3, <1>4, ReadKeeps, AllocateKeeps, PublishKeeps, SendRootKeeps, ClaimKeepsPool, BlockKeeps
     DEF ClaimsNext

(* The invariant holds at first.                                           *)
LEMMA ClaimsStart == LandingInit /\ ClaimsInit => ClaimsInv
<1> SUFFICES ASSUME LandingInit, ClaimsInit PROVE ClaimsInv
  OBVIOUS
<1>1. ChainSound /\ OnChain = {} /\ \A s \in Sends : ~IsSigned(s)
  BY ChainStarts DEF LandingInit, OnChain, IsSigned
<1>2. ClaimsTyped /\ BooksAdd
  BY DEF ClaimsInit, ClaimsTyped, BooksAdd, Nothing, Amounts
<1>3. NoRoot \in [epoch : Nat, totals : Amounts]
  BY NothingType DEF NoRoot
<1>4. RootsSound
  BY <1>1, <1>3 DEF ClaimsInit, RootsSound
<1>5. ClaimPool.totals \in Amounts
  BY <1>1, <1>2, <1>4, PoolBounds
<1>6. Below(Nothing, ClaimPool.totals)
  BY <1>5 DEF Below, Nothing, Amounts
<1> QED
  BY <1>1, <1>2, <1>4, <1>6 DEF ClaimsInv, ClaimsInit

(* It says what the run checks.                                            *)
LEMMA ClaimsInvCovers == ClaimsInv => ClaimsCovered
<1> SUFFICES ASSUME ClaimsInv PROVE ClaimsCovered
  OBVIOUS
<1>1. Below(ClaimPool.totals, accrued)
  BY PoolBounds DEF ClaimsInv
<1> QED
  BY <1>1 DEF ClaimsInv, ClaimsCovered, BooksAdd, Below

(* reconcileRoot, set_root, claim_pass: whatever a pass was allocated is   *)
(* under the settled root or still owed, and nobody draws more: roots that *)
(* are dropped and land all the same neither lose rewards nor pay them     *)
(* twice.                                                                  *)
THEOREM ClaimsAlwaysCovered == ClaimsSpec => []ClaimsCovered
<1>1. LandingInit /\ ClaimsInit => ClaimsInv
  BY ClaimsStart
<1>2. ClaimsInv /\ [ClaimsNext]_<<landingVars, claimsVars>> => ClaimsInv'
  BY ClaimsKeep
<1>3. ClaimsInv => ClaimsCovered
  BY ClaimsInvCovers
<1> QED
  BY <1>1, <1>2, <1>3, PTL DEF ClaimsSpec


(* A sum of amounts over the passes, and that it keeps their order.        *)
LEMMA TotalOfIs ==
  ASSUME NEW f \in Amounts
  PROVE  TotalOf(f) = FSum(f, Passes) /\ TotalOf(f) \in Nat
<1>1. TotalOf(f) = FSum(f, Passes)
  BY SumFunctionIs DEF TotalOf
<1>2. \A p \in Passes : f[p] \in Nat
  BY DEF Amounts
<1> QED
  BY <1>1, <1>2, ClaimsAssumption, SumNat

LEMMA TotalOfGrows ==
  ASSUME NEW f \in Amounts, NEW g \in Amounts, Below(f, g)
  PROVE  TotalOf(f) <= TotalOf(g)
<1>1. \A p \in Passes : f[p] \in Int /\ g[p] \in Int /\ f[p] <= g[p]
  BY DEF Amounts, Below
<1>2. FSum(f, Passes) <= FSum(g, Passes)
  BY <1>1, ClaimsAssumption, SumMonotone
<1> QED
  BY <1>2, TotalOfIs

(* (every root that landed is under the pool's, also in the next state)    *)
RootsUnderPool ==
  /\ ClaimPool.totals \in Amounts
  /\ \A s \in OnChain : Below(roots[s].totals, ClaimPool.totals)

LEMMA RootsUnderPoolHolds == ClaimsInv => RootsUnderPool
BY PoolBounds DEF ClaimsInv, RootsUnderPool

LEMMA RootsUnderPoolNext == ClaimsInv' => RootsUnderPool'
BY RootsUnderPoolHolds, PTL

(* What the pool shows only grows, by whichever root lands.                *)
LEMMA PoolOnlyGrows ==
  ASSUME ClaimsInv, ClaimsInv', OnChain \subseteq OnChain', \A s \in OnChain : roots'[s] = roots[s]
  PROVE  /\ ClaimPool.totals \in Amounts /\ ClaimPool'.totals \in Amounts
         /\ Below(ClaimPool.totals, ClaimPool'.totals)
<1> DEFINE later == ClaimPool'.totals
<1>1. /\ later \in Amounts
      /\ \A s \in OnChain' : Below(roots'[s].totals, later)
  <2>1. RootsUnderPool'
    BY RootsUnderPoolNext
  <2> QED
    BY <2>1 DEF RootsUnderPool, Below
<1> HIDE DEF later
<1>2. ClaimPool.totals \in Amounts
  BY PoolBounds DEF ClaimsInv
<1>3. ASSUME ClaimPool = NoRoot PROVE Below(ClaimPool.totals, later)
  BY <1>1, <1>3, NothingType DEF Below, Amounts, Nothing
<1>4. ASSUME NEW s \in OnChain, ClaimPool = roots[s] PROVE Below(ClaimPool.totals, later)
  BY <1>1, <1>4
<1>5. ClaimPool = NoRoot \/ \E s \in OnChain : ClaimPool = roots[s]
  BY ClaimPoolIsNewest DEF ClaimsInv, Newest
<1> QED
  BY <1>1, <1>2, <1>3, <1>4, <1>5 DEF later

(* Steps that leave what was claimed alone fund the pool or do nothing.    *)
LEMMA FundsOrNothing ==
  ASSUME ClaimsInv, ClaimsInv', OnChain \subseteq OnChain', \A s \in OnChain : roots'[s] = roots[s],
         claimed' = claimed
  PROVE  Promise!Fund \/ UNCHANGED Promise!pool
<1> DEFINE before == TotalOf(ClaimPool.totals)
           after == TotalOf(ClaimPool.totals)'
<1>1. before \in Nat /\ after \in Nat /\ before <= after
  <2> DEFINE f == ClaimPool.totals
             g == ClaimPool'.totals
  <2>1. f \in Amounts /\ g \in Amounts /\ Below(f, g)
    BY PoolOnlyGrows
  <2>2. before = TotalOf(f) /\ after = TotalOf(g)
    BY DEF TotalOf
  <2> HIDE DEF f, g, before, after
  <2> QED
    BY <2>1, <2>2, TotalOfIs, TotalOfGrows
<1>2. TotalOf(claimed)' = TotalOf(claimed)
  BY DEF TotalOf
<1>3. CASE before = after
  BY <1>2, <1>3 DEF Promise!pool
<1>4. CASE before # after
  <2>1. after > before
    BY <1>1, <1>4
  <2> QED
    BY <1>1, <1>2, <2>1 DEF Promise!Fund
<1> QED
  BY <1>3, <1>4

(* A claim is paid, in full, out of what roots funded.                     *)
LEMMA ClaimPays ==
  ASSUME ClaimsInv, ClaimsInv', NEW p \in Passes, ClaimPass(p)
  PROVE  Promise!PayOne(p)
<1> DEFINE totals == ClaimPool.totals
<1>1. totals \in Amounts /\ Below(claimed, totals) /\ claimed \in Amounts
  BY PoolBounds DEF ClaimsInv, ClaimsTyped
<1>2. claimed[p] < totals[p] /\ claimed' = [claimed EXCEPT ![p] = totals[p]]
      /\ UNCHANGED <<landingVars, owed, cumulative, epoch, pendingRoot, roots, cycleAt, accrued>>
  BY DEF ClaimPass
<1>3. ClaimPool' = ClaimPool
  <2>1. OnChain' = OnChain /\ outcome' = outcome /\ \A s \in OnChain : roots'[s] = roots[s]
    BY <1>2 DEF OnChain, landingVars
  <2> QED
    BY <2>1, PoolStays DEF ClaimsInv
<1>4. TotalOf(ClaimPool.totals)' = TotalOf(ClaimPool.totals)
  BY <1>3 DEF TotalOf
<1> HIDE DEF totals
<1>5. claimed' \in Amounts /\ Below(claimed', totals)
  BY <1>1, <1>2 DEF Amounts, Below
<1>6. TotalOf(claimed') = TotalOf(claimed) + (totals[p] - claimed[p])
  <2>1. \A q \in Passes : claimed[q] \in Int /\ totals[q] \in Int
    BY <1>1 DEF Amounts
  <2> DEFINE next == claimed'
  <2>2. /\ \A q \in Passes : claimed[q] \in Int /\ next[q] \in Int
        /\ \A q \in Passes \ {p} : next[q] = claimed[q]
        /\ next[p] = totals[p]
    BY <1>1, <1>2, <2>1 DEF Amounts
  <2> HIDE DEF next
  <2>3. FSum(next, Passes) = FSum(claimed, Passes) + (totals[p] - claimed[p])
    BY <2>2, ClaimsAssumption, SumUpdate
  <2> QED
    BY <1>1, <1>5, <2>3, TotalOfIs DEF next
<1>7. TotalOf(claimed)' = TotalOf(claimed')
  BY DEF TotalOf
<1>8. /\ TotalOf(claimed) \in Nat /\ TotalOf(claimed') \in Nat /\ TotalOf(totals) \in Nat
      /\ TotalOf(claimed') <= TotalOf(totals)
  BY <1>1, <1>5, TotalOfIs, TotalOfGrows
<1>9. totals[p] \in Nat /\ claimed[p] \in Nat
  BY <1>1 DEF Amounts
<1>10. claimed' = [claimed EXCEPT ![p] = @ + (TotalOf(claimed') - TotalOf(claimed))]
  <2>1. totals[p] = claimed[p] + (TotalOf(claimed') - TotalOf(claimed))
    BY <1>6, <1>8, <1>9
  <2> QED
    BY <1>2, <2>1
<1>11. TotalOf(claimed) < TotalOf(claimed')
  BY <1>2, <1>6, <1>8, <1>9
<1>12. TotalOf(ClaimPool.totals) = TotalOf(totals)
  BY DEF totals
<1> QED
  BY <1>4, <1>7, <1>8, <1>10, <1>11, <1>12 DEF Promise!PayOne

(* set_root, claim_pass: the distributor's claim roots and lp_locker's     *)
(* pool implement HolderPool.  Whatever a cycle drops, and however late    *)
(* its root lands, what roots funded is never taken back, and every claim  *)
(* comes out of it and reaches its pass in full.                           *)
THEOREM ClaimRootsKeepPromise == ClaimsSpec => ClaimsKeepPromise
<1>1. LandingInit /\ ClaimsInit => Promise!PoolInit
  <2> SUFFICES ASSUME LandingInit, ClaimsInit PROVE Promise!PoolInit
    OBVIOUS
  <2>1. ClaimsInv /\ OnChain = {}
    BY ClaimsStart DEF LandingInit, OnChain
  <2>2. ClaimPool = NoRoot
    BY <2>1, ClaimPoolIsNewest DEF ClaimsInv, Newest
  <2>3. TotalOf(Nothing) = 0
    <3>1. \A p \in Passes : Nothing[p] = 0
      BY DEF Nothing
    <3>2. FSum(Nothing, Passes) = 0
      BY <3>1, ClaimsAssumption, SumZero
    <3> QED
      BY <3>2, NothingType, TotalOfIs
  <2>4. claimed = Nothing
    BY DEF ClaimsInit
  <2> QED
    BY <2>2, <2>3, <2>4, NothingType DEF Promise!PoolInit, Nothing
<1>2. ClaimsInv /\ ClaimsInv' /\ [ClaimsNext]_<<landingVars, claimsVars>> => [Promise!PoolNext]_(Promise!pool)
  <2> SUFFICES ASSUME ClaimsInv, ClaimsInv', [ClaimsNext]_<<landingVars, claimsVars>>
               PROVE  Promise!PoolNext \/ UNCHANGED Promise!pool
    OBVIOUS
  <2>1. CASE \E p \in Passes : ClaimPass(p)
    BY <2>1, ClaimPays DEF Promise!PoolNext
  <2>2. ASSUME ClaimsChain PROVE Promise!PoolNext \/ UNCHANGED Promise!pool
    <3>1. UNCHANGED claimsVars
      BY <2>2 DEF ClaimsChain
    <3>2. OnChain \subseteq OnChain'
      <4>1. ChainStep /\ ChainSound
        BY <2>2 DEF ClaimsChain, ChainStep, ClaimsInv
      <4> QED
        BY <4>1, ChainStepKeeps DEF OnChain
    <3> QED
      BY <3>1, <3>2, FundsOrNothing DEF Promise!PoolNext, claimsVars
  <2>3. ASSUME PublishRoot PROVE Promise!PoolNext \/ UNCHANGED Promise!pool
    <3>1. PICK s \in NextOf({unused \in Sends : ~IsSigned(unused)}), view \in 0..height :
            SignSend(s) /\ roots' = [roots EXCEPT ![s] = NextRoot(PoolAt(view))]
      BY <2>3 DEF PublishRoot
    <3>2. s \in Sends /\ ~IsSigned(s)
      <4> HIDE DEF IsSigned
      <4> QED
        BY <3>1, NextIsOne
    <3>3. outcome' = outcome /\ claimed' = claimed
      BY <2>3, <3>1 DEF PublishRoot, SignSend
    <3>4. OnChain' = OnChain /\ s \notin OnChain
      BY <3>2, <3>3 DEF OnChain, ClaimsInv, ChainSound, Dated
    <3>5. \A t \in OnChain : roots'[t] = roots[t]
      BY <3>1, <3>4 DEF OnChain, ClaimsInv, RootsSound
    <3> QED
      BY <3>3, <3>4, <3>5, FundsOrNothing DEF Promise!PoolNext
  <2>4. ASSUME UNCHANGED <<outcome, roots, claimed>> PROVE Promise!PoolNext \/ UNCHANGED Promise!pool
    <3>1. OnChain' = OnChain /\ \A s \in OnChain : roots'[s] = roots[s]
      BY <2>4 DEF OnChain
    <3> QED
      BY <2>4, <3>1, FundsOrNothing DEF Promise!PoolNext
  <2>5. ASSUME BeginCycle \/ ReadPool \/ AskOutcome \/ AllocateToPasses \/ SendRoot \/ ConfirmRoot
               \/ TireOfRoot \/ EndCycle \/ UNCHANGED <<landingVars, claimsVars>>
        PROVE  UNCHANGED <<outcome, roots, claimed>>
    BY <2>5 DEF BeginCycle, ReadPool, AskOutcome, AllocateToPasses, SendRoot, ConfirmRoot, TireOfRoot,
       EndCycle, OnlyCycle, SettleRoot, DropRoot, Broadcast, landingVars, claimsVars
  <2> QED
    BY <2>1, <2>2, <2>3, <2>4, <2>5 DEF ClaimsNext
<1>3. ClaimsInv /\ [ClaimsNext]_<<landingVars, claimsVars>> => ClaimsInv'
  BY ClaimsKeep
<1> QED
  BY <1>1, <1>2, <1>3, ClaimsStart, PTL DEF ClaimsSpec, ClaimsKeepPromise, Promise!PoolSpec

-----------------------------------------------------------------------------
(* DistributorLock: cycles overlap only after a process that held or read  *)
(* the lock file is gone.                                                  *)

(* No process is gone.                                                     *)
NoneGone == \A p \in Cyclers : runAt[p] # "gone"

(* While none is gone, the file names the one process in a cycle, and who  *)
(* read an id read that of a process that had started, and so still lives. *)
FileNamesCycle == \A p \in Cyclers : runAt[p] = "cycle" <=> runLock = p
(* Who read the file read of a live one.                                   *)
ReadsLive ==
  \A p \in Cyclers :
    /\ runAt[p] # "stale"
    /\ runAt[p] = "read" => runAt[runSeen[p]] # "unborn"

(* The inductive invariant.                                                *)
RunLockInv == RunLockTypeOK /\ (NoneGone => FileNamesCycle /\ ReadsLive)

-----------------------------------------------------------------------------
(* It holds at first.                                                      *)
LEMMA RunLockInitIInv == RunLockInit => RunLockInv
<1> SUFFICES ASSUME RunLockInit PROVE RunLockInv
  OBVIOUS
<1> USE CyclersAssumption DEF RunLockInit
<1>1. RunLockTypeOK
  BY DEF RunLockTypeOK
<1>2. FileNamesCycle /\ ReadsLive
  BY DEF FileNamesCycle, ReadsLive
<1> QED
  BY <1>1, <1>2 DEF RunLockInv

(* A process that is gone stays gone: every step is one of a process that  *)
(* is not, and changes no other's place.                                   *)
LEMMA OnlyOneMoves ==
  ASSUME RunLockTypeOK, NEW p \in Cyclers, Start(p) \/ CycleStep(p) \/ Crash(p)
  PROVE  /\ runAt[p] # "gone"
         /\ \A q \in Cyclers : q # p => runAt'[q] = runAt[q]
         /\ NoneGone' => NoneGone
<1>1. /\ runAt[p] # "gone"
      /\ \A q \in Cyclers : q # p => runAt'[q] = runAt[q]
  BY DEF RunLockTypeOK, CycleStep, Start, Create, Exists, ReadOwner, Probe, TakeOver, Release, Crash, Done, Alive
<1>2. NoneGone' => NoneGone
  BY <1>1 DEF NoneGone
<1> QED
  BY <1>1, <1>2

(* Every step keeps it.                                                    *)
LEMMA RunLockNextKeeps == RunLockInv /\ [RunLockNext]_runVars => RunLockInv'
<1> SUFFICES ASSUME RunLockInv, [RunLockNext]_runVars PROVE RunLockInv'
  OBVIOUS
<1> USE CyclersAssumption
<1>1. RunLockTypeOK /\ (NoneGone => FileNamesCycle /\ ReadsLive)
  BY DEF RunLockInv
<1>2. CASE UNCHANGED runVars
  BY <1>1, <1>2 DEF RunLockInv, RunLockTypeOK, NoneGone, FileNamesCycle, ReadsLive, runVars
<1>3. CASE RunLockNext
  <2>1. PICK p \in Cyclers : Start(p) \/ CycleStep(p) \/ Crash(p)
    BY <1>3 DEF RunLockNext
  <2>2. /\ runAt[p] # "gone"
        /\ \A q \in Cyclers : q # p => runAt'[q] = runAt[q]
        /\ NoneGone' => NoneGone
    BY <1>1, <2>1, OnlyOneMoves
  <2>3. RunLockTypeOK'
    <3>1. CASE Start(p)
      BY <1>1, <3>1 DEF RunLockTypeOK, Start
    <3>2. CASE Create(p) \/ Exists(p) \/ TakeOver(p) \/ Release(p)
      BY <1>1, <3>2 DEF RunLockTypeOK, Create, Exists, TakeOver, Release, Done
    <3>3. CASE ReadOwner(p)
      BY <1>1, <3>3 DEF RunLockTypeOK, ReadOwner, Done
    <3>4. CASE Probe(p)
      BY <1>1, <3>4 DEF RunLockTypeOK, Probe, Done
    <3>5. CASE Crash(p)
      BY <1>1, <3>5 DEF RunLockTypeOK, Crash
    <3> QED
      BY <2>1, <3>1, <3>2, <3>3, <3>4, <3>5 DEF CycleStep
  <2>4. ASSUME NoneGone' PROVE FileNamesCycle' /\ ReadsLive'
    <3> DEFINE places == {"unborn", "waiting", "acquiring", "exists", "read", "stale", "cycle", "gone"}
    <3>1. /\ NoneGone /\ FileNamesCycle /\ ReadsLive
          /\ runAt \in [Cyclers -> places] /\ runAt' \in [Cyclers -> places]
          /\ runLock \in Cyclers \cup {NoOwner} /\ runSeen \in [Cyclers -> Cyclers \cup {NoOwner}]
          /\ runAt'[p] # "gone"
      BY <1>1, <2>2, <2>3, <2>4 DEF RunLockTypeOK, NoneGone
    <3>2. CASE Start(p)
      BY <3>1, <3>2 DEF FileNamesCycle, ReadsLive, Start
    <3>3. CASE Create(p)
      BY <3>1, <3>3 DEF FileNamesCycle, ReadsLive, Create
    <3>4. CASE Exists(p)
      BY <3>1, <3>4 DEF FileNamesCycle, ReadsLive, Exists
    <3>5. CASE ReadOwner(p)
      <4>1. CASE runLock = NoOwner
        <5>1. /\ runAt' = [runAt EXCEPT ![p] = "waiting"] /\ runAt[p] = "exists"
              /\ UNCHANGED <<runLock, runSeen>>
          BY <3>1, <3>5, <4>1 DEF ReadOwner, Done
        <5> QED
          BY <3>1, <5>1 DEF FileNamesCycle, ReadsLive
      <4>2. CASE runLock # NoOwner
        <5>1. /\ runAt' = [runAt EXCEPT ![p] = "read"] /\ runSeen' = [runSeen EXCEPT ![p] = runLock]
              /\ runAt[p] = "exists" /\ UNCHANGED runLock
          BY <3>5, <4>2 DEF ReadOwner
        <5>2. runLock \in Cyclers /\ runAt[runLock] = "cycle"
          BY <3>1, <4>2 DEF FileNamesCycle
        <5>3. FileNamesCycle'
          BY <3>1, <5>1 DEF FileNamesCycle
        <5>4. ReadsLive'
          BY <3>1, <5>1, <5>2 DEF ReadsLive
        <5> QED
          BY <5>3, <5>4
      <4> QED
        BY <4>1, <4>2
    <3>6. CASE Probe(p)
      <4>1. Alive(runSeen[p])
        BY <1>1, <3>1, <3>6 DEF RunLockTypeOK, Probe, Alive, ReadsLive, NoneGone
      <4>2. runAt' = Done(p) /\ runAt[p] = "read" /\ UNCHANGED <<runLock, runSeen>>
        BY <3>6, <4>1 DEF Probe
      <4> QED
        BY <3>1, <4>2 DEF FileNamesCycle, ReadsLive, Done
    <3>7. CASE TakeOver(p)
      BY <3>1, <3>7 DEF ReadsLive, TakeOver
    <3>8. CASE Release(p)
      BY <3>1, <3>8 DEF FileNamesCycle, ReadsLive, Release, Done
    <3>9. CASE Crash(p)
      BY <3>1, <3>9 DEF Crash
    <3> QED
      BY <2>1, <3>2, <3>3, <3>4, <3>5, <3>6, <3>7, <3>8, <3>9 DEF CycleStep
  <2> QED
    BY <2>3, <2>4 DEF RunLockInv
<1> QED
  BY <1>2, <1>3

(* Every process is somewhere in acquireLock or its cycle, and whoever     *)
(* goes on after reading the lock file read the id of some process.        *)
THEOREM RunLockTyped == RunLockSpec => []RunLockTypeOK
<1>1. RunLockInv => RunLockTypeOK
  BY DEF RunLockInv
<1> QED
  BY <1>1, RunLockInitIInv, RunLockNextKeeps, PTL DEF RunLockSpec

(* acquireLock keeps any number of cycles of a token apart for as long as  *)
(* no process that may have held the lock file is gone.                    *)
THEOREM CyclesApart == RunLockSpec => []OneCycleWhileAllLive
<1>1. RunLockInv => OneCycleWhileAllLive
  <2> SUFFICES ASSUME RunLockInv, NoneGone PROVE OneCycleAtATime
    BY DEF OneCycleWhileAllLive, NoneGone
  <2> DEFINE inside == {p \in Cyclers : runAt[p] = "cycle"}
  <2>1. inside = {} \/ inside = {runLock}
    BY DEF RunLockInv, FileNamesCycle
  <2>2. Cardinality(inside) <= 1
    <3>1. CASE inside = {}
      BY <3>1, FS_EmptySet
    <3>2. CASE inside = {runLock}
      <4>1. Cardinality({runLock}) = 1
        BY FS_Singleton
      <4> HIDE DEF inside
      <4> QED
        BY <3>2, <4>1
    <3> QED
      BY <2>1, <3>1, <3>2
  <2> QED
    BY <2>2 DEF OneCycleAtATime
<1> QED
  BY <1>1, RunLockInitIInv, RunLockNextKeeps, PTL DEF RunLockSpec

-----------------------------------------------------------------------------
(* FileLock: no process's change to a shared file is lost. Only the holder *)
(* is inside; only the breaker's creator removes; and what a remover is    *)
(* about to remove is still the lock of a dead process, since nobody else  *)
(* can remove it meanwhile and nobody can link a new one before it is gone.*)

(* Where a process is between taking the lock and giving it back.          *)
Inside == {"inside", "holding", "leaving", "unlocking"}

(* Only the holder is inside.                                              *)
OnlyHolderInside == \A p \in Procs : pc[p] \in Inside => lock = p
(* Only the breaker's creator removes.                                     *)
OneRemover == \A p \in Procs : pc[p] \in {"rechecking", "removing", "unbreaking"} => breaker = p
(* It removes a dead process's lock.                                       *)
RemovesTheDead == \A p \in Procs : pc[p] = "removing" => lock \in Procs /\ pc[lock] = "dead"
(* What the holder read is the file.                                       *)
ReadIsCurrent == \A p \in Procs : pc[p] = "holding" => mem[p] = file

(* The inductive invariant.                                                *)
LockInv ==
  /\ FileLockTypeOK
  /\ OnlyHolderInside
  /\ OneRemover
  /\ RemovesTheDead
  /\ ReadIsCurrent
  /\ NoChangeLost

(* It holds at first.                                                      *)
LEMMA LockInvInit == FileLockInit => LockInv
<1> SUFFICES ASSUME FileLockInit PROVE LockInv
    OBVIOUS
<1> QED
    BY DEF FileLockInit, LockInv, FileLockTypeOK, Steps, OnlyHolderInside, OneRemover, RemovesTheDead,
           ReadIsCurrent, NoChangeLost, Inside

(* Every step keeps it.                                                    *)
LEMMA LockInvStep == LockInv /\ [FileLockNext]_fileLockVars => LockInv'
<1> SUFFICES ASSUME LockInv, [FileLockNext]_fileLockVars PROVE LockInv'
    OBVIOUS
<1> USE NobodyIsNoProc DEF LockInv, FileLockTypeOK, Steps, OnlyHolderInside, OneRemover, RemovesTheDead,
        ReadIsCurrent, NoChangeLost, Inside, Goto
<1>1. ASSUME NEW p \in Procs, Begin(p) PROVE LockInv'
      BY <1>1 DEF Begin
<1>2. ASSUME NEW p \in Procs, Link(p) PROVE LockInv'
  <2>1. CASE lock = NoProc
        BY <1>2, <2>1 DEF Link
  <2>2. CASE lock # NoProc
        BY <1>2, <2>2 DEF Link
  <2> QED BY <2>1, <2>2
<1>3. ASSUME NEW p \in Procs, Judge(p) PROVE LockInv'
      BY <1>3 DEF Judge
<1>4. ASSUME NEW p \in Procs, TakeBreaker(p) PROVE LockInv'
  <2>1. CASE breaker = NoProc
        BY <1>4, <2>1 DEF TakeBreaker
  <2>2. CASE breaker # NoProc
        BY <1>4, <2>2 DEF TakeBreaker
  <2> QED BY <2>1, <2>2
<1>5. ASSUME NEW p \in Procs, Recheck(p) PROVE LockInv'
      BY <1>5 DEF Recheck, HolderIsGone
<1>6. ASSUME NEW p \in Procs, Remove(p) PROVE LockInv'
  <2>1. \A q \in Procs : pc[q] \notin Inside
        BY <1>6 DEF Remove
  <2>2. \A q \in Procs : q # p => pc[q] # "removing"
        BY <1>6 DEF Remove
  <2> QED BY <1>6, <2>1, <2>2 DEF Remove
<1>7. ASSUME NEW p \in Procs, DropBreaker(p) PROVE LockInv'
      BY <1>7 DEF DropBreaker
<1>8. ASSUME NEW p \in Procs, ReadFile(p) PROVE LockInv'
      BY <1>8 DEF ReadFile
<1>9. ASSUME NEW p \in Procs, WriteFile(p) PROVE LockInv'
  <2>1. lock = p /\ mem[p] = file
        BY <1>9 DEF WriteFile
  <2>2. \A q \in Procs : q # p => pc[q] # "holding"
        BY <2>1
  <2> QED BY <1>9, <2>1, <2>2 DEF WriteFile
<1>10. ASSUME NEW p \in Procs, Leave(p) PROVE LockInv'
       BY <1>10 DEF Leave
<1>11. ASSUME NEW p \in Procs, Unlock(p) PROVE LockInv'
  <2>1. lock = p
        BY <1>11 DEF Unlock
  <2>2. \A q \in Procs : q # p => pc[q] \notin Inside \cup {"removing"}
        BY <1>11, <2>1 DEF Unlock
  <2> QED BY <1>11, <2>1, <2>2 DEF Unlock
<1>12. ASSUME NEW p \in Procs, Die(p) PROVE LockInv'
       BY <1>12 DEF Die
<1>13. CASE PersonClears
       BY <1>13 DEF PersonClears, Stopped
<1>14. CASE UNCHANGED fileLockVars
       BY <1>14 DEF fileLockVars
<1> QED
    BY <1>1, <1>2, <1>3, <1>4, <1>5, <1>6, <1>7, <1>8, <1>9, <1>10, <1>11, <1>12, <1>13, <1>14
    DEF FileLockNext, FileLockStep

(* Whatever any process wrote to the shared file stays in it: a process     *)
(* inside the lock is alone there, so what it read is current when it       *)
(* writes (withFileLock, src/src/arb-guard.ts).                             *)
THEOREM NoChangeIsLost == FileLockSpec => []NoChangeLost
<1>1. LockInv => NoChangeLost
      BY DEF LockInv
<1> QED
    BY <1>1, LockInvInit, LockInvStep, PTL DEF FileLockSpec

(* Two processes are never inside the lock at once *)
THEOREM OneInside == FileLockSpec => [](\A p, q \in Procs : pc[p] \in Inside /\ pc[q] \in Inside => p = q)
<1>1. LockInv => \A p, q \in Procs : pc[p] \in Inside /\ pc[q] \in Inside => p = q
      BY DEF LockInv, OnlyHolderInside
<1> QED
    BY <1>1, LockInvInit, LockInvStep, PTL DEF FileLockSpec
(* withFileLock: whoever replaces a shared file adds one change to what it *)
(* holds at that moment, so Trades may take a change as one atomic step.   *)
THEOREM ChangesAreAtomic == FileLockSpec => ChangesAtomic
<1>1. LockInv /\ [FileLockNext]_fileLockVars =>
        [/\ \A p \in Procs : pc[p] = "holding" /\ pc'[p] = "leaving" => mem[p] = file
         /\ file' # file => \E p \in Procs \ file : pc[p] = "holding" /\ lock = p /\ file' = file \cup {p}]_fileLockVars
  <2> SUFFICES ASSUME LockInv, [FileLockNext]_fileLockVars
               PROVE  /\ \A p \in Procs : pc[p] = "holding" /\ pc'[p] = "leaving" => mem[p] = file
                      /\ file' # file => \E p \in Procs \ file : pc[p] = "holding" /\ lock = p /\ file' = file \cup {p}
    OBVIOUS
  <2>1. \A p \in Procs : pc[p] = "holding" => mem[p] = file
    BY DEF LockInv, ReadIsCurrent
  <2>2. ASSUME file' # file
        PROVE  \E p \in Procs \ file : pc[p] = "holding" /\ lock = p /\ file' = file \cup {p}
    <3>1. PICK p \in Procs : WriteFile(p)
      BY <2>2 DEF FileLockNext, FileLockStep, Begin, Link, Judge, TakeBreaker, Recheck, Remove, DropBreaker,
         ReadFile, Leave, Unlock, Die, PersonClears, fileLockVars
    <3>2. pc[p] = "holding" /\ file' = mem[p] \cup {p}
      BY <2>2, <3>1 DEF WriteFile
    <3>3. file' = file \cup {p} /\ p \notin file
      BY <2>1, <2>2, <3>2
    <3>4. lock = p
      BY <3>2 DEF LockInv, OnlyHolderInside, Inside
    <3> QED
      BY <3>2, <3>3, <3>4
  <2> QED
    BY <2>1, <2>2
<1> QED
  BY <1>1, LockInvInit, LockInvStep, PTL DEF FileLockSpec, ChangesAtomic
=============================================================================
