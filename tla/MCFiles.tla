------------------------------ MODULE MCFiles ------------------------------
(***************************************************************************)
(* Small instances of what processes share through files: the run lock of  *)
(* a token, the lock around a trading state file, the files of a launch.   *)
(* They share nothing, so each behaviour has one of them at work; they are *)
(* together for their liveness, under the fairness each module states.     *)
(***************************************************************************)
EXTENDS DistributorLock, FileLock, LaunchJournal

CONSTANTS loop1, loop2, click1, click2, bot1, bot2, bot3, nobody, step1

MCLoops == {loop1, loop2}
MCClicks == {click1, click2}
MCProcs == {bot1, bot2, bot3}
MCMachine == [p \in MCProcs |-> 1]
MCSends == {step1}
MCFiles0 == {Key, Record}

filesVars == <<runVars, fileLockVars, landingVars, launchVars>>

(* Where nothing happens any more                                          *)
RunsOver ==
  /\ runLock = NoOwner /\ crashes = MaxCrashes
  /\ runAt = [p \in Cyclers |-> "gone"] /\ runSeen = [p \in Cyclers |-> NoOwner]
ChangesOver ==
  /\ lock = NoProc /\ breaker = NoProc /\ file = {} /\ committed = {}
  /\ pc = [p \in Procs |-> "done"] /\ mem = [p \in Procs |-> {}]
LaunchOver ==
  /\ height = MaxHeight /\ final = MaxHeight /\ sent = {}
  /\ lastValid = [s \in Sends |-> Unsigned] /\ outcome = [s \in Sends |-> "none"] /\ at = [s \in Sends |-> 0]
  /\ phase = "failed" /\ journaled = {} /\ saved = {} /\ waiting = FALSE /\ registered = FALSE
  /\ age = 2 /\ up = TRUE /\ faults = MaxFaults /\ torn = FALSE

Init ==
  \/ RunLockInit /\ ChangesOver /\ LaunchOver
  \/ RunsOver /\ FileLockInit /\ LaunchOver
  \/ RunsOver /\ ChangesOver /\ LaunchInit

Next ==
  \/ RunLockNext /\ UNCHANGED <<fileLockVars, landingVars, launchVars>>
  \/ FileLockNext /\ UNCHANGED <<runVars, landingVars, launchVars>>
  \/ LaunchNext /\ UNCHANGED <<runVars, fileLockVars>>

Spec == Init /\ [][Next]_filesVars /\ RunLockFair /\ FileLockFair /\ LaunchFair

(* Both locks come free (acquireLock, withFileLock): no owner that died    *)
(* keeps a token's cycles, or a bot's trading state, locked for good.      *)
LocksComeFree == StaleLockTaken /\ DeadLockCleared
=============================================================================
