--------------------------- MODULE DistributorLock ---------------------------
(***************************************************************************)
(* The lock file that keeps two distribution cycles of one token apart     *)
(* (state.ts acquireLock, distribute.ts main): processes that loop take it *)
(* for every cycle, "Distribute now" starts processes that run one cycle   *)
(* and exit.  The file holds its owner's process id; a file whose owner is *)
(* gone is taken over.  Every file-system call is a step of its own.       *)
(***************************************************************************)
EXTENDS Integers, FiniteSets

CONSTANTS
    Loops,              \* processes started with --loop
    OneShots,           \* processes that run one cycle
    NoOwner,            \* no lock file
    MaxCrashes

Cyclers == Loops \cup OneShots

ASSUME CyclersAssumption == NoOwner \notin Cyclers /\ Loops \cap OneShots = {} /\ MaxCrashes \in Nat

VARIABLES
    runLock,            \* the id in the lock file, or NoOwner
    runAt,              \* where each process is
    runSeen,            \* the id each process read from the file
    crashes

runVars == <<runLock, runAt, runSeen, crashes>>

Alive(p) == runAt[p] \notin {"unborn", "gone"}
(* A loop waits for its next cycle, a one-shot exits.                      *)
Done(p) == [runAt EXCEPT ![p] = IF p \in Loops THEN "waiting" ELSE "gone"]

RunLockInit ==
    /\ runLock = NoOwner
    /\ runAt = [p \in Cyclers |-> IF p \in Loops THEN "waiting" ELSE "unborn"]
    /\ runSeen = [p \in Cyclers |-> NoOwner]
    /\ crashes = 0

Start(p) ==
    /\ runAt[p] \in {"waiting", "unborn"}
    /\ runAt' = [runAt EXCEPT ![p] = "acquiring"]
    /\ UNCHANGED <<runLock, runSeen, crashes>>

(* Mutation: the file written whether or not it exists.                    *)
MutCreate(p) ==
    /\ runAt[p] = "acquiring"
    /\ runLock' = p
    /\ runAt' = [runAt EXCEPT ![p] = "cycle"]
    /\ UNCHANGED <<runSeen, crashes>>

(* writeFileSync with flag wx.                                             *)
Create(p) ==
    /\ runAt[p] = "acquiring"
    /\ runLock = NoOwner
    /\ runLock' = p
    /\ runAt' = [runAt EXCEPT ![p] = "cycle"]
    /\ UNCHANGED <<runSeen, crashes>>

Exists(p) ==
    /\ runAt[p] = "acquiring"
    /\ runLock # NoOwner
    /\ runAt' = [runAt EXCEPT ![p] = "exists"]
    /\ UNCHANGED <<runLock, runSeen, crashes>>

(* A file gone in the meantime throws: this cycle is skipped.              *)
ReadOwner(p) ==
    /\ runAt[p] = "exists"
    /\ IF runLock = NoOwner THEN runAt' = Done(p) /\ UNCHANGED runSeen
       ELSE runAt' = [runAt EXCEPT ![p] = "read"] /\ runSeen' = [runSeen EXCEPT ![p] = runLock]
    /\ UNCHANGED <<runLock, crashes>>

(* process.kill(pid, 0).  Mutation: any owner taken for alive.             *)
MutProbe(p) ==
    /\ runAt[p] = "read"
    /\ runAt' = Done(p)
    /\ UNCHANGED <<runLock, runSeen, crashes>>

Probe(p) ==
    /\ runAt[p] = "read"
    /\ runAt' = IF Alive(runSeen[p]) THEN Done(p) ELSE [runAt EXCEPT ![p] = "stale"]
    /\ UNCHANGED <<runLock, runSeen, crashes>>

TakeOver(p) ==
    /\ runAt[p] = "stale"
    /\ runLock' = p
    /\ runAt' = [runAt EXCEPT ![p] = "cycle"]
    /\ UNCHANGED <<runSeen, crashes>>

(* release: the file is removed, whoever it names.                         *)
Release(p) ==
    /\ runAt[p] = "cycle"
    /\ runLock' = NoOwner
    /\ runAt' = Done(p)
    /\ UNCHANGED <<runSeen, crashes>>

Crash(p) ==
    /\ Alive(p)
    /\ crashes < MaxCrashes
    /\ crashes' = crashes + 1
    /\ runAt' = [runAt EXCEPT ![p] = "gone"]
    /\ UNCHANGED <<runLock, runSeen>>

CycleStep(p) ==
    \/ Create(p) \/ Exists(p) \/ ReadOwner(p) \/ Probe(p) \/ TakeOver(p) \/ Release(p)

RunLockNext == \E p \in Cyclers : Start(p) \/ CycleStep(p) \/ Crash(p)

RunLockSpec == RunLockInit /\ [][RunLockNext]_runVars

(* A process runs on unless it crashes, and a loop's timer fires again.    *)
RunLockFair ==
    /\ \A p \in Cyclers : WF_runVars(CycleStep(p))
    /\ \A p \in Loops : WF_runVars(Start(p))
-----------------------------------------------------------------------------
RunLockTypeOK ==
    /\ runLock \in Cyclers \cup {NoOwner}
    /\ runAt \in [Cyclers -> {"unborn", "waiting", "acquiring", "exists", "read", "stale",
                         "cycle", "gone"}]
    /\ runSeen \in [Cyclers -> Cyclers \cup {NoOwner}]
    /\ \A p \in Cyclers : runAt[p] \in {"read", "stale"} => runSeen[p] \in Cyclers
    /\ crashes \in 0..MaxCrashes

(* acquireLock, "so a cron run can't overlap a slow previous run": two     *)
(* cycles of a token never overlap.                                        *)
OneCycleAtATime == Cardinality({p \in Cyclers : runAt[p] = "cycle"}) <= 1

(* acquireLock: they do not as long as no process that ran is gone, so     *)
(* that every id a run may have read is of a process that lives.           *)
OneCycleWhileAllLive ==
    (\A p \in Cyclers : runAt[p] # "gone") => OneCycleAtATime

(* acquireLock: a lock whose owner crashed does not stop the token for     *)
(* good: while a loop is left, one takes it over.                          *)
StaleLockTaken == \A p \in Cyclers : (runLock = p /\ runAt[p] = "gone") ~> runLock # p
=============================================================================
