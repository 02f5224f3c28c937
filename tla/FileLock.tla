------------------------------ MODULE FileLock ------------------------------
(***************************************************************************)
(* The lock every trading process on a machine takes around a change to a  *)
(* shared state file: withFileLock (src/src/arb-guard.ts).  The lock file   *)
(* is linked into place complete, so it always names its holder; only a    *)
(* holder that is certainly gone loses it, one remover at a time behind    *)
(* the breaker file.  Each file-system call is a step of its own and a     *)
(* process may die between any two.                                        *)
(*                                                                         *)
(* A member of Procs is one run of withFileLock; the change it makes to    *)
(* the shared file is to add itself to what it read.                       *)
(***************************************************************************)
EXTENDS FiniteSets

CONSTANTS Procs, Machine, NoProc

ASSUME NobodyIsNoProc == NoProc \notin Procs

VARIABLES
  pc,        \* where each process is
  lock,      \* whom <file>.lock names, NoProc when there is no file
  breaker,   \* whom <file>.lock.break names
  file,      \* what the shared file says: the processes whose change is in it
  mem,       \* what each process read of it
  committed  \* history: the processes that wrote the file

fileLockVars == <<pc, lock, breaker, file, mem, committed>>

Steps == {"idle", "trying", "reading", "breaking", "rechecking", "removing", "unbreaking",
          "inside", "holding", "leaving", "unlocking", "done", "refused", "dead"}

FileLockTypeOK ==
  /\ pc \in [Procs -> Steps]
  /\ lock \in Procs \cup {NoProc}
  /\ breaker \in Procs \cup {NoProc}
  /\ file \subseteq Procs
  /\ mem \in [Procs -> SUBSET Procs]
  /\ committed \subseteq Procs

FileLockInit ==
  /\ pc = [p \in Procs |-> "idle"]
  /\ lock = NoProc
  /\ breaker = NoProc
  /\ file = {}
  /\ mem = [p \in Procs |-> {}]
  /\ committed = {}

Goto(p, step) == pc' = [pc EXCEPT ![p] = step]

(* Mutation: A crash's lock is never judged *)
MutNeverGone(p, holder) == FALSE

(* Is this holder certainly gone?  What another machine or pid namespace   *)
(* holds cannot be judged, and a lock that names nobody is left alone.     *)
HolderIsGone(p, holder) ==
  /\ holder # NoProc
  /\ Machine[holder] = Machine[p]
  /\ pc[holder] = "dead"

Begin(p) ==
  /\ pc[p] = "idle"
  /\ Goto(p, "trying")
  /\ UNCHANGED <<lock, breaker, file, mem, committed>>

(* link() makes the lock, complete, or fails because it is there *)
Link(p) ==
  /\ pc[p] = "trying"
  /\ \/ lock = NoProc /\ lock' = p /\ Goto(p, "inside")
     \/ lock # NoProc /\ lock' = lock /\ Goto(p, "reading")
  /\ UNCHANGED <<breaker, file, mem, committed>>

Judge(p) ==
  /\ pc[p] = "reading"
  /\ \/ HolderIsGone(p, lock) /\ Goto(p, "breaking")
     \/ ~HolderIsGone(p, lock) /\ Goto(p, "trying")
     \/ ~HolderIsGone(p, lock) /\ Goto(p, "refused")   \* waitMs passed: a refusal to send
  /\ UNCHANGED <<lock, breaker, file, mem, committed>>

(* Mutation: The breaker is not exclusive: an existing one is written over *)
MutTakeBreakerShared(p) ==
  /\ pc[p] = "breaking"
  /\ breaker' = p
  /\ Goto(p, "rechecking")
  /\ UNCHANGED <<lock, file, mem, committed>>

(* Create the breaker, exclusively; another remover's is left to it, and   *)
(* a process whose time is up gives up after this one attempt.             *)
TakeBreaker(p) ==
  /\ pc[p] = "breaking"
  /\ \/ breaker = NoProc /\ breaker' = p /\ Goto(p, "rechecking")
     \/ breaker # NoProc /\ breaker' = breaker /\ Goto(p, "trying")
     \/ breaker # NoProc /\ breaker' = breaker /\ Goto(p, "refused")
  /\ UNCHANGED <<lock, file, mem, committed>>

(* Behind the breaker, the holder is read and judged again *)
Recheck(p) ==
  /\ pc[p] = "rechecking"
  /\ \/ HolderIsGone(p, lock) /\ Goto(p, "removing")
     \/ ~HolderIsGone(p, lock) /\ Goto(p, "unbreaking")
  /\ UNCHANGED <<lock, breaker, file, mem, committed>>

(* unlink() removes whatever is at the lock's path *)
Remove(p) ==
  /\ pc[p] = "removing"
  /\ lock' = NoProc
  /\ Goto(p, "unbreaking")
  /\ UNCHANGED <<breaker, file, mem, committed>>

DropBreaker(p) ==
  /\ pc[p] = "unbreaking"
  /\ breaker' = NoProc
  /\ Goto(p, "trying") \/ Goto(p, "refused")
  /\ UNCHANGED <<lock, file, mem, committed>>

(* The change: read the file, then replace it with what was read plus one; *)
(* a change that decides on none, or throws, just leaves.                  *)
ReadFile(p) ==
  /\ pc[p] = "inside"
  /\ mem' = [mem EXCEPT ![p] = file]
  /\ Goto(p, "holding")
  /\ UNCHANGED <<lock, breaker, file, committed>>

WriteFile(p) ==
  /\ pc[p] = "holding"
  /\ \/ /\ file' = mem[p] \cup {p}
        /\ committed' = committed \cup {p}
     \/ UNCHANGED <<file, committed>>
  /\ Goto(p, "leaving")
  /\ UNCHANGED <<lock, breaker, mem>>

(* stillHeld, then rm *)
Leave(p) ==
  /\ pc[p] = "leaving"
  /\ Goto(p, IF lock = p THEN "unlocking" ELSE "done")
  /\ UNCHANGED <<lock, breaker, file, mem, committed>>

Unlock(p) ==
  /\ pc[p] = "unlocking"
  /\ lock' = NoProc
  /\ Goto(p, "done")
  /\ UNCHANGED <<breaker, file, mem, committed>>

Stopped == {"done", "refused", "dead"}

Die(p) ==
  /\ pc[p] \notin Stopped \cup {"idle"}
  /\ Goto(p, "dead")
  /\ UNCHANGED <<lock, breaker, file, mem, committed>>

(* A person told by a refusal deletes what is left when nothing is running *)
PersonClears ==
  /\ \A p \in Procs : pc[p] \in Stopped \cup {"idle"}
  /\ \/ lock # NoProc
     \/ breaker # NoProc
  /\ lock' = NoProc
  /\ breaker' = NoProc
  /\ UNCHANGED <<pc, file, mem, committed>>

FileLockStep(p) ==
  \/ Begin(p) \/ Link(p) \/ Judge(p) \/ TakeBreaker(p) \/ Recheck(p) \/ Remove(p)
  \/ DropBreaker(p) \/ ReadFile(p) \/ WriteFile(p) \/ Leave(p) \/ Unlock(p)

FileLockNext ==
  \/ \E p \in Procs : FileLockStep(p) \/ Die(p)
  \/ PersonClears

FileLockSpec == FileLockInit /\ [][FileLockNext]_fileLockVars

(* A process that came for the lock keeps going: its loop is synchronous   *)
FileLockFair == \A p \in Procs : WF_fileLockVars(pc[p] # "idle" /\ FileLockStep(p))

(***************************************************************************)
(* Properties                                                              *)
(***************************************************************************)

(* Nobody's change is written over: whatever any process wrote is still in *)
(* the shared file, however processes died and took each other's locks.    *)
NoChangeLost == file = committed

(* withFileLock: a change is one atomic step.  Whoever replaces the file   *)
(* has read what it holds at that moment, and only that process's change   *)
(* is added: what was decided from the file is still true of it.  This is  *)
(* why Trades may take every change of a trading state file as one step.   *)
ChangesAtomic ==
  [][/\ \A p \in Procs : pc[p] = "holding" /\ pc'[p] = "leaving" => mem[p] = file
     /\ file' # file => \E p \in Procs \ file : pc[p] = "holding" /\ lock = p /\ file' = file \cup {p}]_fileLockVars

(* A lock whose holder died is taken away by whoever comes for it, unless  *)
(* a remover died too and stranded its breaker, no process that can judge  *)
(* the holder is left, or a person has to.                                 *)
DeadLockCleared ==
  \A p \in Procs :
    (lock = p /\ pc[p] = "dead")
      ~> \/ lock # p
         \/ breaker # NoProc /\ pc[breaker] = "dead"
         \/ \A q \in Procs : pc[q] \in Stopped \cup {"idle"} \/ Machine[q] # Machine[p]
=============================================================================
