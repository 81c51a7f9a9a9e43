----------------------------- MODULE WriterLock -----------------------------
(***************************************************************************)
(* The lock of one call's log: acquireLock, lockHeartbeat and releaseLock  *)
(* (src/core/log/writer.ts).  The same functions hold the app's single     *)
(* instance and the edits of the API keys.                                 *)
(*                                                                         *)
(* The contenders are process starts: two starts may have the same pid,    *)
(* one after the other (a pid the system gave again) or in two containers  *)
(* on one volume, but never the same id, so a start stands for its id.     *)
(* Each action is one system call, for nothing but the file system is      *)
(* shared.  A lock without an id, which builds before the id left behind,  *)
(* is not modelled.                                                        *)
(***************************************************************************)
EXTENDS Naturals, FiniteSets

CONSTANTS
  Starts,     \* process starts that open the log
  NoStart,    \* no process start: what a missing lock names
  Worlds,     \* the worlds they may find themselves in
  MaxAlive,   \* bound: starts alive at once
  DieMidway   \* whether one may die after it moved a lock aside, before it looked

ASSUME NoStartAssumption == NoStart \notin Starts

(* A world: the starts there are and their pids, whether they are containers *)
(* that cannot see each other's pids (server mode), and whether a start that *)
(* closed the log may open it again.                                         *)
ASSUME WorldsAssumption ==
  \A w \in Worlds : /\ w.pids \in [DOMAIN w.pids -> Nat] /\ DOMAIN w.pids \subseteq Starts
                    /\ {w.server, w.again} \subseteq BOOLEAN
ASSUME DieAssumption == DieMidway \in BOOLEAN
ASSUME BoundAssumption == MaxAlive \in Nat

(* LOCK_STALE_MS in heartbeats (LOCK_HEARTBEAT_MS).                          *)
StaleAge == 3

NoLock == [owner |-> NoStart, age |-> 0]

VARIABLES
  lock,       \* the file at lockPath: the start it names and the age of its mtime
  aside,      \* the file each start has moved aside
  pc,         \* what each start does next
  found,      \* the holder each start read and judges
  world       \* the world, which never changes

vars == <<lock, aside, pc, found, world>>

PidOf == world.pids
ServerMode == world.server

Steps == {"unborn", "idle", "read", "judge", "age", "move", "verify", "create", "holding",
          "unlink", "done", "dead"}

Locks == [owner : Starts, age : 0..StaleAge] \cup {NoLock}

(* A start that is about to look at what it moved has moved something.       *)
TypeOK ==
  /\ lock \in Locks
  /\ aside \in [Starts -> Locks]
  /\ pc \in [Starts -> Steps]
  /\ found \in [Starts -> Starts \cup {NoStart}]
  /\ world \in Worlds
  /\ \A p \in Starts : pc[p] = "verify" => aside[p] # NoLock

Init ==
  /\ lock = NoLock
  /\ aside = [p \in Starts |-> NoLock]
  /\ pc = [p \in Starts |-> "unborn"]
  /\ found = [p \in Starts |-> NoStart]
  /\ world \in Worlds

(* What a start does once it closed the log.                                 *)
Closed == IF world.again THEN "idle" ELSE "done"

Alive(p) == pc[p] \notin {"unborn", "dead"}

Goto(p, step) == pc' = [pc EXCEPT ![p] = step]

-----------------------------------------------------------------------------
(* A process starts; one pid names one live process of a namespace.          *)
Start(p) ==
  /\ pc[p] = "unborn" /\ p \in DOMAIN PidOf
  /\ Cardinality({q \in Starts : Alive(q)}) < MaxAlive
  /\ ServerMode \/ \A q \in Starts : Alive(q) => PidOf[q] # PidOf[p]
  /\ Goto(p, "idle")
  /\ UNCHANGED <<lock, aside, found>>

(* tryCreateLock: the link fails when the lock exists.                       *)
Link(p, otherwise) ==
  /\ lock' = IF lock = NoLock THEN [owner |-> p, age |-> 0] ELSE lock
  /\ Goto(p, IF lock = NoLock THEN "holding" ELSE otherwise)
  /\ UNCHANGED <<aside, found>>

TryCreate(p) == pc[p] = "idle" /\ Link(p, "read")

(* No lock to read is a holder nobody can be: it goes on to the move.        *)
ReadHolder(p) ==
  /\ pc[p] = "read"
  /\ found' = [found EXCEPT ![p] = lock.owner]
  /\ Goto(p, IF lock = NoLock THEN "move" ELSE "judge")
  /\ UNCHANGED <<lock, aside>>

(* isAlive, asked for any pid but this start's own.                          *)
SeenAlive(pid) == ~ServerMode /\ \E q \in Starts : Alive(q) /\ PidOf[q] = pid

(* LockError is a step back to "idle": the caller may try again.             *)
Judge(p) ==
  LET pid == PidOf[found[p]] IN
  /\ pc[p] = "judge"
  /\ Goto(p, IF found[p] = p \/ (pid # PidOf[p] /\ SeenAlive(pid)) THEN "idle"
             ELSE IF pid = PidOf[p] \/ ServerMode THEN "age"
             ELSE "move")
  /\ UNCHANGED <<lock, aside, found>>

(* The age is that of the lock as it is now, and of no lock when it is gone. *)
IsStale == lock = NoLock \/ lock.age >= StaleAge

CheckAge(p) ==
  /\ pc[p] = "age"
  /\ Goto(p, IF IsStale THEN "move" ELSE "idle")
  /\ UNCHANGED <<lock, aside, found>>

(* Mutant: a lock that went away meanwhile is taken for one that was moved.  *)
AfterMoveAlways == "verify"

AfterMove == IF lock = NoLock THEN "create" ELSE "verify"

MoveAside(p) ==
  /\ pc[p] = "move"
  /\ aside' = [aside EXCEPT ![p] = lock]
  /\ lock' = NoLock
  /\ Goto(p, AfterMove)
  /\ UNCHANGED found

(* Mutant: whatever was moved is taken for the stale lock.                   *)
MovedAnything(p) == TRUE

MovedTheStale(p) == aside[p].owner = found[p]

(* Mutant: another writer's lock is not put back.                            *)
PutNothingBack(p) == lock

(* If a third writer already made a new one, that one stays.                 *)
PutBack(p) == IF lock = NoLock THEN aside[p] ELSE lock

Verify(p) ==
  /\ pc[p] = "verify"
  /\ lock' = IF MovedTheStale(p) THEN lock ELSE PutBack(p)
  /\ aside' = [aside EXCEPT ![p] = NoLock]
  /\ Goto(p, IF MovedTheStale(p) THEN "create" ELSE "idle")
  /\ UNCHANGED found

CreateAfter(p) == pc[p] = "create" /\ Link(p, "idle")

-----------------------------------------------------------------------------
(* The holder's timer touches the lock while it still names it.              *)
Beat(p) ==
  /\ pc[p] = "holding"
  /\ lock.owner = p
  /\ lock' = [lock EXCEPT !.age = 0]
  /\ UNCHANGED <<aside, pc, found>>

(* Ten seconds pass.  A holder's beat may come one period late, no more, and *)
(* so may the unlink of one that is closing: both calls are synchronous.     *)
Tick ==
  /\ lock # NoLock /\ lock.age < StaleAge
  /\ lock.age + 1 < StaleAge \/ pc[lock.owner] \notin {"holding", "unlink"}
  /\ lock' = [lock EXCEPT !.age = lock.age + 1]
  /\ UNCHANGED <<aside, pc, found>>

(* close: the log is closed and the heartbeat stopped, then the lock is read *)
(* and, if it names this start, unlinked.                                    *)
Close(p) ==
  /\ pc[p] = "holding"
  /\ Goto(p, IF lock.owner = p THEN "unlink" ELSE Closed)
  /\ UNCHANGED <<lock, aside, found>>

Unlink(p) ==
  /\ pc[p] = "unlink"
  /\ lock' = NoLock
  /\ Goto(p, Closed)
  /\ UNCHANGED <<aside, found>>

(* A process dies between two of its calls; its files stay.                  *)
Die(p) ==
  /\ Alive(p)
  /\ pc[p] = "verify" => DieMidway
  /\ Goto(p, "dead")
  /\ UNCHANGED <<lock, aside, found>>

-----------------------------------------------------------------------------
Acquire(p) ==
  \/ TryCreate(p) \/ ReadHolder(p) \/ Judge(p) \/ CheckAge(p)
  \/ MoveAside(p) \/ Verify(p) \/ CreateAfter(p)

Next ==
  /\ \/ Tick
     \/ \E p \in Starts : Start(p) \/ Acquire(p) \/ Beat(p) \/ Close(p) \/ Unlink(p) \/ Die(p)
  /\ UNCHANGED world

Spec == Init /\ [][Next]_vars

-----------------------------------------------------------------------------
(* "A lock left by a dead process is taken over, by one writer only"         *)
(* (writer.ts:5-6): no two live processes write the log at once, whatever    *)
(* dies and whoever else judges the same lock.                               *)
MutualExclusion == \A p, q \in Starts : pc[p] = "holding" /\ pc[q] = "holding" => p = q

(* A writer's lock may be moved aside by one who judged an earlier lock, but *)
(* it is not lost: it is in its place or where it was moved (writer.ts:229). *)
HolderHasLock ==
  \A p \in Starts : pc[p] = "holding" =>
    lock.owner = p \/ \E q \in Starts : aside[q].owner = p
-----------------------------------------------------------------------------
(* The inductive invariant behind them.                                      *)

(* Where the lock excludes: two starts alive at once, none that dies between *)
(* moving a lock and looking at it, and in containers none that opens again  *)
(* the log it closed.                                                        *)
Tame == MaxAlive <= 2 /\ ~DieMidway /\ \A w \in Worlds : w.server => ~w.again

AliveStarts == {p \in Starts : Alive(p)}

FewAlive == IsFiniteSet(AliveStarts) /\ Cardinality(AliveStarts) <= MaxAlive

PidsDiffer ==
  ~ServerMode => \A p, q \in AliveStarts : PidOf[p] = PidOf[q] => p = q

(* A lock that was moved aside is in the hands of one who looks at it.       *)
AsideInHand == \A p \in Starts : pc[p] # "verify" => aside[p] = NoLock

Writes(p) == pc[p] \in {"holding", "unlink"}

Gone(p) == pc[p] \in {"done", "dead"}

(* Whoever a lock or a reader names has made a lock.                         *)
MadeOne(p) ==
  p # NoStart => pc[p] # "unborn" /\ (~world.again => Writes(p) \/ Gone(p))

NamesKnown == MadeOne(lock.owner) /\ \A p \in Starts : MadeOne(aside[p].owner) /\ MadeOne(found[p])

(* Whose lock a start goes on to take never writes again.                    *)
Condemned ==
  \A p \in Starts :
    /\ pc[p] \in {"judge", "age"} => found[p] # NoStart
    /\ pc[p] = "age" /\ ~ServerMode => pc[found[p]] = "dead"
    /\ pc[p] \in {"move", "verify", "create"} /\ found[p] # NoStart => Gone(found[p])

(* Without pids to look at, age alone says so.                               *)
OldIsGone(l) == l.age >= StaleAge => Gone(l.owner)

StaleIsGone == ServerMode => OldIsGone(lock) /\ \A p \in Starts : OldIsGone(aside[p])

(* A writer's lock is in place, or in the hands of the one other start that  *)
(* is alive and no lock is in its place.                                     *)
WritersLock ==
  \A p \in Starts : Writes(p) =>
    lock.owner = p \/ (lock = NoLock /\ \E q \in Starts : aside[q].owner = p)

LockInv ==
  /\ TypeOK /\ FewAlive /\ PidsDiffer /\ AsideInHand /\ NamesKnown
  /\ Condemned /\ StaleIsGone /\ WritersLock
=============================================================================
