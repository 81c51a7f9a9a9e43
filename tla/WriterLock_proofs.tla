------------------------- MODULE WriterLock_proofs -------------------------
(***************************************************************************)
(* What is proved of WriterLock for any set of process starts and any      *)
(* worlds: the types, and, where the lock excludes (Tame), that no two     *)
(* processes write a log at once and that a writer's lock is never lost.   *)
(***************************************************************************)
EXTENDS WriterLock, FiniteSetTheorems, TLAPS

USE NoStartAssumption, BoundAssumption, DieAssumption

(* The types hold at first.                                                  *)
LEMMA InitTypes == Init => TypeOK
BY DEF Init, TypeOK, Locks, NoLock, Steps

(* Types survive every system call.                                          *)
LEMMA TypeStep == ASSUME TypeOK, [Next]_vars PROVE TypeOK'
<1> USE DEF TypeOK, Locks, NoLock, Steps, StaleAge, Goto, Closed
<1>1. ASSUME NEW p \in Starts, Start(p), UNCHANGED world PROVE TypeOK'
  BY <1>1 DEF Start
<1>2. ASSUME NEW p \in Starts, TryCreate(p), UNCHANGED world PROVE TypeOK'
  BY <1>2 DEF TryCreate, Link
<1>3. ASSUME NEW p \in Starts, ReadHolder(p), UNCHANGED world PROVE TypeOK'
  BY <1>3 DEF ReadHolder
<1>4. ASSUME NEW p \in Starts, Judge(p), UNCHANGED world PROVE TypeOK'
  BY <1>4 DEF Judge
<1>5. ASSUME NEW p \in Starts, CheckAge(p), UNCHANGED world PROVE TypeOK'
  BY <1>5 DEF CheckAge
<1>6. ASSUME NEW p \in Starts, MoveAside(p), UNCHANGED world PROVE TypeOK'
  BY <1>6 DEF MoveAside, AfterMove
<1>7. ASSUME NEW p \in Starts, Verify(p), UNCHANGED world PROVE TypeOK'
  BY <1>7 DEF Verify, PutBack
<1>8. ASSUME NEW p \in Starts, CreateAfter(p), UNCHANGED world PROVE TypeOK'
  BY <1>8 DEF CreateAfter, Link
<1>9. ASSUME NEW p \in Starts, Beat(p), UNCHANGED world PROVE TypeOK'
  BY <1>9 DEF Beat
<1>10. ASSUME NEW p \in Starts, Close(p), UNCHANGED world PROVE TypeOK'
  BY <1>10 DEF Close
<1>11. ASSUME NEW p \in Starts, Unlink(p), UNCHANGED world PROVE TypeOK'
  BY <1>11 DEF Unlink
<1>12. ASSUME NEW p \in Starts, Die(p), UNCHANGED world PROVE TypeOK'
  BY <1>12 DEF Die
<1>13. ASSUME Tick, UNCHANGED world PROVE TypeOK'
  BY <1>13 DEF Tick
<1>14. CASE UNCHANGED vars
  BY <1>14 DEF vars
<1> QED
  BY <1>1, <1>2, <1>3, <1>4, <1>5, <1>6, <1>7, <1>8, <1>9, <1>10, <1>11, <1>12, <1>13, <1>14
  DEF Next, Acquire

(* Every variable keeps its type, whatever dies and whoever takes a lock     *)
(* over: a start that is about to look at what it moved has moved something. *)
THEOREM LockTypeCorrect == Spec => []TypeOK
BY InitTypes, TypeStep, PTL DEF Spec

(* Of three starts that are alive two are the same.                          *)
LEMMA TwoAlive ==
  ASSUME Tame, FewAlive, NEW p \in AliveStarts, NEW q \in AliveStarts, NEW r \in AliveStarts
  PROVE  p = q \/ p = r \/ q = r
<1> SUFFICES ASSUME p # q, p # r, q # r PROVE FALSE OBVIOUS
<1>1. IsFiniteSet({p}) /\ Cardinality({p}) = 1 BY FS_Singleton
<1> DEFINE two == {p} \cup {q}
           three == two \cup {r}
<1>2. q \notin {p} /\ r \notin two OBVIOUS
<1>3. IsFiniteSet(two) /\ Cardinality(two) = 2
  <2>1. Cardinality(two) = Cardinality({p}) + 1 /\ IsFiniteSet(two) BY <1>1, <1>2, FS_AddElement
  <2> QED BY <1>1, <2>1
<1>5. three \in SUBSET AliveStarts OBVIOUS
<1> HIDE DEF two
<1>4. Cardinality(three) = 3
  <2>1. Cardinality(three) = Cardinality(two) + 1 BY <1>2, <1>3, FS_AddElement
  <2> QED BY <1>3, <2>1
<1> HIDE DEF three
<1>6. 3 <= Cardinality(AliveStarts) BY <1>4, <1>5, FS_Subset DEF FewAlive
<1>7. Cardinality(AliveStarts) \in Nat BY FS_CardinalityType DEF FewAlive
<1> QED BY <1>6, <1>7 DEF FewAlive, Tame

(* Starts are born one at a time while there is room, and in sight of the    *)
(* pids that are taken.                                                      *)
LEMMA AliveStep == ASSUME TypeOK, FewAlive, PidsDiffer, [Next]_vars PROVE FewAlive' /\ PidsDiffer'
<1> USE DEF TypeOK, Steps, PidsDiffer, PidOf, ServerMode, Alive, Goto, Closed
<1>1. ASSUME NEW p \in Starts, Start(p), UNCHANGED world PROVE FewAlive' /\ PidsDiffer'
  <2>1. AliveStarts' = AliveStarts \cup {p} BY <1>1 DEF AliveStarts, Start
  <2>2. p \notin AliveStarts BY <1>1 DEF AliveStarts, Start
  <2>3. IsFiniteSet(AliveStarts') /\ Cardinality(AliveStarts') = Cardinality(AliveStarts) + 1
    BY <2>1, <2>2, FS_AddElement DEF FewAlive
  <2>4. Cardinality(AliveStarts) < MaxAlive BY <1>1 DEF AliveStarts, Start
  <2>5. Cardinality(AliveStarts) \in Nat BY FS_CardinalityType DEF FewAlive
  <2>6. FewAlive' BY <2>3, <2>4, <2>5 DEF FewAlive
  <2>7. PidsDiffer' BY <1>1, <2>1 DEF AliveStarts, Start
  <2> QED BY <2>6, <2>7
<1>2. ASSUME NEW p \in Starts, TryCreate(p), UNCHANGED world PROVE FewAlive' /\ PidsDiffer'
  <2>1. AliveStarts' = AliveStarts BY <1>2 DEF AliveStarts, TryCreate, Link
  <2> QED BY <1>2, <2>1 DEF FewAlive
<1>3. ASSUME NEW p \in Starts, ReadHolder(p), UNCHANGED world PROVE FewAlive' /\ PidsDiffer'
  <2>1. AliveStarts' = AliveStarts BY <1>3 DEF AliveStarts, ReadHolder
  <2> QED BY <1>3, <2>1 DEF FewAlive
<1>4. ASSUME NEW p \in Starts, Judge(p), UNCHANGED world PROVE FewAlive' /\ PidsDiffer'
  <2>1. AliveStarts' = AliveStarts BY <1>4 DEF AliveStarts, Judge, SeenAlive
  <2> QED BY <1>4, <2>1 DEF FewAlive
<1>5. ASSUME NEW p \in Starts, CheckAge(p), UNCHANGED world PROVE FewAlive' /\ PidsDiffer'
  <2>1. AliveStarts' = AliveStarts BY <1>5 DEF AliveStarts, CheckAge, IsStale
  <2> QED BY <1>5, <2>1 DEF FewAlive
<1>6. ASSUME NEW p \in Starts, MoveAside(p), UNCHANGED world PROVE FewAlive' /\ PidsDiffer'
  <2>1. AliveStarts' = AliveStarts BY <1>6 DEF AliveStarts, MoveAside, AfterMove
  <2> QED BY <1>6, <2>1 DEF FewAlive
<1>7. ASSUME NEW p \in Starts, Verify(p), UNCHANGED world PROVE FewAlive' /\ PidsDiffer'
  <2>1. AliveStarts' = AliveStarts BY <1>7 DEF AliveStarts, Verify, MovedTheStale, PutBack
  <2> QED BY <1>7, <2>1 DEF FewAlive
<1>8. ASSUME NEW p \in Starts, CreateAfter(p), UNCHANGED world PROVE FewAlive' /\ PidsDiffer'
  <2>1. AliveStarts' = AliveStarts BY <1>8 DEF AliveStarts, CreateAfter, Link
  <2> QED BY <1>8, <2>1 DEF FewAlive
<1>9. ASSUME NEW p \in Starts, Beat(p), UNCHANGED world PROVE FewAlive' /\ PidsDiffer'
  <2>1. AliveStarts' = AliveStarts BY <1>9 DEF AliveStarts, Beat
  <2> QED BY <1>9, <2>1 DEF FewAlive
<1>10. ASSUME NEW p \in Starts, Close(p), UNCHANGED world PROVE FewAlive' /\ PidsDiffer'
  <2>1. AliveStarts' = AliveStarts BY <1>10 DEF AliveStarts, Close
  <2> QED BY <1>10, <2>1 DEF FewAlive
<1>11. ASSUME NEW p \in Starts, Unlink(p), UNCHANGED world PROVE FewAlive' /\ PidsDiffer'
  <2>1. AliveStarts' = AliveStarts BY <1>11 DEF AliveStarts, Unlink
  <2> QED BY <1>11, <2>1 DEF FewAlive
<1>12. ASSUME NEW p \in Starts, Die(p), UNCHANGED world PROVE FewAlive' /\ PidsDiffer'
  <2>1. AliveStarts' = AliveStarts \ {p} BY <1>12 DEF AliveStarts, Die
  <2>2. p \in AliveStarts BY <1>12 DEF AliveStarts, Die
  <2>3. IsFiniteSet(AliveStarts') /\ Cardinality(AliveStarts') = Cardinality(AliveStarts) - 1
    BY <2>1, <2>2, FS_RemoveElement DEF FewAlive
  <2>4. Cardinality(AliveStarts) \in Nat BY FS_CardinalityType DEF FewAlive
  <2>5. FewAlive' BY <2>3, <2>4 DEF FewAlive
  <2>6. PidsDiffer' BY <1>12, <2>1 DEF AliveStarts, Die
  <2> QED BY <2>5, <2>6
<1>13. ASSUME Tick, UNCHANGED world PROVE FewAlive' /\ PidsDiffer'
  <2>1. AliveStarts' = AliveStarts BY <1>13 DEF AliveStarts, Tick
  <2> QED BY <1>13, <2>1 DEF FewAlive
<1>14. CASE UNCHANGED vars
  <2>1. AliveStarts' = AliveStarts BY <1>14 DEF AliveStarts, vars
  <2> QED BY <1>14, <2>1 DEF FewAlive, vars
<1> QED
  BY <1>1, <1>2, <1>3, <1>4, <1>5, <1>6, <1>7, <1>8, <1>9, <1>10, <1>11, <1>12, <1>13, <1>14
  DEF Next, Acquire

(* What was moved aside is put back or dropped by the one who moved it, who  *)
(* does not die meanwhile.                                                   *)
LEMMA HandStep == ASSUME Tame, TypeOK, AsideInHand, [Next]_vars PROVE AsideInHand'
<1> USE DEF TypeOK, Steps, AsideInHand, Goto, Closed, Tame
<1>1. ASSUME NEW p \in Starts, Start(p), UNCHANGED world PROVE AsideInHand'
  BY <1>1 DEF Start
<1>2. ASSUME NEW p \in Starts, TryCreate(p), UNCHANGED world PROVE AsideInHand'
  BY <1>2 DEF TryCreate, Link
<1>3. ASSUME NEW p \in Starts, ReadHolder(p), UNCHANGED world PROVE AsideInHand'
  BY <1>3 DEF ReadHolder
<1>4. ASSUME NEW p \in Starts, Judge(p), UNCHANGED world PROVE AsideInHand'
  BY <1>4 DEF Judge, SeenAlive
<1>5. ASSUME NEW p \in Starts, CheckAge(p), UNCHANGED world PROVE AsideInHand'
  BY <1>5 DEF CheckAge, IsStale
<1>6. ASSUME NEW p \in Starts, MoveAside(p), UNCHANGED world PROVE AsideInHand'
  BY <1>6 DEF MoveAside, AfterMove
<1>7. ASSUME NEW p \in Starts, Verify(p), UNCHANGED world PROVE AsideInHand'
  BY <1>7 DEF Verify, MovedTheStale, PutBack
<1>8. ASSUME NEW p \in Starts, CreateAfter(p), UNCHANGED world PROVE AsideInHand'
  BY <1>8 DEF CreateAfter, Link
<1>9. ASSUME NEW p \in Starts, Beat(p), UNCHANGED world PROVE AsideInHand'
  BY <1>9 DEF Beat
<1>10. ASSUME NEW p \in Starts, Close(p), UNCHANGED world PROVE AsideInHand'
  BY <1>10 DEF Close
<1>11. ASSUME NEW p \in Starts, Unlink(p), UNCHANGED world PROVE AsideInHand'
  BY <1>11 DEF Unlink
<1>12. ASSUME NEW p \in Starts, Die(p), UNCHANGED world PROVE AsideInHand'
  BY <1>12 DEF Die
<1>13. ASSUME Tick, UNCHANGED world PROVE AsideInHand'
  BY <1>13 DEF Tick
<1>14. CASE UNCHANGED vars
  BY <1>14 DEF vars
<1> QED
  BY <1>1, <1>2, <1>3, <1>4, <1>5, <1>6, <1>7, <1>8, <1>9, <1>10, <1>11, <1>12, <1>13, <1>14
  DEF Next, Acquire

(* A lock names the start that made it, which does not come back to make     *)
(* another where it may not.                                                 *)
LEMMA NamesStep == ASSUME TypeOK, NamesKnown, [Next]_vars PROVE NamesKnown'
<1> USE DEF TypeOK, Steps, NamesKnown, MadeOne, Writes, Gone, Goto, Closed, NoLock
<1>1. ASSUME NEW p \in Starts, Start(p), UNCHANGED world PROVE NamesKnown'
  BY <1>1 DEF Start
<1>2. ASSUME NEW p \in Starts, TryCreate(p), UNCHANGED world PROVE NamesKnown'
  BY <1>2 DEF TryCreate, Link
<1>3. ASSUME NEW p \in Starts, ReadHolder(p), UNCHANGED world PROVE NamesKnown'
  BY <1>3 DEF ReadHolder
<1>4. ASSUME NEW p \in Starts, Judge(p), UNCHANGED world PROVE NamesKnown'
  BY <1>4 DEF Judge, SeenAlive
<1>5. ASSUME NEW p \in Starts, CheckAge(p), UNCHANGED world PROVE NamesKnown'
  BY <1>5 DEF CheckAge, IsStale
<1>6. ASSUME NEW p \in Starts, MoveAside(p), UNCHANGED world PROVE NamesKnown'
  BY <1>6 DEF MoveAside, AfterMove
<1>7. ASSUME NEW p \in Starts, Verify(p), UNCHANGED world PROVE NamesKnown'
  BY <1>7 DEF Verify, MovedTheStale, PutBack
<1>8. ASSUME NEW p \in Starts, CreateAfter(p), UNCHANGED world PROVE NamesKnown'
  BY <1>8 DEF CreateAfter, Link
<1>9. ASSUME NEW p \in Starts, Beat(p), UNCHANGED world PROVE NamesKnown'
  BY <1>9 DEF Beat
<1>10. ASSUME NEW p \in Starts, Close(p), UNCHANGED world PROVE NamesKnown'
  BY <1>10 DEF Close
<1>11. ASSUME NEW p \in Starts, Unlink(p), UNCHANGED world PROVE NamesKnown'
  BY <1>11 DEF Unlink
<1>12. ASSUME NEW p \in Starts, Die(p), UNCHANGED world PROVE NamesKnown'
  BY <1>12 DEF Die
<1>13. ASSUME Tick, UNCHANGED world PROVE NamesKnown'
  BY <1>13 DEF Tick
<1>14. CASE UNCHANGED vars
  BY <1>14 DEF vars
<1> QED
  BY <1>1, <1>2, <1>3, <1>4, <1>5, <1>6, <1>7, <1>8, <1>9, <1>10, <1>11, <1>12, <1>13, <1>14
  DEF Next, Acquire

(* A start goes on to take a lock only when its holder was found dead, or    *)
(* has not touched it for a time no writer lets pass.                        *)
LEMMA CondemnedStep == ASSUME Tame, LockInv, [Next]_vars PROVE Condemned'
<1> USE DEF LockInv, TypeOK, Steps, Condemned, NamesKnown, MadeOne, AsideInHand, PidOf, ServerMode, Writes, Gone, Goto, Closed
<1>1. ASSUME NEW p \in Starts, Start(p), UNCHANGED world PROVE Condemned'
  BY <1>1 DEF Start
<1>2. ASSUME NEW p \in Starts, TryCreate(p), UNCHANGED world PROVE Condemned'
  BY <1>2 DEF TryCreate, Link
<1>3. ASSUME NEW p \in Starts, ReadHolder(p), UNCHANGED world PROVE Condemned'
  BY <1>3 DEF ReadHolder, Locks, NoLock
<1>4. ASSUME NEW p \in Starts, Judge(p), UNCHANGED world PROVE Condemned'
  <2>1. ASSUME pc'[p] \in {"age", "move"}, ~ServerMode PROVE pc[found[p]] = "dead"
    <3>1. pc[p] = "judge" /\ found[p] \in Starts BY <1>4, <2>1 DEF Judge
    <3>2. pc[found[p]] # "unborn" BY <3>1
    <3>3. ASSUME Alive(found[p]) PROVE FALSE
      <4>1. p \in AliveStarts /\ found[p] \in AliveStarts BY <3>1, <3>3 DEF AliveStarts, Alive
      <4>2. PidOf[found[p]] # PidOf[p] \/ found[p] = p BY <2>1, <4>1 DEF PidsDiffer
      <4>3. SeenAlive(PidOf[found[p]]) BY <2>1, <3>1, <3>3 DEF SeenAlive
      <4> QED BY <1>4, <2>1, <3>1, <4>2, <4>3 DEF Judge
    <3> QED BY <3>1, <3>2, <3>3 DEF Alive
  <2>2. ServerMode => pc'[p] # "move" BY <1>4 DEF Judge
  <2> QED BY <1>4, <2>1, <2>2 DEF Judge
<1>5. ASSUME NEW p \in Starts, CheckAge(p), UNCHANGED world PROVE Condemned'
  <2>1. ASSUME pc'[p] = "move" PROVE Gone(found[p])
    <3>1. pc[p] = "age" /\ IsStale /\ found[p] \in Starts BY <1>5, <2>1 DEF CheckAge
    <3>2. CASE ~ServerMode BY <3>1, <3>2
    <3>3. CASE ServerMode
      <4>1. Writes(found[p]) \/ Gone(found[p]) BY <3>1, <3>3 DEF Tame
      <4>2. SUFFICES ASSUME Writes(found[p]) PROVE FALSE BY <4>1
      <4>3. CASE lock.owner = found[p]
        BY <3>1, <3>3, <4>2, <4>3 DEF IsStale, StaleIsGone, OldIsGone, Locks, NoLock
      <4>4. CASE \E q \in Starts : aside[q].owner = found[p]
        <5>1. PICK q \in Starts : aside[q].owner = found[p] BY <4>4
        <5>2. pc[q] = "verify" BY <3>1, <5>1 DEF NoLock
        <5>3. {p, q, found[p]} \subseteq AliveStarts
          BY <3>1, <4>2, <5>2 DEF AliveStarts, Alive
        <5> QED BY <3>1, <4>2, <5>2, <5>3, TwoAlive
      <4> QED BY <3>1, <4>2, <4>3, <4>4 DEF WritersLock
    <3> QED BY <3>2, <3>3
  <2> QED BY <1>5, <2>1 DEF CheckAge
<1>6. ASSUME NEW p \in Starts, MoveAside(p), UNCHANGED world PROVE Condemned'
  BY <1>6 DEF MoveAside, AfterMove
<1>7. ASSUME NEW p \in Starts, Verify(p), UNCHANGED world PROVE Condemned'
  BY <1>7 DEF Verify, MovedTheStale, PutBack
<1>8. ASSUME NEW p \in Starts, CreateAfter(p), UNCHANGED world PROVE Condemned'
  BY <1>8 DEF CreateAfter, Link
<1>9. ASSUME NEW p \in Starts, Beat(p), UNCHANGED world PROVE Condemned'
  BY <1>9 DEF Beat
<1>10. ASSUME NEW p \in Starts, Close(p), UNCHANGED world PROVE Condemned'
  BY <1>10 DEF Close
<1>11. ASSUME NEW p \in Starts, Unlink(p), UNCHANGED world PROVE Condemned'
  BY <1>11 DEF Unlink
<1>12. ASSUME NEW p \in Starts, Die(p), UNCHANGED world PROVE Condemned'
  BY <1>12 DEF Die
<1>13. ASSUME Tick, UNCHANGED world PROVE Condemned'
  BY <1>13 DEF Tick
<1>14. CASE UNCHANGED vars
  BY <1>14 DEF vars
<1> QED
  BY <1>1, <1>2, <1>3, <1>4, <1>5, <1>6, <1>7, <1>8, <1>9, <1>10, <1>11, <1>12, <1>13, <1>14
  DEF Next, Acquire

(* Only a lock that nobody writes under grows old.                           *)
LEMMA StaleStep == ASSUME Tame, LockInv, [Next]_vars PROVE StaleIsGone'
<1> USE DEF LockInv, TypeOK, Steps, StaleIsGone, OldIsGone, StaleAge, NamesKnown, MadeOne, PidOf, ServerMode, AsideInHand, Locks, Tame, Writes, Gone, Goto, Closed, NoLock
<1>1. ASSUME NEW p \in Starts, Start(p), UNCHANGED world PROVE StaleIsGone'
  BY <1>1 DEF Start
<1>2. ASSUME NEW p \in Starts, TryCreate(p), UNCHANGED world PROVE StaleIsGone'
  BY <1>2 DEF TryCreate, Link
<1>3. ASSUME NEW p \in Starts, ReadHolder(p), UNCHANGED world PROVE StaleIsGone'
  BY <1>3 DEF ReadHolder
<1>4. ASSUME NEW p \in Starts, Judge(p), UNCHANGED world PROVE StaleIsGone'
  BY <1>4 DEF Judge, SeenAlive
<1>5. ASSUME NEW p \in Starts, CheckAge(p), UNCHANGED world PROVE StaleIsGone'
  BY <1>5 DEF CheckAge, IsStale
<1>6. ASSUME NEW p \in Starts, MoveAside(p), UNCHANGED world PROVE StaleIsGone'
  BY <1>6 DEF MoveAside, AfterMove
<1>7. ASSUME NEW p \in Starts, Verify(p), UNCHANGED world PROVE StaleIsGone'
  BY <1>7 DEF Verify, MovedTheStale, PutBack
<1>8. ASSUME NEW p \in Starts, CreateAfter(p), UNCHANGED world PROVE StaleIsGone'
  BY <1>8 DEF CreateAfter, Link
<1>9. ASSUME NEW p \in Starts, Beat(p), UNCHANGED world PROVE StaleIsGone'
  BY <1>9 DEF Beat
<1>10. ASSUME NEW p \in Starts, Close(p), UNCHANGED world PROVE StaleIsGone'
  BY <1>10 DEF Close
<1>11. ASSUME NEW p \in Starts, Unlink(p), UNCHANGED world PROVE StaleIsGone'
  BY <1>11 DEF Unlink
<1>12. ASSUME NEW p \in Starts, Die(p), UNCHANGED world PROVE StaleIsGone'
  BY <1>12 DEF Die
<1>13. ASSUME Tick, UNCHANGED world PROVE StaleIsGone'
  BY <1>13 DEF Tick
<1>14. CASE UNCHANGED vars
  BY <1>14 DEF vars
<1> QED
  BY <1>1, <1>2, <1>3, <1>4, <1>5, <1>6, <1>7, <1>8, <1>9, <1>10, <1>11, <1>12, <1>13, <1>14
  DEF Next, Acquire

(* A lock that is moved from under a writer comes back to it: the one who    *)
(* moved it finds that it is not the lock it judged, and there is no third   *)
(* start to make another.                                                    *)
LEMMA WritersStep == ASSUME Tame, LockInv, [Next]_vars PROVE WritersLock'
<1> USE DEF LockInv, TypeOK, Steps, WritersLock, AsideInHand, Condemned, NamesKnown, MadeOne, Writes, Gone, Goto, Closed, NoLock
<1>1. ASSUME NEW p \in Starts, Start(p), UNCHANGED world PROVE WritersLock'
  BY <1>1 DEF Start
<1>2. ASSUME NEW p \in Starts, TryCreate(p), UNCHANGED world PROVE WritersLock'
  <2>1. ASSUME NEW r \in Starts, Writes(r), lock = NoLock PROVE FALSE
    <3>1. PICK q \in Starts : aside[q].owner = r BY <2>1
    <3>2. pc[q] = "verify" BY <2>1, <3>1
    <3>3. {p, q, r} \subseteq AliveStarts BY <1>2, <2>1, <3>2 DEF TryCreate, AliveStarts, Alive
    <3> QED BY <1>2, <2>1, <3>2, <3>3, TwoAlive DEF TryCreate
  <2> QED BY <1>2, <2>1 DEF TryCreate, Link
<1>3. ASSUME NEW p \in Starts, ReadHolder(p), UNCHANGED world PROVE WritersLock'
  BY <1>3 DEF ReadHolder
<1>4. ASSUME NEW p \in Starts, Judge(p), UNCHANGED world PROVE WritersLock'
  BY <1>4 DEF Judge, SeenAlive
<1>5. ASSUME NEW p \in Starts, CheckAge(p), UNCHANGED world PROVE WritersLock'
  BY <1>5 DEF CheckAge, IsStale
<1>6. ASSUME NEW p \in Starts, MoveAside(p), UNCHANGED world PROVE WritersLock'
  BY <1>6 DEF MoveAside, AfterMove
<1>7. ASSUME NEW p \in Starts, Verify(p), UNCHANGED world PROVE WritersLock'
  <2>1. pc[p] = "verify" BY <1>7 DEF Verify
  <2>2. ASSUME NEW r \in Starts, Writes(r), lock.owner # r
        PROVE  aside[p].owner = r /\ lock = NoLock /\ ~MovedTheStale(p)
    <3>1. PICK q \in Starts : aside[q].owner = r BY <2>2
    <3>2. lock = NoLock /\ pc[q] = "verify" BY <2>2, <3>1
    <3>3. {p, q, r} \subseteq AliveStarts BY <2>1, <2>2, <3>2 DEF AliveStarts, Alive
    <3>4. p = q BY <2>1, <2>2, <3>2, <3>3, TwoAlive
    <3> QED BY <2>1, <2>2, <3>1, <3>2, <3>4 DEF MovedTheStale
  <2>3. ASSUME NEW r \in Starts, Writes(r)'
        PROVE  lock'.owner = r
    <3>1. Writes(r) BY <1>7, <2>3 DEF Verify
    <3>2. CASE lock.owner = r BY <1>7, <3>2 DEF Verify, PutBack
    <3>3. CASE lock.owner # r BY <1>7, <2>2, <3>1, <3>3 DEF Verify, PutBack
    <3> QED BY <3>2, <3>3
  <2> QED BY <2>3
<1>8. ASSUME NEW p \in Starts, CreateAfter(p), UNCHANGED world PROVE WritersLock'
  <2>1. ASSUME NEW r \in Starts, Writes(r), lock = NoLock PROVE FALSE
    <3>1. PICK q \in Starts : aside[q].owner = r BY <2>1
    <3>2. pc[q] = "verify" BY <2>1, <3>1
    <3>3. {p, q, r} \subseteq AliveStarts BY <1>8, <2>1, <3>2 DEF CreateAfter, AliveStarts, Alive
    <3> QED BY <1>8, <2>1, <3>2, <3>3, TwoAlive DEF CreateAfter
  <2> QED BY <1>8, <2>1 DEF CreateAfter, Link
<1>9. ASSUME NEW p \in Starts, Beat(p), UNCHANGED world PROVE WritersLock'
  BY <1>9 DEF Beat
<1>10. ASSUME NEW p \in Starts, Close(p), UNCHANGED world PROVE WritersLock'
  BY <1>10 DEF Close
<1>11. ASSUME NEW p \in Starts, Unlink(p), UNCHANGED world PROVE WritersLock'
  BY <1>11 DEF Unlink
<1>12. ASSUME NEW p \in Starts, Die(p), UNCHANGED world PROVE WritersLock'
  BY <1>12 DEF Die
<1>13. ASSUME Tick, UNCHANGED world PROVE WritersLock'
  BY <1>13 DEF Tick
<1>14. CASE UNCHANGED vars
  BY <1>14 DEF vars
<1> QED
  BY <1>1, <1>2, <1>3, <1>4, <1>5, <1>6, <1>7, <1>8, <1>9, <1>10, <1>11, <1>12, <1>13, <1>14
  DEF Next, Acquire

(* Every step keeps the invariant where the lock excludes.                   *)
LEMMA LockInvStep == ASSUME Tame, LockInv, [Next]_vars PROVE LockInv'
BY TypeStep, AliveStep, HandStep, NamesStep, CondemnedStep, StaleStep, WritersStep DEF LockInv

(* The invariant holds at first: no one holds the lock or tries.             *)
LEMMA InitLockInv == ASSUME Init PROVE LockInv
<1>1. AliveStarts = {} BY DEF Init, AliveStarts, Alive
<1>2. FewAlive BY <1>1, FS_EmptySet DEF FewAlive
<1>3. PidsDiffer BY <1>1 DEF PidsDiffer
<1>4. /\ AsideInHand /\ NamesKnown /\ Condemned /\ StaleIsGone /\ WritersLock
  BY DEF Init, AsideInHand, NamesKnown, MadeOne, Condemned, StaleIsGone, OldIsGone, StaleAge,
         WritersLock, Writes, NoLock
<1> QED BY InitTypes, <1>2, <1>3, <1>4 DEF LockInv

(* A writer whose lock is in its place or in the other start's hands excludes *)
(* another: that one would need the same place.                              *)
LEMMA ExclusionFromInv ==
  ASSUME Tame, LockInv
  PROVE  MutualExclusion /\ HolderHasLock
<1> USE DEF LockInv, Writes
<1>1. HolderHasLock BY DEF HolderHasLock, WritersLock
<1>2. ASSUME NEW p \in Starts, NEW q \in Starts, pc[p] = "holding", pc[q] = "holding", p # q
      PROVE  FALSE
  <2>1. PICK x \in {p, q} : lock.owner # x BY <1>2
  <2>2. lock = NoLock /\ \E r \in Starts : aside[r].owner = x
    BY <1>2, <2>1 DEF WritersLock
  <2>3. PICK r \in Starts : aside[r].owner = x BY <2>2
  <2>4. pc[r] = "verify" BY <1>2, <2>3 DEF AsideInHand, NoLock
  <2>5. {p, q, r} \subseteq AliveStarts BY <1>2, <2>4 DEF AliveStarts, Alive
  <2> QED BY <1>2, <2>4, <2>5, TwoAlive
<1> QED BY <1>1, <1>2 DEF MutualExclusion

(* "A lock left by a dead process is taken over, by one writer only"         *)
(* (writer.ts:5): no two live processes write the log at once, however many   *)
(* starts there are over time and whatever pids they get, as long as two are *)
(* alive at once and no more.                                                *)
THEOREM LockExcludes == ASSUME Tame PROVE Spec => []MutualExclusion
<1>1. ASSUME LockInv, [Next]_vars PROVE LockInv' BY <1>1, LockInvStep
<1>2. Init => LockInv BY InitLockInv
<1>3. LockInv => MutualExclusion BY ExclusionFromInv
<1> QED BY <1>1, <1>2, <1>3, PTL DEF Spec

(* A writer's lock is not lost when one who judged an earlier lock moves it   *)
(* aside: it is in its place, or in that start's hands (writer.ts:229).      *)
THEOREM LockNotLost == ASSUME Tame PROVE Spec => []HolderHasLock
<1>1. ASSUME LockInv, [Next]_vars PROVE LockInv' BY <1>1, LockInvStep
<1>2. Init => LockInv BY InitLockInv
<1>3. LockInv => HolderHasLock BY ExclusionFromInv
<1> QED BY <1>1, <1>2, <1>3, PTL DEF Spec
=============================================================================
