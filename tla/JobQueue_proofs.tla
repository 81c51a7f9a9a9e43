-------------------------- MODULE JobQueue_proofs --------------------------
(***************************************************************************)
(* Proofs about JobQueue, for any number of jobs, of places, of remotes    *)
(* and of crashes: JobInv (JobInvariant) is inductive, the safety          *)
(* properties of the service follow from it, and so does that the service  *)
(* implements JobLife.  WorkInv (JobInvariant) is inductive beside it, and *)
(* no job that could run waits.                                            *)
(*                                                                         *)
(* The order: the outbox, delivery by delivery; what each statement makes  *)
(* of the table of jobs, and then each action; the types; then the parts   *)
(* of JobInv, one lemma for each with one step per action, and the         *)
(* theorems that follow; JobLife; where the jobs may run, and WorkInv.     *)
(***************************************************************************)
EXTENDS JobInvariant, FiniteSetTheorems, WellFoundedInduction, TLAPS

USE JobsAssumption, TriesAssumption, StartsAssumption
USE DEF deliveryVars, outboxVars, storeVars, queueVars, remoteVars, modelVars, setVars, turnVars, procVars


(* A set of natural numbers that is not empty has a least element.           *)
LEMMA NatMin == ASSUME NEW S \in SUBSET Nat, S # {} PROVE \E n \in S : \A m \in S : n <= m
<1>1. PICK x \in S : \A y \in S : ~(<<y, x>> \in OpToRel(<, Nat))
  BY NatLessThanWellFounded, WFMin
<1>2. \A y \in S : ~(y < x) BY <1>1 DEF OpToRel
<1> QED BY <1>2

(* Oldest finds the least job of a set that is not empty.                    *)
LEMMA OldestIn ==
  ASSUME NEW S \in SUBSET Jobs, S # {}
  PROVE Oldest(S) \in S /\ \A j \in S : Oldest(S) <= j
<1>1. S \in SUBSET Nat BY DEF Jobs
<1>2. \E i \in S : \A j \in S : i <= j BY <1>1, NatMin
<1> QED BY <1>2 DEF Oldest

(* A row that is open or over has a job's columns.                           *)
LEMMA JobRow ==
  ASSUME NEW table \in [Jobs -> Rows], NEW j \in Jobs, table[j].status \in Open \cup Over
  PROVE  table[j] \in JobRows
BY DEF Rows, NoRow, GoneRow, Open, Over

(* First finds a job of any set of held jobs that is not empty: by induction *)
(* on the jobs looked at, one of them comes before all the others.           *)
LEMMA FirstIn ==
  ASSUME row \in [Jobs -> Rows], NEW S \in SUBSET Held(row), S # {}
  PROVE  First(S) \in S
<1> DEFINE Upto(k) == S \cap 1..k
           Best(k) == Upto(k) = {} \/ \E i \in Upto(k) : \A j \in Upto(k) \ {i} : Before(i, j)
           Bad == {k \in 0..MaxJobs : ~Best(k)}
<1>0. S \subseteq Jobs /\ \A j \in S : row[j].kind.prio \in Nat
  BY JobRow DEF Held, In, JobRows, KindSet
<1>1. Bad = {}
  <2> SUFFICES ASSUME Bad # {} PROVE FALSE OBVIOUS
  <2>1. PICK k \in Bad : \A m \in Bad : k <= m
    <3>1. Bad \in SUBSET Nat BY JobsAssumption
    <3> HIDE DEF Bad
    <3> QED BY <3>1, NatMin
  <2>2. k # 0
    <3>1. Upto(0) = {} OBVIOUS
    <3> QED BY <3>1
  <2>3. k \in Nat /\ k - 1 \in 0..MaxJobs BY <2>2, JobsAssumption
  <2>4. Best(k - 1) BY <2>1, <2>3
  <2>5. Upto(k) = Upto(k - 1) \/ (k \in S /\ Upto(k) = Upto(k - 1) \cup {k})
    <3>1. \A x \in Nat : x \in 1..k <=> x \in 1..(k - 1) \/ x = k BY <2>2, <2>3
    <3>2. S \subseteq Nat BY <1>0 DEF Jobs
    <3> QED BY <3>1, <3>2
  <2>6. CASE Upto(k) = Upto(k - 1) BY <2>4, <2>6, <2>1
  <2>7. CASE k \in S /\ Upto(k) = Upto(k - 1) \cup {k}
    <3>1. CASE Upto(k - 1) = {} BY <2>7, <3>1
    <3>2. CASE Upto(k - 1) # {}
      <4>1. PICK i \in Upto(k - 1) : \A j \in Upto(k - 1) \ {i} : Before(i, j) BY <2>4, <3>2
      <4>2. i < k /\ i \in S BY <2>3, <1>0 DEF Jobs
      <4>3. CASE row[i].kind.prio >= row[k].kind.prio
        <5>0. row[i].kind.prio \in Nat /\ row[k].kind.prio \in Nat BY <4>2, <2>7, <1>0
        <5>9. row[i].kind.prio > row[k].kind.prio \/ row[i].kind.prio = row[k].kind.prio
          <6>1. \A a, b \in Nat : a >= b => a > b \/ a = b OBVIOUS
          <6> HIDE DEF Upto, Best, Bad
          <6> QED BY <6>1, <5>0, <4>3
        <5>1. Before(i, k)
          <6> HIDE DEF Upto, Best, Bad
          <6> QED BY <5>9, <4>2 DEF Before
        <5>2. \A j \in Upto(k) \ {i} : Before(i, j) BY <4>1, <5>1, <2>7
        <5> QED BY <5>2, <2>7, <2>1, <4>1
      <4>4. CASE row[i].kind.prio < row[k].kind.prio
        <5>1. \A j \in Upto(k) \ {k} : Before(k, j)
          <6> TAKE j \in Upto(k) \ {k}
          <6>1. CASE j = i BY <6>1, <4>4, <4>2, <2>7, <1>0 DEF Before
          <6>2. CASE j # i
            <7>1. Before(i, j) /\ j \in S BY <6>2, <4>1, <2>7
            <7> QED BY <7>1, <4>4, <4>2, <2>7, <1>0 DEF Before
          <6> QED BY <6>1, <6>2
        <5> QED BY <5>1, <2>7, <2>1
      <4> QED BY <4>2, <4>3, <4>4, <2>7, <1>0
    <3> QED BY <3>1, <3>2, <2>7, <2>1
  <2> QED BY <2>5, <2>6, <2>7
<1>2. MaxJobs \in 0..MaxJobs BY JobsAssumption
<1>3. Best(MaxJobs) BY <1>1, <1>2
<1>4. Upto(MaxJobs) = S BY <1>0 DEF Jobs
<1> QED BY <1>3, <1>4 DEF First

-----------------------------------------------------------------------------
(* The outbox.                                                               *)

(* What any step makes of the outbox.                                        *)
OutboxMoves ==
  \/ UNCHANGED <<outbox, trying, crashes>>
  \/ \E S \in SUBSET {j \in Jobs : row[j].status \in Open} :
       outbox' = Announced(outbox, S) /\ UNCHANGED <<trying, crashes>>
  \/ \E S \in SUBSET Jobs : outbox' = Withdrawn(outbox, S) /\ UNCHANGED <<trying, crashes>>
  \/ Kick(outbox) /\ UNCHANGED crashes
  \/ \E j \in Jobs : Due(j)
  \/ \E j \in Jobs : \E n \in trying[j], answer \in Answers : Answer(j, n, answer)
  \/ crashes < MaxCrashes /\ crashes' = crashes + 1 /\ DelivererDies

(* What holds of one delivery, the tries of it that are out, and the crashes *)
(* so far.                                                                   *)
DeliveryOK(d, out, died) ==
  /\ d \in Deliveries
  /\ out \in SUBSET (1..(MaxTries + MaxCrashes))
  /\ d.due => d.state = "pending"
  /\ d.state = "none" => d = NoDelivery
  /\ d.state # "none" => d.tries <= MaxTries + died
  /\ d.state = "pending" => d.why = "none"
  /\ d.state = "pending" /\ out = {} => d.tries < MaxTries + died
  /\ d.why = "tries" => d.tries >= MaxTries
  /\ out \subseteq {d.tries}

(* The outbox's part of the invariant, delivery by delivery.                 *)
OutboxOK ==
  /\ outbox = [j \in Jobs |-> outbox[j]] /\ trying = [j \in Jobs |-> trying[j]]
  /\ crashes \in 0..MaxCrashes
  /\ \A j \in Jobs : DeliveryOK(outbox[j], trying[j], crashes)

(* NoDelivery and the deliveries the table's statements write.               *)
LEMMA OutboxSteps ==
  ASSUME OutboxOK, NotToldYet, OutboxMoves
  PROVE  OutboxOK'
<1> USE DEF OutboxOK
<1>0. crashes \in Nat /\ \A j \in Jobs : DeliveryOK(outbox[j], trying[j], crashes) OBVIOUS
<1>1. CASE UNCHANGED <<outbox, trying, crashes>> BY <1>1
<1>2. ASSUME NEW S \in SUBSET {j \in Jobs : row[j].status \in Open},
             outbox' = Announced(outbox, S), UNCHANGED <<trying, crashes>>
      PROVE  OutboxOK'
  <2>1. outbox' = [j \in Jobs |-> outbox'[j]] BY <1>2 DEF Announced
  <2>2. ASSUME NEW j \in Jobs PROVE DeliveryOK(outbox'[j], trying[j], crashes)
    <3>1. CASE j \notin S BY <1>2, <3>1 DEF Announced
    <3>2. CASE j \in S
      <4>1. outbox[j] = NoDelivery BY <3>2 DEF NotToldYet
      <4>2. trying[j] = {} BY <4>1 DEF DeliveryOK, NoDelivery
      <4>3. outbox'[j] = [state |-> "pending", tries |-> 0, due |-> TRUE, why |-> "none"]
        BY <1>2, <3>2 DEF Announced, NoDelivery
      <4>4. outbox'[j] \in Deliveries BY <4>3 DEF Deliveries, Whys
      <4>5. 0 < MaxTries + crashes BY <1>0
      <4> QED BY <4>2, <4>3, <4>4, <4>5 DEF DeliveryOK
    <3> QED BY <3>1, <3>2
  <2> QED BY <1>2, <2>1, <2>2
<1>3. ASSUME NEW S \in SUBSET Jobs, outbox' = Withdrawn(outbox, S), UNCHANGED <<trying, crashes>>
      PROVE  OutboxOK'
  <2>1. outbox' = [j \in Jobs |-> outbox'[j]] BY <1>3 DEF Withdrawn
  <2>2. ASSUME NEW j \in Jobs PROVE DeliveryOK(outbox'[j], trying[j], crashes)
    <3>1. CASE outbox'[j] = outbox[j] BY <3>1
    <3>2. CASE outbox'[j] # outbox[j]
      <4>1. /\ outbox[j].state = "pending"
            /\ outbox'[j] = [outbox[j] EXCEPT !.state = "failed", !.due = FALSE, !.why = "deleted"]
        BY <1>3, <3>2 DEF Withdrawn, Pending
      <4> QED BY <4>1 DEF DeliveryOK, Deliveries, Whys
    <3> QED BY <3>1, <3>2
  <2> QED BY <1>3, <2>1, <2>2
<1>4. CASE Kick(outbox) /\ UNCHANGED crashes
  <2>1. outbox' = [j \in Jobs |-> outbox'[j]] /\ trying' = [j \in Jobs |-> trying'[j]]
    BY <1>4 DEF Kick
  <2>2. ASSUME NEW j \in Jobs PROVE DeliveryOK(outbox'[j], trying'[j], crashes)
    <3>1. CASE j \notin Startable(outbox, trying)
      <4>1. outbox'[j] = outbox[j] /\ trying'[j] = trying[j] BY <1>4, <3>1 DEF Kick
      <4> QED BY <4>1
    <3>2. CASE j \in Startable(outbox, trying)
      <4>1. outbox[j].state = "pending" /\ trying[j] = {} BY <3>2 DEF Startable, Pending
      <4>2. outbox'[j] = BeforeTry(outbox[j]) BY <1>4, <3>2 DEF Kick
      <4>3. trying'[j] = IF revoked THEN {} ELSE {outbox'[j].tries}
        BY <1>4, <3>2, <4>1 DEF Kick
      <4>4. /\ outbox[j] \in Deliveries /\ outbox[j].tries \in Nat
            /\ outbox[j].tries + 1 <= MaxTries + crashes /\ outbox[j].why = "none"
        BY <1>0, <4>1 DEF DeliveryOK, Deliveries
      <4>5. outbox[j].tries + 1 \in 0..(MaxTries + MaxCrashes) BY <1>0, <4>4
      <4>6. outbox'[j] \in Deliveries
        <5>1. CASE revoked BY <5>1, <4>2, <4>4, <4>5 DEF BeforeTry, Deliveries, Whys
        <5>2. CASE ~revoked BY <5>2, <4>2, <4>4, <4>5 DEF BeforeTry, Deliveries, Whys
        <5> QED BY <5>1, <5>2
      <4>7. /\ outbox'[j].tries = outbox[j].tries + 1 /\ ~outbox'[j].due
            /\ outbox'[j].state = IF revoked THEN "failed" ELSE "pending"
            /\ outbox'[j].why = IF revoked THEN "secret" ELSE "none"
        BY <4>1, <4>2, <4>4 DEF BeforeTry, Deliveries
      <4> QED BY <1>0, <4>3, <4>4, <4>5, <4>6, <4>7 DEF DeliveryOK
    <3> QED BY <3>1, <3>2
  <2> QED BY <1>4, <2>1, <2>2
<1>5. ASSUME NEW j \in Jobs, Due(j) PROVE OutboxOK'
  <2>1. /\ outbox[j].state = "pending" /\ outbox' = [outbox EXCEPT ![j] = [outbox[j] EXCEPT !.due = TRUE]]
        /\ UNCHANGED <<trying, crashes>>
    BY <1>5 DEF Due
  <2>2. outbox' = [i \in Jobs |-> outbox'[i]] BY <2>1
  <2>3. ASSUME NEW i \in Jobs PROVE DeliveryOK(outbox'[i], trying[i], crashes)
    <3>1. CASE i # j BY <2>1, <3>1
    <3>2. CASE i = j
      <4>1. outbox'[i] = [outbox[j] EXCEPT !.due = TRUE] BY <2>1, <3>2
      <4>2. DeliveryOK(outbox[j], trying[j], crashes) /\ outbox[j].state = "pending"
        BY <1>0, <2>1
      <4>3. outbox[j] \in Deliveries BY <4>2 DEF DeliveryOK
      <4>4. /\ outbox'[i] \in Deliveries /\ outbox'[i].state = "pending"
            /\ outbox'[i].tries = outbox[j].tries /\ outbox'[i].why = outbox[j].why
        BY <4>1, <4>2, <4>3 DEF Deliveries
      <4> QED BY <4>2, <4>4, <3>2 DEF DeliveryOK
    <3> QED BY <3>1, <3>2
  <2> QED BY <2>1, <2>2, <2>3
<1>6. ASSUME NEW j \in Jobs, NEW n \in trying[j], NEW answer \in Answers, Answer(j, n, answer)
      PROVE  OutboxOK'
  <2> DEFINE recorded == Recorded(outbox, j, AfterTry(outbox[j], n, answer))
  <2>1. n = outbox[j].tries /\ n \in 1..(MaxTries + MaxCrashes) /\ trying[j] = {n}
    BY DEF DeliveryOK
  <2>2. \A i \in Jobs : trying'[i] = IF i = j THEN {} ELSE trying[i] BY <2>1, <1>6 DEF Answer
  <2>3. ASSUME NEW i \in Jobs PROVE DeliveryOK(recorded[i], trying'[i], crashes)
    <3>1. CASE i # j \/ outbox[j].state # "pending"
      <4>1. recorded[i] = outbox[i] BY <3>1 DEF Recorded
      <4> QED BY <4>1, <2>2, <3>1 DEF DeliveryOK
    <3>2. CASE i = j /\ outbox[j].state = "pending"
      <4>1. recorded[i] = AfterTry(outbox[j], n, answer) BY <3>2 DEF Recorded
      <4>2. trying'[i] = {} BY <2>2, <3>2
      <4> HIDE DEF recorded
      <4>3. outbox[j] \in Deliveries /\ outbox[j].why = "none" /\ n <= MaxTries + crashes
        BY <2>1, <3>2 DEF DeliveryOK
      <4>4. n \in 0..(MaxTries + MaxCrashes) BY <2>1
      <4> DEFINE Closes(state, why) ==
                   /\ recorded[i] \in Deliveries /\ recorded[i].state = state
                   /\ recorded[i].tries = n /\ ~recorded[i].due /\ recorded[i].why = why
      <4>5. CASE answer \in {"taken", "gone", "refused"}
        <5>1. \E state \in {"delivered", "disabled", "refused"} :
                recorded[i] = [outbox[j] EXCEPT !.tries = n, !.due = FALSE, !.state = state]
          BY <4>1, <4>5 DEF AfterTry
        <5>2. \E state \in {"delivered", "disabled", "refused"} : Closes(state, "none")
          BY <5>1, <4>3, <4>4 DEF Deliveries
        <5> QED BY <5>2, <4>2, <4>3, <3>2 DEF DeliveryOK
      <4>6. CASE answer = "failed" /\ n < MaxTries
        <5>1. n < MaxTries + crashes BY <1>0, <2>1, <4>6
        <5>2. recorded[i] = [outbox[j] EXCEPT !.tries = n, !.due = FALSE]
          BY <4>1, <4>6 DEF AfterTry
        <5>3. Closes("pending", "none") BY <5>2, <4>3, <4>4, <3>2 DEF Deliveries
        <5> QED BY <5>1, <5>3, <4>2, <4>3 DEF DeliveryOK
      <4>7. CASE answer = "failed" /\ n >= MaxTries
        <5>1. recorded[i] = [outbox[j] EXCEPT !.tries = n, !.due = FALSE, !.state = "failed",
                                              !.why = "tries"]
          BY <4>1, <4>7, <2>1 DEF AfterTry
        <5>2. Closes("failed", "tries") BY <5>1, <4>3, <4>4 DEF Deliveries, Whys
        <5> QED BY <5>2, <4>2, <4>3, <4>7 DEF DeliveryOK
      <4> QED BY <2>1, <4>5, <4>6, <4>7 DEF Answers
    <3> QED BY <3>1, <3>2
  <2>4. \A i \in Jobs :
          \/ outbox'[i] = recorded[i]
          \/ /\ recorded[i].state = "pending"
             /\ outbox'[i] = [recorded[i] EXCEPT !.state = "disabled", !.due = FALSE]
    BY <1>6 DEF Answer, Disabled, Pending
  <2>5. recorded = [i \in Jobs |-> recorded[i]] BY DEF Recorded
  <2>6. outbox' = [i \in Jobs |-> outbox'[i]] BY <1>6, <2>5 DEF Answer, Disabled
  <2>7. trying' = [i \in Jobs |-> trying'[i]] /\ crashes' = crashes BY <1>6 DEF Answer
  <2> HIDE DEF recorded
  <2>8. ASSUME NEW i \in Jobs PROVE DeliveryOK(outbox'[i], trying'[i], crashes)
    <3>1. CASE outbox'[i] = recorded[i] BY <3>1, <2>3
    <3>2. CASE /\ recorded[i].state = "pending"
               /\ outbox'[i] = [recorded[i] EXCEPT !.state = "disabled", !.due = FALSE]
      <4>1. DeliveryOK(recorded[i], trying'[i], crashes) BY <2>3
      <4>2. /\ outbox'[i] \in Deliveries /\ outbox'[i].state = "disabled" /\ ~outbox'[i].due
            /\ outbox'[i].tries = recorded[i].tries /\ outbox'[i].why = recorded[i].why
        BY <3>2, <4>1 DEF DeliveryOK, Deliveries
      <4> QED BY <3>2, <4>1, <4>2 DEF DeliveryOK
    <3> QED BY <2>4, <3>1, <3>2
  <2> QED BY <2>6, <2>7, <2>8
<1>7. CASE crashes < MaxCrashes /\ crashes' = crashes + 1 /\ DelivererDies
  BY <1>7 DEF DelivererDies, DeliveryOK, Deliveries
<1> QED BY <1>1, <1>2, <1>3, <1>4, <1>5, <1>6, <1>7 DEF OutboxMoves

(* A delivery that is closed is written by no step.                          *)
LEMMA ClosedStep ==
  ASSUME OutboxOK, NotToldYet, OutboxMoves, NEW j \in Jobs, Closed(outbox[j])
  PROVE  outbox'[j] = outbox[j]
<1> USE DEF OutboxOK, Closed
<1>1. CASE UNCHANGED <<outbox, trying, crashes>> BY <1>1
<1>2. ASSUME NEW S \in SUBSET {i \in Jobs : row[i].status \in Open}, outbox' = Announced(outbox, S)
      PROVE  outbox'[j] = outbox[j]
  <2>1. j \notin S BY DEF NotToldYet, NoDelivery
  <2> QED BY <1>2, <2>1 DEF Announced
<1>3. ASSUME NEW S \in SUBSET Jobs, outbox' = Withdrawn(outbox, S) PROVE outbox'[j] = outbox[j]
  BY <1>3 DEF Withdrawn, Pending
<1>4. CASE Kick(outbox) BY <1>4 DEF Kick, Startable, Pending
<1>5. ASSUME NEW i \in Jobs, Due(i) PROVE outbox'[j] = outbox[j] BY <1>5 DEF Due
<1>6. ASSUME NEW i \in Jobs, NEW n \in trying[i], NEW answer \in Answers, Answer(i, n, answer)
      PROVE  outbox'[j] = outbox[j]
  BY <1>6 DEF Answer, Recorded, Disabled, Pending
<1>7. CASE DelivererDies BY <1>7 DEF DelivererDies
<1> QED BY <1>1, <1>2, <1>3, <1>4, <1>5, <1>6, <1>7 DEF OutboxMoves

(* A transaction that ends jobs announces only jobs that were open.          *)
LEMMA FinishAnnounces ==
  ASSUME NEW table, NEW S \in SUBSET Jobs, NEW status, Finish(table, S, status),
         \A j \in S : table[j].status \in Open => row[j].status \in Open
  PROVE  \E X \in SUBSET {j \in Jobs : row[j].status \in Open} : outbox' = Announced(outbox, X)
<1> DEFINE X == {j \in Finishable(table, S, status) : table[j].kind.tells = "callback"}
<1>1. X \in SUBSET {j \in Jobs : row[j].status \in Open} BY DEF Finishable, Open
<1>2. outbox' = Announced(outbox, X) BY DEF Finish
<1> QED BY <1>1, <1>2

-----------------------------------------------------------------------------
(* The table of jobs.                                                        *)

(* The same job, of which the store may have changed where it stands: its    *)
(* status, its route, the remote it is on.                                   *)
Edits(new, old) ==
  \/ new = old
  \/ /\ new \in JobRows /\ old \in JobRows
     /\ new.kind = old.kind /\ new.starts = old.starts
     /\ new.route \in {old.route, "local"}

(* What the store's statements make of one row is a row of the same job.     *)
LEMMA RowEdits ==
  ASSUME NEW r \in JobRows
  PROVE  /\ \A s \in Open \cup Over :
              LET n == [r EXCEPT !.status = s]
              IN n \in JobRows /\ Edits(n, r) /\ n.status = s
         /\ \A x \in RemoteSet \cup {Nowhere} :
              LET n == [r EXCEPT !.remote = x]
              IN n \in JobRows /\ Edits(n, r) /\ n.status = r.status
         /\ LET n == [r EXCEPT !.route = "local"]
            IN n \in JobRows /\ Edits(n, r) /\ n.status = r.status
         /\ r.starts < MaxStarts =>
              LET n == [r EXCEPT !.status = "running", !.starts = @ + 1]
              IN n \in JobRows /\ n.status = "running" /\ n.kind = r.kind /\ n.route = r.route
<1> USE DEF JobRows, Edits, Open, Over
<1>1. ASSUME NEW s \in Open \cup Over
      PROVE  LET n == [r EXCEPT !.status = s]
             IN n \in JobRows /\ Edits(n, r) /\ n.status = s
  OBVIOUS
<1>2. ASSUME NEW x \in RemoteSet \cup {Nowhere}
      PROVE  LET n == [r EXCEPT !.remote = x]
             IN n \in JobRows /\ Edits(n, r) /\ n.status = r.status
  OBVIOUS
<1>3. LET n == [r EXCEPT !.route = "local"]
      IN n \in JobRows /\ Edits(n, r) /\ n.status = r.status
  OBVIOUS
<1>4. ASSUME r.starts < MaxStarts
      PROVE  LET n == [r EXCEPT !.status = "running", !.starts = @ + 1]
             IN n \in JobRows /\ n.status = "running" /\ n.kind = r.kind /\ n.route = r.route
  <2>1. r.starts + 1 \in 0..MaxStarts BY <1>4
  <2> QED BY <2>1
<1> QED BY <1>1, <1>2, <1>3, <1>4

(* What a statement leaves of a table: its type, and each job.               *)
LEMMA RequeuedTable ==
  ASSUME NEW table \in [Jobs -> Rows], NEW S
  PROVE  /\ Requeued(table, S) \in [Jobs -> Rows]
         /\ \A j \in Jobs :
              LET q == Requeued(table, S)[j]
              IN /\ Edits(q, table[j])
                 /\ q.status = IF j \in S /\ table[j].status = "running" THEN "queued"
                               ELSE table[j].status
                 /\ ~(j \in S /\ table[j].status = "running") => q = table[j]
<1>1. ASSUME NEW j \in Jobs, j \in S /\ table[j].status = "running"
      PROVE  LET q == [table[j] EXCEPT !.status = "queued"]
             IN q \in Rows /\ Edits(q, table[j]) /\ q.status = "queued"
  <2>1. table[j] \in JobRows BY <1>1, JobRow DEF Open
  <2> QED BY <2>1, RowEdits DEF Rows, Open
<1> QED BY <1>1 DEF Requeued, Edits

(* SetRemote writes one row, and not its status.                             *)
LEMMA SetRemoteTable ==
  ASSUME NEW table \in [Jobs -> Rows], NEW j \in Jobs, table[j].status \in Open \cup Over,
         NEW x \in RemoteSet \cup {Nowhere}
  PROVE  /\ SetRemote(table, j, x) \in [Jobs -> Rows]
         /\ \A i \in Jobs :
              LET q == SetRemote(table, j, x)[i]
              IN Edits(q, table[i]) /\ q.status = table[i].status /\ (i # j => q = table[i])
<1>1. table[j] \in JobRows BY JobRow
<1>2. [table[j] EXCEPT !.remote = x] \in Rows BY <1>1, RowEdits DEF Rows
<1>3. SetRemote(table, j, x) = [table EXCEPT ![j] = [table[j] EXCEPT !.remote = x]] BY DEF SetRemote
<1>4. \A i \in Jobs : i # j => SetRemote(table, j, x)[i] = table[i] BY <1>3
<1>5. SetRemote(table, j, x)[j] = [table[j] EXCEPT !.remote = x] BY <1>3
<1>6. SetRemote(table, j, x) \in [Jobs -> Rows] BY <1>2, <1>3
<1>7. ASSUME NEW i \in Jobs
      PROVE  LET q == SetRemote(table, j, x)[i]
             IN Edits(q, table[i]) /\ q.status = table[i].status /\ (i # j => q = table[i])
  <2>1. CASE i = j
    <3>1. LET n == [table[j] EXCEPT !.remote = x]
          IN n \in JobRows /\ Edits(n, table[j]) /\ n.status = table[j].status
      BY <1>1, RowEdits
    <3> QED BY <2>1, <1>5, <3>1
  <2>2. CASE i # j BY <2>2, <1>4 DEF Edits
  <2> QED BY <2>1, <2>2
<1> QED BY <1>6, <1>7

(* SetRoute writes one row, and not its status.                              *)
LEMMA SetRouteTable ==
  ASSUME NEW table \in [Jobs -> Rows], NEW j \in Jobs, table[j].status \in Open \cup Over
  PROVE  /\ SetRoute(table, j) \in [Jobs -> Rows]
         /\ \A i \in Jobs :
              LET q == SetRoute(table, j)[i]
              IN Edits(q, table[i]) /\ q.status = table[i].status /\ (i # j => q = table[i])
<1>1. table[j] \in JobRows BY JobRow
<1>0. LET n == [table[j] EXCEPT !.route = "local"]
      IN n \in JobRows /\ Edits(n, table[j]) /\ n.status = table[j].status
  BY <1>1, RowEdits
<1>2. [table[j] EXCEPT !.route = "local"] \in Rows BY <1>0 DEF Rows
<1>3. SetRoute(table, j) = [table EXCEPT ![j] = [table[j] EXCEPT !.route = "local"]] BY DEF SetRoute
<1>4. \A i \in Jobs : i # j => SetRoute(table, j)[i] = table[i] BY <1>3
<1>5. SetRoute(table, j)[j] = [table[j] EXCEPT !.route = "local"] BY <1>3
<1>6. SetRoute(table, j) \in [Jobs -> Rows] BY <1>2, <1>3
<1>7. ASSUME NEW i \in Jobs
      PROVE  LET q == SetRoute(table, j)[i]
             IN Edits(q, table[i]) /\ q.status = table[i].status /\ (i # j => q = table[i])
  <2>1. CASE i = j BY <2>1, <1>0, <1>5
  <2>2. CASE i # j BY <2>2, <1>4 DEF Edits
  <2> QED BY <2>1, <2>2
<1> QED BY <1>6, <1>7

(* Claimed makes one job run, and counts no start.                           *)
LEMMA ClaimedTable ==
  ASSUME NEW table \in [Jobs -> Rows], NEW j \in Jobs, table[j].status \in Open \cup Over
  PROVE  /\ Claimed(table, j) \in [Jobs -> Rows]
         /\ \A i \in Jobs :
              LET q == Claimed(table, j)[i]
              IN /\ Edits(q, table[i])
                 /\ q.status = IF i = j THEN "running" ELSE table[i].status
                 /\ i # j => q = table[i]
<1>1. table[j] \in JobRows BY JobRow
<1>2. [table[j] EXCEPT !.status = "running"] \in Rows BY <1>1, RowEdits DEF Rows, Open
<1>3. Claimed(table, j) = [table EXCEPT ![j] = [table[j] EXCEPT !.status = "running"]]
  BY DEF Claimed
<1>4. \A i \in Jobs : i # j => Claimed(table, j)[i] = table[i] BY <1>3
<1>5. Claimed(table, j)[j] = [table[j] EXCEPT !.status = "running"] BY <1>3
<1>6. Claimed(table, j) \in [Jobs -> Rows] BY <1>2, <1>3
<1>7. ASSUME NEW i \in Jobs
      PROVE  LET q == Claimed(table, j)[i]
             IN /\ Edits(q, table[i])
                /\ q.status = IF i = j THEN "running" ELSE table[i].status
                /\ i # j => q = table[i]
  <2>1. CASE i = j
    <3>1. LET n == [table[j] EXCEPT !.status = "running"]
          IN n \in JobRows /\ Edits(n, table[j]) /\ n.status = "running"
      BY <1>1, RowEdits DEF Open
    <3> QED BY <2>1, <1>5, <3>1
  <2>2. CASE i # j BY <2>2, <1>4 DEF Edits
  <2> QED BY <2>1, <2>2
<1> QED BY <1>6, <1>7

(* MarkedRunning makes one job run and counts a start, while it has one      *)
(* left.                                                                     *)
LEMMA MarkedTable ==
  ASSUME NEW table \in [Jobs -> Rows], NEW j \in Jobs, table[j].status \in Open \cup Over,
         table[j].starts < MaxStarts
  PROVE  /\ MarkedRunning(table, j) \in [Jobs -> Rows]
         /\ \A i \in Jobs : i # j => MarkedRunning(table, j)[i] = table[i]
         /\ LET q == MarkedRunning(table, j)[j]
            IN /\ q \in JobRows /\ q.status = "running" /\ q.kind = table[j].kind
               /\ q.route = table[j].route
<1>1. table[j] \in JobRows BY JobRow
<1>2. MarkedRunning(table, j) = [table EXCEPT ![j] = [table[j] EXCEPT !.status = "running",
                                                                     !.starts = @ + 1]]
  BY DEF MarkedRunning
<1>0. LET n == [table[j] EXCEPT !.status = "running", !.starts = @ + 1]
      IN /\ n \in JobRows /\ n.status = "running" /\ n.kind = table[j].kind
         /\ n.route = table[j].route
  BY <1>1, RowEdits
<1>3. [table[j] EXCEPT !.status = "running", !.starts = @ + 1] \in Rows BY <1>0 DEF Rows
<1>4. \A i \in Jobs : i # j => MarkedRunning(table, j)[i] = table[i] BY <1>2
<1>5. MarkedRunning(table, j)[j] = [table[j] EXCEPT !.status = "running", !.starts = @ + 1]
  BY <1>2
<1>6. MarkedRunning(table, j) \in [Jobs -> Rows] BY <1>2, <1>3
<1> QED BY <1>0, <1>4, <1>5, <1>6

(* Finish gives the jobs that can end their status and leaves the others.    *)
LEMMA FinishTable ==
  ASSUME NEW table \in [Jobs -> Rows], NEW S \in SUBSET Jobs, NEW status \in Over,
         Finish(table, S, status)
  PROVE  /\ row' \in [Jobs -> Rows]
         /\ \A j \in Jobs :
              IF j \in Finishable(table, S, status)
              THEN table[j].status \in Open /\ Edits(row'[j], table[j]) /\ row'[j].status = status
              ELSE row'[j] = table[j]
<1>1. ASSUME NEW j \in Jobs, j \in Finishable(table, S, status)
      PROVE  /\ table[j].status \in Open
             /\ LET q == [table[j] EXCEPT !.status = status]
                IN q \in Rows /\ Edits(q, table[j]) /\ q.status = status
  <2>1. table[j].status \in Open BY <1>1 DEF Finishable, Open
  <2>2. table[j] \in JobRows BY <2>1, JobRow
  <2> QED BY <2>1, <2>2, RowEdits DEF Rows
<1> QED BY <1>1 DEF Finish

-----------------------------------------------------------------------------
(* What becomes of a job.                                                    *)

(* A delivery was written for the job.                                       *)
Told(j) == outbox[j].state # "none"

(* The job is untouched, or moves between queued and running.                *)
Stays(j) ==
  /\ feed'[j] = feed[j] /\ Told(j)' = Told(j)
  /\ \/ row'[j] = row[j]
     \/ /\ row[j].status \in Open /\ row'[j].status \in Open
        /\ row'[j].kind = row[j].kind

(* The job ends, and its end is written in the same step.                    *)
Ends(j) ==
  /\ row[j].status \in Open /\ row'[j].status \in Over /\ row'[j].kind = row[j].kind
  /\ feed'[j] = IF row[j].kind.tells # "nothing" THEN Append(feed[j], EventOf(row'[j].status))
                ELSE feed[j]
  /\ Told(j)' = (Told(j) \/ row[j].kind.tells = "callback")

(* The job is deleted.                                                       *)
Leaves(j) ==
  /\ row[j].status \in Open \cup Over /\ row'[j] = GoneRow
  /\ feed'[j] = IF row[j].status \in Open /\ row[j].kind.tells # "nothing"
                THEN Append(feed[j], "cancelled") ELSE feed[j]
  /\ Told(j)' = Told(j)

(* The job is submitted.                                                     *)
Comes(j) ==
  /\ row[j].status = "none" /\ row'[j].status = "queued" /\ row'[j] \in JobRows
  /\ feed'[j] = feed[j] /\ Told(j)' = Told(j)

(* What any step makes of the jobs: some end, some are deleted, or one       *)
(* comes.                                                                    *)
StoreMoves ==
  \/ \A j \in Jobs : Stays(j) \/ Ends(j)
  \/ \A j \in Jobs : Stays(j) \/ Leaves(j)
  \/ \E j \in Jobs : Comes(j) /\ \A i \in Jobs \ {j} : Stays(i)

(* Finish ends jobs, or leaves them as they are.                             *)
LEMMA FinishMoves ==
  ASSUME row \in [Jobs -> Rows], NEW table \in [Jobs -> Rows], NEW S \in SUBSET Jobs,
         NEW status \in Over, Finish(table, S, status),
         \A j \in Jobs : \/ table[j] = row[j]
                         \/ /\ table[j].status \in Open /\ row[j].status \in Open
                            /\ table[j].kind = row[j].kind
  PROVE  row' \in [Jobs -> Rows] /\ \A j \in Jobs : Stays(j) \/ Ends(j)
<1> DEFINE ends == Finishable(table, S, status)
<1>1. /\ row' \in [Jobs -> Rows]
      /\ \A j \in Jobs :
           IF j \in ends
           THEN table[j].status \in Open /\ Edits(row'[j], table[j]) /\ row'[j].status = status
           ELSE row'[j] = table[j]
  BY FinishTable
<1>2. ASSUME NEW j \in Jobs, j \in ends PROVE Ends(j)
  <2>1. table[j].status \in Open /\ Edits(row'[j], table[j]) /\ row'[j].status = status
    BY <1>1, <1>2
  <2>2. row[j].status \in Open /\ table[j].kind = row[j].kind BY <2>1
  <2>3. row'[j].kind = row[j].kind BY <2>1, <2>2 DEF Edits
  <2>4. feed'[j] = IF row[j].kind.tells # "nothing" THEN Append(feed[j], EventOf(status))
                   ELSE feed[j]
    BY <1>2, <2>2 DEF Finish
  <2>5. outbox'[j] = IF table[j].kind.tells = "callback"
                     THEN [NoDelivery EXCEPT !.state = "pending", !.due = TRUE] ELSE outbox[j]
    BY <1>2 DEF Finish, Announced
  <2>6. Told(j)' = (Told(j) \/ row[j].kind.tells = "callback")
    BY <2>2, <2>5 DEF Told, NoDelivery
  <2> QED BY <2>1, <2>2, <2>3, <2>4, <2>6 DEF Ends
<1>3. ASSUME NEW j \in Jobs, j \notin ends PROVE Stays(j)
  <2>1. row'[j] = table[j] BY <1>1, <1>3
  <2>2. feed'[j] = feed[j] /\ outbox'[j] = outbox[j] BY <1>3 DEF Finish, Announced
  <2> QED BY <2>1, <2>2 DEF Stays, Told
<1> QED BY <1>1, <1>2, <1>3

(* RemoveJobs deletes the jobs it is given and no other.                     *)
LEMMA RemoveMoves ==
  ASSUME row \in [Jobs -> Rows], outbox \in [Jobs -> Deliveries],
         NEW S \in SUBSET Held(row), RemoveJobs(S)
  PROVE  row' \in [Jobs -> Rows] /\ \A j \in Jobs : Stays(j) \/ Leaves(j)
<1>1. row' \in [Jobs -> Rows] BY DEF RemoveJobs, Rows
<1>2. ASSUME NEW j \in Jobs PROVE Told(j)' = Told(j)
  <2>1. CASE j \in S /\ outbox[j].state = "pending"
    <3>1. outbox'[j] = [outbox[j] EXCEPT !.state = "failed", !.due = FALSE, !.why = "deleted"]
      BY <2>1 DEF RemoveJobs, Withdrawn, Pending
    <3>2. outbox'[j].state = "failed" BY <3>1 DEF Deliveries
    <3> QED BY <2>1, <3>2 DEF Told
  <2>2. CASE ~(j \in S /\ outbox[j].state = "pending")
    <3>1. outbox'[j] = outbox[j] BY <2>2 DEF RemoveJobs, Withdrawn, Pending
    <3> QED BY <3>1 DEF Told
  <2> QED BY <2>1, <2>2
<1>3. ASSUME NEW j \in Jobs, j \in S PROVE Leaves(j)
  BY <1>2, <1>3 DEF RemoveJobs, Leaves, Held, In
<1>4. ASSUME NEW j \in Jobs, j \notin S PROVE Stays(j)
  BY <1>2, <1>4 DEF RemoveJobs, Stays
<1> QED BY <1>1, <1>3, <1>4

(* Neither a kick nor an answer writes a delivery anew or takes one away.    *)
LEMMA KickTells ==
  ASSUME outbox \in [Jobs -> Deliveries], Kick(outbox)
  PROVE  \A j \in Jobs : Told(j)' = Told(j)
<1> TAKE j \in Jobs
<1>1. CASE j \in Startable(outbox, trying)
  <2>1. outbox'[j] = BeforeTry(outbox[j]) /\ outbox[j].state = "pending"
    BY <1>1 DEF Kick, Startable, Pending
  <2>2. outbox'[j].state # "none" BY <2>1 DEF BeforeTry, Deliveries
  <2> QED BY <2>1, <2>2 DEF Told
<1>2. CASE j \notin Startable(outbox, trying)
  <2>1. outbox'[j] = outbox[j] BY <1>2 DEF Kick
  <2> QED BY <2>1 DEF Told
<1> QED BY <1>1, <1>2

(* An answer is to a delivery that was written.                              *)
LEMMA AnswerTells ==
  ASSUME outbox \in [Jobs -> Deliveries], NEW j \in Jobs, NEW n \in trying[j],
         trying[j] \in SUBSET (1..(MaxTries + MaxCrashes)), NEW answer \in Answers, Answer(j, n, answer)
  PROVE  \A i \in Jobs : Told(i)' = Told(i)
<1> DEFINE recorded == Recorded(outbox, j, AfterTry(outbox[j], n, answer))
<1> TAKE i \in Jobs
<1>1. \/ recorded[i] = outbox[i]
      \/ outbox[i].state = "pending" /\ i = j /\ recorded[i] = AfterTry(outbox[j], n, answer)
  BY DEF Recorded
<1>2. \/ outbox'[i] = recorded[i]
      \/ /\ recorded[i].state = "pending"
         /\ outbox'[i] = [recorded[i] EXCEPT !.state = "disabled", !.due = FALSE]
  BY DEF Answer, Disabled, Pending
<1> HIDE DEF recorded
<1>3. ASSUME outbox[j].state = "pending"
      PROVE  /\ AfterTry(outbox[j], n, answer) \in Deliveries
             /\ AfterTry(outbox[j], n, answer).state # "none"
  <2>0. n \in 0..(MaxTries + MaxCrashes) /\ outbox[j] \in Deliveries OBVIOUS
  <2>1. CASE answer \in {"taken", "gone", "refused"}
    <3>1. \E state \in {"delivered", "disabled", "refused"} :
            AfterTry(outbox[j], n, answer)
              = [outbox[j] EXCEPT !.tries = n, !.due = FALSE, !.state = state]
      BY <2>1 DEF AfterTry
    <3> QED BY <3>1, <2>0 DEF Deliveries
  <2>2. CASE answer = "failed" /\ n < MaxTries
    <3>1. AfterTry(outbox[j], n, answer) = [outbox[j] EXCEPT !.tries = n, !.due = FALSE]
      BY <2>2 DEF AfterTry
    <3> QED BY <3>1, <2>0, <1>3 DEF Deliveries
  <2>3. CASE answer = "failed" /\ ~(n < MaxTries)
    <3>1. AfterTry(outbox[j], n, answer)
            = [outbox[j] EXCEPT !.tries = n, !.due = FALSE, !.state = "failed", !.why = "tries"]
      BY <2>3 DEF AfterTry
    <3>2. AfterTry(outbox[j], n, answer)
            = [state |-> "failed", tries |-> n, due |-> FALSE, why |-> "tries"]
      BY <3>1, <2>0 DEF Deliveries
    <3> QED BY <3>2, <2>0 DEF Deliveries, Whys
  <2> QED BY <2>1, <2>2, <2>3 DEF Answers
<1>4. recorded[i] \in Deliveries /\ (recorded[i].state # "none" <=> outbox[i].state # "none")
  BY <1>1, <1>3
<1>5. outbox'[i].state # "none" <=> recorded[i].state # "none"
  BY <1>2, <1>4 DEF Deliveries
<1> QED BY <1>4, <1>5 DEF Told

-----------------------------------------------------------------------------
(* What each action makes of the table.                                      *)

(* The jobs of S are now in the status, and no job is another one.           *)
Becomes(S, status) ==
  /\ row' \in [Jobs -> Rows]
  /\ S \subseteq In(row, Open)
  /\ \A j \in Jobs :
       /\ row'[j].status = IF j \in S THEN status ELSE row[j].status
       /\ \/ row'[j] = row[j]
          \/ /\ row'[j] \in JobRows /\ row[j] \in JobRows /\ row'[j].kind = row[j].kind
             /\ row'[j].route \in {row[j].route, "local"}
             /\ row[j].status \in Open

(* No start is counted.                                                      *)
SameStarts == \A j \in Jobs : row'[j] = row[j] \/ row'[j].starts = row[j].starts

(* A table in which the store has edited open jobs and moved none.           *)
Edited(table) ==
  /\ table \in [Jobs -> Rows]
  /\ \A j \in Jobs : /\ Edits(table[j], row[j]) /\ table[j].status = row[j].status
                     /\ table[j] = row[j] \/ row[j].status \in Open

(* What the invariant says of the tables and of who runs what.               *)
LEMMA InvFacts ==
  ASSUME JobInv
  PROVE  /\ row \in [Jobs -> Rows] /\ outbox \in [Jobs -> Deliveries]
         /\ trying \in [Jobs -> SUBSET (1..(MaxTries + MaxCrashes))]
         /\ sent \in [Jobs -> [to : RemoteSet, phase : Phases] \cup {NotSent}]
         /\ feed \in [Jobs -> Seq({"completed", "failed", "cancelled"})]
         /\ up => Running = InSlots \cup lane \cup OnRemotes
BY DEF JobInv, TypeOK, OutboxTypeOK, StoreTypeOK, HeldInv, HeldOnce

(* A job that is out on a remote is running, and has a start left.           *)
LEMMA SentRuns ==
  ASSUME JobInv, up, NEW j \in OnRemotes
  PROVE  /\ j \in Jobs /\ row[j].status = "running" /\ row[j] \in JobRows
         /\ sent[j].to \in RemoteSet /\ row[j].starts < MaxStarts
<1>1. j \in Jobs /\ j \in Running BY InvFacts DEF OnRemotes
<1>2. row[j].status = "running" BY <1>1 DEF Running, In
<1>3. row[j] \in JobRows BY <1>1, <1>2, InvFacts, JobRow DEF Open
<1>4. sent[j].to \in RemoteSet BY <1>1, InvFacts DEF OnRemotes, NotSent
<1>5. row[j].starts < MaxStarts BY <1>1 DEF JobInv, StartsInv
<1> QED BY <1>1, <1>2, <1>3, <1>4, <1>5

(* pump() picks a job that is ready.                                         *)
LEMMA NextIn ==
  ASSUME row \in [Jobs -> Rows], QueueReady # {}
  PROVE  NextRunnable \in QueueReady /\ First(QueueReady) \in QueueReady
<1>1. QueueReady \in SUBSET Held(row) BY DEF QueueReady, ForQueue, Queued, In, Held, Open
<1>2. First(QueueReady) \in QueueReady BY <1>1, FirstIn
<1>3. ASSUME WarmAfter(First(QueueReady)) # {}
      PROVE  Oldest(WarmAfter(First(QueueReady))) \in QueueReady
  <2>1. WarmAfter(First(QueueReady)) \in SUBSET Jobs BY DEF WarmAfter, QueueReady, ForQueue, Queued, In
  <2>2. Oldest(WarmAfter(First(QueueReady))) \in WarmAfter(First(QueueReady))
    BY <1>3, <2>1, OldestIn
  <2> QED BY <2>2 DEF WarmAfter
<1> QED BY <1>2, <1>3 DEF NextRunnable

(* dispatch() sends one queued job.                                          *)
LEMMA DispatchRow ==
  ASSUME JobInv, DispatchStep, Sendable # {}
  PROVE  First(Sendable) \in Sendable /\ Becomes({First(Sendable)}, "running") /\ SameStarts
<1> DEFINE j == First(Sendable)
<1>1. Sendable \in SUBSET Held(row) BY DEF Sendable, Queued, In, Held, Open
<1>2. j \in Sendable BY <1>1, InvFacts, FirstIn
<1>3. j \in Jobs /\ row[j].status = "queued" BY <1>2 DEF Sendable, Queued, In
<1>4. row' = Claimed(row, j) BY DEF DispatchStep
<1> HIDE DEF j
<1>5. /\ row' \in [Jobs -> Rows]
      /\ \A i \in Jobs :
           LET q == row'[i]
           IN /\ Edits(q, row[i])
              /\ q.status = IF i = j THEN "running" ELSE row[i].status
              /\ i # j => q = row[i]
  BY <1>3, <1>4, InvFacts, ClaimedTable DEF Open
<1>6. Becomes({j}, "running") /\ SameStarts
  BY <1>3, <1>5 DEF Becomes, SameStarts, Edits, In, Open
<1> QED BY <1>2, <1>6 DEF j

(* What dispatch() notes of the job it sends.                                *)
LEMMA DispatchSends ==
  ASSUME JobInv, DispatchStep, Sendable # {}
  PROVE  \E j \in Jobs, r \in RemoteSet, phase \in {"upload", "follow"} :
           /\ j = First(Sendable)
           /\ inFlight' = [inFlight EXCEPT ![r] = inFlight[r] + 1]
           /\ sent' = [sent EXCEPT ![j] = [to |-> r, phase |-> phase]]
           /\ held' = [held EXCEPT ![j] = "no"]
<1> DEFINE j == First(Sendable)
           r == RouteOf(j)
           phase == IF row[j].remote = r THEN "follow" ELSE "upload"
<1>1. j \in Jobs /\ r \in RemoteSet BY DispatchRow DEF Sendable, Queued, In
<1>2. phase \in {"upload", "follow"} OBVIOUS
<1>3. inFlight' = [inFlight EXCEPT ![r] = inFlight[r] + 1] BY DEF DispatchStep
<1>4. sent' = [sent EXCEPT ![j] = [to |-> r, phase |-> phase]] BY DEF DispatchStep
<1>5. held' = [held EXCEPT ![j] = "no"] BY DEF DispatchStep
<1> HIDE DEF r, phase
<1> QED BY <1>1, <1>2, <1>3, <1>4, <1>5

(* A queued job starts here.                                                 *)
LEMMA MarkedRow ==
  ASSUME JobInv, NEW j \in Queued, row' = MarkedRunning(row, j)
  PROVE  Becomes({j}, "running") /\ \A i \in Jobs \ {j} : row'[i] = row[i]
<1>1. j \in Jobs /\ row[j].status = "queued" BY DEF Queued, In
<1>2. row[j].starts < MaxStarts BY <1>1 DEF JobInv, StartsInv
<1>3. row[j] \in JobRows BY <1>1, InvFacts, JobRow DEF Open
<1>4. /\ row' \in [Jobs -> Rows]
      /\ \A i \in Jobs : i # j => row'[i] = row[i]
      /\ row'[j] \in JobRows /\ row'[j].status = "running" /\ row'[j].kind = row[j].kind
      /\ row'[j].route = row[j].route
  BY <1>1, <1>2, InvFacts, MarkedTable DEF Open
<1> QED BY <1>1, <1>3, <1>4 DEF Becomes, In, Open

(* A job starts in the lane.                                                 *)
LEMMA LaneRow ==
  ASSUME JobInv, StartInLane
  PROVE  /\ Oldest(LaneReady) \in LaneReady /\ Becomes({Oldest(LaneReady)}, "running")
         /\ \A i \in Jobs \ {Oldest(LaneReady)} : row'[i] = row[i]
<1>1. LaneReady # {} /\ LaneReady \in SUBSET Jobs /\ LaneReady \subseteq Queued
  BY DEF StartInLane, LaneReady, ForLane, Queued, In
<1>2. Oldest(LaneReady) \in LaneReady BY <1>1, OldestIn
<1>3. row' = MarkedRunning(row, Oldest(LaneReady)) BY DEF StartInLane
<1> QED BY <1>1, <1>2, <1>3, MarkedRow

(* A job starts in a place of the queue.                                     *)
LEMMA SlotRow ==
  ASSUME JobInv, StartInSlot
  PROVE  /\ NextRunnable \in QueueReady /\ Becomes({NextRunnable}, "running")
         /\ \A i \in Jobs \ {NextRunnable} : row'[i] = row[i]
<1>1. QueueReady # {} /\ QueueReady \subseteq Queued BY DEF StartInSlot, QueueReady, ForQueue
<1>2. NextRunnable \in QueueReady BY <1>1, InvFacts, NextIn
<1>3. row' = MarkedRunning(row, NextRunnable) BY DEF StartInSlot
<1> QED BY <1>1, <1>2, <1>3, MarkedRow

(* A job that was out on a remote waits again.                               *)
LEMMA BackInQueue ==
  ASSUME JobInv, up, NEW j \in OnRemotes, NEW table, Edited(table), row' = Requeued(table, {j})
  PROVE  Becomes({j}, "queued") /\ SameStarts
<1>1. j \in Jobs /\ row[j].status = "running" /\ row[j] \in JobRows BY SentRuns
<1>2. /\ row' \in [Jobs -> Rows]
      /\ \A i \in Jobs :
           LET q == row'[i]
           IN /\ Edits(q, table[i])
              /\ q.status = IF i \in {j} /\ table[i].status = "running" THEN "queued"
                            ELSE table[i].status
              /\ ~(i \in {j} /\ table[i].status = "running") => q = table[i]
  BY RequeuedTable DEF Edited
<1>3. ASSUME NEW i \in Jobs
      PROVE  /\ row'[i].status = IF i \in {j} THEN "queued" ELSE row[i].status
             /\ Edits(row'[i], row[i])
             /\ row'[i] = row[i] \/ row[i].status \in Open
  <2>1. table[i].status = row[i].status /\ Edits(table[i], row[i]) BY DEF Edited
  <2>2. Edits(row'[i], row[i]) BY <1>2, <2>1 DEF Edits
  <2>3. i # j => row'[i] = table[i] BY <1>2
  <2> QED BY <1>1, <1>2, <2>1, <2>2, <2>3 DEF Edited, Open
<1> QED BY <1>1, <1>2, <1>3 DEF Becomes, SameStarts, Edits, In, Open

(* SetRemote edits the row of a job that is out.                             *)
LEMMA SetRemoteEdits ==
  ASSUME JobInv, up, NEW j \in OnRemotes, NEW x \in RemoteSet \cup {Nowhere}
  PROVE  Edited(SetRemote(row, j, x)) /\ SetRemote(row, j, x)[j].status = "running"
<1>1. j \in Jobs /\ row[j].status = "running" BY SentRuns
<1>2. /\ SetRemote(row, j, x) \in [Jobs -> Rows]
      /\ \A i \in Jobs :
           LET q == SetRemote(row, j, x)[i]
           IN Edits(q, row[i]) /\ q.status = row[i].status /\ (i # j => q = row[i])
  BY <1>1, InvFacts, SetRemoteTable DEF Open
<1> QED BY <1>1, <1>2 DEF Edited, Open

(* SetRoute edits the row of a running job.                                  *)
LEMMA SetRouteEdits ==
  ASSUME NEW table, Edited(table), NEW j \in Jobs, table[j].status = "running"
  PROVE  Edited(SetRoute(table, j))
<1>1. /\ SetRoute(table, j) \in [Jobs -> Rows]
      /\ \A i \in Jobs :
           LET q == SetRoute(table, j)[i]
           IN Edits(q, table[i]) /\ q.status = table[i].status /\ (i # j => q = table[i])
  BY SetRouteTable DEF Edited, Open
<1>2. \A i \in Jobs : Edits(SetRoute(table, j)[i], row[i]) BY <1>1 DEF Edited, Edits
<1> QED BY <1>1, <1>2 DEF Edited, Open

(* Jobs that were edited first end like any other.                           *)
LEMMA FinishRow ==
  ASSUME JobInv, NEW table, Edited(table), NEW S \in SUBSET Jobs, NEW status \in Over,
         Finish(table, S, status)
  PROVE  /\ Becomes(Finishable(row, S, status), status) /\ SameStarts
         /\ Finishable(table, S, status) = Finishable(row, S, status)
         /\ \A j \in Jobs : Stays(j) \/ Ends(j)
<1>1. Finishable(table, S, status) = Finishable(row, S, status) BY DEF Finishable, Edited
<1>2. /\ row' \in [Jobs -> Rows]
      /\ \A j \in Jobs :
           IF j \in Finishable(table, S, status)
           THEN table[j].status \in Open /\ Edits(row'[j], table[j]) /\ row'[j].status = status
           ELSE row'[j] = table[j]
  BY FinishTable DEF Edited
<1>3. \A j \in Jobs : \/ table[j] = row[j]
                      \/ table[j] \in JobRows /\ row[j] \in JobRows /\ table[j].kind = row[j].kind
  BY DEF Edited, Edits
<1>4. ASSUME NEW j \in Jobs
      PROVE  /\ row'[j].status = IF j \in Finishable(row, S, status) THEN status
                                 ELSE row[j].status
             /\ Edits(row'[j], row[j])
             /\ row'[j] = row[j] \/ row[j].status \in Open
  BY <1>1, <1>2 DEF Edited, Edits
<1>5. Finishable(row, S, status) \subseteq In(row, Open)
  BY <1>1, <1>2 DEF Edited, In, Finishable
<1>6. Becomes(Finishable(row, S, status), status) /\ SameStarts
  BY <1>2, <1>4, <1>5 DEF Becomes, SameStarts, Edits
<1>7. \A j \in Jobs : Stays(j) \/ Ends(j)
  <2>1. \A j \in Jobs : \/ table[j] = row[j]
                       \/ /\ table[j].status \in Open /\ row[j].status \in Open
                          /\ table[j].kind = row[j].kind
    BY DEF Edited, Edits
  <2> QED BY <2>1, InvFacts, FinishMoves DEF Edited
<1> QED BY <1>1, <1>6, <1>7

(* What a start makes of the table, given the jobs that fail.                *)
Restarts(fails) ==
  /\ row' \in [Jobs -> Rows]
  /\ \A j \in Jobs :
       /\ Edits(row'[j], row[j])
       /\ row'[j].status = IF j \in fails THEN "failed"
                           ELSE IF row[j].status = "running" THEN "queued"
                           ELSE row[j].status
       /\ row'[j].status = "queued" => row'[j].starts < MaxStarts
       /\ Stays(j) \/ Ends(j)
  /\ uploads' = uploads \cap Named(row) /\ clean' = fails

(* start() requeues what was running, fails what may not run again, and      *)
(* deletes the uploads no row names.                                         *)
LEMMA StartRow == ASSUME JobInv, Start PROVE \E fails \in SUBSET In(row, Open) : Restarts(fails)
<1>1. PICK has \in Engines :
        LET stopped == {j \in Running : row[j].starts >= MaxStarts}
            queued  == Requeued(row, Running \ stopped)
            fails   == stopped \cup Stranded(queued, has, rstate, {})
        IN Finish(queued, fails, "failed") /\ uploads' = uploads \cap Named(queued) /\ clean' = fails
  BY DEF Start
<1> DEFINE stopped == {j \in Running : row[j].starts >= MaxStarts}
           queued  == Requeued(row, Running \ stopped)
           fails   == stopped \cup Stranded(queued, has, rstate, {})
<1>2. Finish(queued, fails, "failed") /\ uploads' = uploads \cap Named(queued) /\ clean' = fails
  BY <1>1
<1>3. stopped \subseteq Running /\ Running \subseteq Jobs BY DEF Running, In
<1>4. /\ queued \in [Jobs -> Rows]
      /\ \A j \in Jobs :
           LET q == queued[j]
           IN /\ Edits(q, row[j])
              /\ q.status = IF j \in Running \ stopped /\ row[j].status = "running" THEN "queued"
                            ELSE row[j].status
              /\ ~(j \in Running \ stopped /\ row[j].status = "running") => q = row[j]
  BY InvFacts, RequeuedTable
<1>5. \A j \in Jobs : j \in Running <=> row[j].status = "running" BY DEF Running, In
<1> HIDE DEF queued
<1>6. ASSUME NEW j \in Jobs
      PROVE  /\ Edits(queued[j], row[j])
             /\ queued[j].status = IF j \in Running \ stopped THEN "queued" ELSE row[j].status
             /\ j \notin Running \ stopped => queued[j] = row[j]
  BY <1>4, <1>5
<1>7. fails \in SUBSET Jobs /\ \A j \in fails : queued[j].status \in Open /\ row[j].status \in Open
  <2>1. \A j \in stopped : j \in Jobs /\ queued[j] = row[j] /\ row[j].status = "running"
    BY <1>3, <1>5, <1>6
  <2>2. \A j \in Stranded(queued, has, rstate, {}) : j \in Jobs /\ queued[j].status = "queued"
    BY DEF Stranded, In
  <2>3. \A j \in Stranded(queued, has, rstate, {}) : row[j].status \in Open
    BY <2>2, <1>5, <1>6 DEF Open
  <2> QED BY <2>1, <2>2, <2>3 DEF Open
<1>8. \A j \in Jobs \ fails : queued[j].status = "queued" => row[j].starts < MaxStarts
  <2> TAKE j \in Jobs \ fails
  <2> HAVE queued[j].status = "queued"
  <2>1. CASE j \in Running
    <3>1. j \notin stopped OBVIOUS
    <3>2. row[j] \in JobRows BY <2>1, <1>5, InvFacts, JobRow DEF Open
    <3>3. row[j].starts \in Nat BY <3>2 DEF JobRows
    <3> QED BY <2>1, <3>1, <3>3
  <2>2. CASE j \notin Running
    <3>1. j \in Queued BY <2>2, <1>6 DEF Queued, In
    <3> QED BY <3>1 DEF JobInv, StartsInv
  <2> QED BY <2>1, <2>2
<1> HIDE DEF fails
<1>9. Finishable(queued, fails, "failed") = fails BY <1>7 DEF Finishable
<1>10. /\ row' \in [Jobs -> Rows]
       /\ \A j \in Jobs :
            IF j \in fails
            THEN Edits(row'[j], queued[j]) /\ row'[j].status = "failed"
            ELSE row'[j] = queued[j]
  BY <1>2, <1>4, <1>7, <1>9, FinishTable DEF Over
<1>11. \A j \in Jobs : Stays(j) \/ Ends(j)
  <2>1. \A j \in Jobs : \/ queued[j] = row[j]
                        \/ /\ queued[j].status \in Open /\ row[j].status \in Open
                           /\ queued[j].kind = row[j].kind
    BY <1>5, <1>6 DEF Edits, Open
  <2> QED BY <1>2, <1>4, <1>7, <2>1, InvFacts, FinishMoves DEF Over
<1>12. Named(queued) = Named(row)
  <2>1. \A j \in Jobs : /\ queued[j].status \in Open <=> row[j].status \in Open
                        /\ queued[j].status \in Over => queued[j] = row[j]
                        /\ row[j].status \in Over => queued[j] = row[j]
    BY <1>5, <1>6 DEF Open, Over
  <2> QED BY <2>1 DEF Named, Held, In
<1>13. ASSUME NEW j \in Jobs
       PROVE  /\ Edits(row'[j], row[j])
              /\ row'[j].status = IF j \in fails THEN "failed"
                                  ELSE IF row[j].status = "running" THEN "queued"
                                  ELSE row[j].status
              /\ row'[j].status = "queued" => row'[j].starts < MaxStarts
  <2>1. CASE j \in fails BY <2>1, <1>6, <1>10 DEF Edits
  <2>2. CASE j \notin fails
    <3>1. row'[j] = queued[j] BY <2>2, <1>10
    <3>2. j \notin stopped BY <2>2 DEF fails
    <3>3. queued[j].status = IF row[j].status = "running" THEN "queued" ELSE row[j].status
      BY <3>2, <1>5, <1>6
    <3>4. Edits(queued[j], row[j]) BY <1>6
    <3>5. queued[j].starts = row[j].starts BY <3>4 DEF Edits
    <3> QED BY <2>2, <3>1, <3>3, <3>4, <3>5, <1>8
  <2> QED BY <2>1, <2>2
<1>14. fails \in SUBSET In(row, Open) BY <1>7 DEF In
<1> HIDE DEF stopped
<1>15. uploads' = uploads \cap Named(row) /\ clean' = fails BY <1>2, <1>12
<1> QED BY <1>10, <1>11, <1>13, <1>14, <1>15 DEF Restarts

(* A job that comes, with its upload.                                        *)
Arrives(j) ==
  /\ row[j].status = "none" /\ row' \in [Jobs -> Rows]
  /\ row'[j] \in JobRows /\ row'[j].status = "queued" /\ row'[j].starts = 0
  /\ RouteFits(row'[j])
  /\ \A i \in Jobs \ {j} : row'[i] = row[i]
  /\ uploads' = uploads \cup {j}

(* A submission brings the next job.                                         *)
LEMMA SubmitRow ==
  ASSUME JobInv, NEW kind \in Kinds, Submit(kind) PROVE \E j \in Jobs : Arrives(j)
<1> DEFINE j == Oldest(Jobs \ {i \in Jobs : row[i].status # "none"})
           dictation == kind.lane /\ LaneSize > 0
           route == IF dictation THEN "local" ELSE IF engine THEN kind.route ELSE "remote"
           new == [status |-> "queued", kind |-> [kind EXCEPT !.lane = dictation],
                   route |-> route, remote |-> Nowhere, starts |-> 0]
<1>1. j \in Jobs /\ row[j].status = "none"
  <2>1. Jobs \ {i \in Jobs : row[i].status # "none"} # {} BY DEF Submit
  <2> QED BY <2>1, OldestIn
<1>2. row' = [row EXCEPT ![j] = new] /\ uploads' = uploads \cup {j} BY DEF Submit, Inserted
<1>3. kind \in KindSet BY KindsAssumption
<1>4. [kind EXCEPT !.lane = dictation] \in KindSet
  <2>1. dictation \in BOOLEAN OBVIOUS
  <2> HIDE DEF dictation
  <2> QED BY <1>3, <2>1 DEF KindSet
<1>5. route \in {"any", "local", "remote"} BY <1>3 DEF KindSet
<1>10. (dictation => route = "local") /\ (route = "remote" => Configured)
  <2>1. offering \subseteq RemoteSet BY DEF JobInv, TypeOK
  <2> QED BY <2>1 DEF Submit, Configured
<1>11. [kind EXCEPT !.lane = dictation].lane = dictation BY <1>3 DEF KindSet
<1> HIDE DEF j, route, dictation
<1>6. new \in JobRows BY <1>4, <1>5 DEF JobRows, Open
<1>7. new.status = "queued" /\ new.starts = 0 OBVIOUS
<1>12. RouteFits(new) BY <1>10, <1>11 DEF RouteFits
<1> HIDE DEF new
<1>8. row'[j] = new /\ \A i \in Jobs \ {j} : row'[i] = row[i] BY <1>1, <1>2, InvFacts
<1>9. row' \in [Jobs -> Rows] BY <1>1, <1>2, <1>6, InvFacts DEF Rows
<1> QED BY <1>1, <1>2, <1>6, <1>7, <1>8, <1>9, <1>12 DEF Arrives

(* A table is an edit of itself.                                             *)
LEMMA EditedSelf == ASSUME JobInv PROVE Edited(row)
BY InvFacts DEF Edited, Edits

(* A request that fails, a job the remote lost, one it turned away.          *)
LEMMA BackRow ==
  ASSUME JobInv, NEW j \in Jobs, RequestFails(j) \/ JobLost(j) \/ TurnedAway(j)
  PROVE  /\ up /\ j \in OnRemotes /\ Becomes({j}, "queued") /\ SameStarts
         /\ NothingConcluded /\ Unsent(j) /\ UNCHANGED <<up, uploads, slots, lane>>
<1>1. up /\ j \in OnRemotes BY DEF RequestFails, JobLost, TurnedAway, Fault, Idle, OnRemotes
<1>2. NothingConcluded /\ Unsent(j) /\ UNCHANGED <<up, uploads, slots, lane>>
  BY DEF RequestFails, JobLost, TurnedAway, Fault
<1>3. Nowhere \in RemoteSet \cup {Nowhere} OBVIOUS
<1>4. Edited(SetRemote(row, j, Nowhere)) BY <1>1, <1>3, SetRemoteEdits
<1>5. \E table : Edited(table) /\ row' = Requeued(table, {j})
  BY <1>4, EditedSelf DEF RequestFails, JobLost, TurnedAway
<1> QED BY <1>1, <1>2, <1>5, BackInQueue

(* After a refusal the job waits for this server, or fails.                  *)
LEMMA RejectedRow ==
  ASSUME JobInv, NEW j \in Jobs, Rejected(j)
  PROVE  /\ up /\ j \in OnRemotes /\ Unsent(j) /\ UNCHANGED <<up, uploads, slots, lane>>
         /\ \/ Becomes({j}, "queued") /\ SameStarts /\ NothingConcluded
            \/ \E table : Edited(table) /\ Conclude(table, {j}, "failed")
<1> DEFINE table == SetRemote(row, j, Nowhere)
<1>1. up /\ j \in OnRemotes /\ Unsent(j) /\ UNCHANGED <<up, uploads, slots, lane>>
  BY DEF Rejected, Fault, Idle
<1>2. Edited(table) /\ table[j].status = "running" BY <1>1, SetRemoteEdits
<1>3. \/ Conclude(table, {j}, "failed")
      \/ row' = Requeued(SetRoute(table, j), {j}) /\ NothingConcluded
  BY DEF Rejected
<1> HIDE DEF table
<1>4. CASE row' = Requeued(SetRoute(table, j), {j}) /\ NothingConcluded
  <2>1. Edited(SetRoute(table, j)) BY <1>2, SetRouteEdits
  <2>2. Becomes({j}, "queued") /\ SameStarts BY <1>1, <1>4, <2>1, BackInQueue
  <2> QED BY <1>1, <1>4, <2>2
<1> QED BY <1>1, <1>2, <1>3, <1>4

(* An upload that is taken moves no job.                                     *)
LEMMA UploadTakenRow ==
  ASSUME JobInv, NEW j \in Jobs, UploadTaken(j)
  PROVE  up /\ j \in OnRemotes /\ Becomes({}, "queued") /\ SameStarts
<1>1. up /\ j \in OnRemotes BY DEF UploadTaken, Idle, OnRemotes
<1>2. sent[j].to \in RemoteSet BY <1>1, SentRuns
<1>3. Edited(SetRemote(row, j, sent[j].to)) BY <1>1, <1>2, SetRemoteEdits
<1>4. row' = SetRemote(row, j, sent[j].to) BY DEF UploadTaken
<1>5. Becomes({}, "queued") /\ SameStarts
  BY <1>3, <1>4, InvFacts DEF Edited, Edits, Becomes, SameStarts
<1> QED BY <1>1, <1>5

(* Jobs that wait fail together, or nothing is concluded.                    *)
WaitingFail ==
  \/ row' = row /\ NothingConcluded
  \/ \E S \in SUBSET Queued : Conclude(row, S, "failed")

(* A probe fails waiting jobs at most.                                       *)
LEMMA ProbeRow ==
  ASSUME NEW r, NEW found, ProbeEnds(r, found) PROVE WaitingFail
BY DEF ProbeEnds, WaitingFail, Stranded, Queued, In

(* A saved setting fails waiting jobs at most.                               *)
LEMMA RerouteRow == ASSUME Reroute PROVE WaitingFail
BY DEF Reroute, WaitingFail, Stranded, Queued, In

(* A download that ends fails waiting jobs at most.                          *)
LEMMA DownloadRow == ASSUME NEW m, NEW ok \in BOOLEAN, DownloadEnds(m, ok) PROVE WaitingFail
BY DEF DownloadEnds, WaitingFail, Queued, In

(* A step that tells nothing of any job and moves open jobs only.            *)
LEMMA QuietStep ==
  ASSUME JobInv, feed' = feed, \A j \in Jobs : Told(j)' = Told(j),
         NEW S, NEW status \in Open, Becomes(S, status)
  PROVE  row' \in [Jobs -> Rows] /\ StoreMoves
<1>1. ASSUME NEW j \in Jobs PROVE Stays(j)
  BY DEF Becomes, Stays, Open
<1> QED BY <1>1 DEF StoreMoves, Becomes

(* A step that leaves the table as it is.                                    *)
LEMMA StillStep ==
  ASSUME JobInv, UNCHANGED <<row, feed>>, \A j \in Jobs : Told(j)' = Told(j)
  PROVE  row' \in [Jobs -> Rows] /\ StoreMoves
BY InvFacts DEF Stays, StoreMoves

(* What leaves the outbox leaves what was told.                              *)
LEMMA SameTold == ASSUME outbox' = outbox PROVE \A j \in Jobs : Told(j)' = Told(j)
BY DEF Told

(* A step that fails waiting jobs is a step of the store.                    *)
LEMMA WaitingStep ==
  ASSUME JobInv, WaitingFail PROVE row' \in [Jobs -> Rows] /\ StoreMoves
<1>1. CASE row' = row /\ NothingConcluded BY <1>1, StillStep, SameTold DEF NothingConcluded
<1>2. ASSUME NEW S \in SUBSET Queued, Conclude(row, S, "failed")
      PROVE  row' \in [Jobs -> Rows] /\ StoreMoves
  <2>1. S \in SUBSET Jobs BY DEF Queued, In
  <2> QED BY <1>2, <2>1, EditedSelf, FinishRow DEF Conclude, Becomes, StoreMoves, Over
<1> QED BY <1>1, <1>2 DEF WaitingFail

(* Every step does to the outbox one of the things OutboxMoves lists.        *)
LEMMA OutStep == ASSUME JobInv, [Next]_vars PROVE OutboxMoves
<1> USE DEF OutboxMoves
<1>1. CASE Start
  <2>1. PICK has \in Engines :
          LET stopped == {j \in Running : row[j].starts >= MaxStarts}
              queued  == Requeued(row, Running \ stopped)
          IN Finish(queued, stopped \cup Stranded(queued, has, rstate, {}), "failed")
    BY <1>1 DEF Start
  <2> DEFINE stopped == {j \in Running : row[j].starts >= MaxStarts}
             queued  == Requeued(row, Running \ stopped)
             fails   == stopped \cup Stranded(queued, has, rstate, {})
  <2>2. fails \in SUBSET Jobs BY DEF Running, In, Stranded
  <2>3. \A j \in fails : queued[j].status \in Open => row[j].status \in Open
    BY <2>2 DEF Requeued, Open
  <2>4. UNCHANGED <<trying, crashes>> BY <1>1 DEF Start
  <2> QED BY <2>1, <2>2, <2>3, <2>4, FinishAnnounces
<1>2. ASSUME NEW last \in {0} \cup Jobs, SweepAtStart(last) PROVE OutboxMoves
  <2>1. Expired(last) \in SUBSET Jobs BY DEF Expired, Held, In
  <2> QED BY <1>2, <2>1 DEF SweepAtStart, Drop, RemoveJobs
<1>3. CASE Crash
  BY <1>3 DEF Crash, DelivererDies
<1>4. CASE CleanUp
  BY <1>4 DEF CleanUp, Kick
<1>5. CASE DispatchStep
  BY <1>5 DEF DispatchStep, Claimed
<1>6. CASE PumpStep /\ StartInLane
  BY <1>6 DEF PumpStep, StartInLane, MarkedRunning
<1>7. CASE PumpStep /\ StartInSlot
  BY <1>7 DEF PumpStep, StartInSlot, MarkedRunning
<1>8. CASE PumpStep /\ PumpEnds
  BY <1>8 DEF PumpStep, PumpEnds
<1>9. ASSUME NEW kind \in Kinds, Submit(kind) PROVE OutboxMoves
  BY <1>9 DEF Submit, Inserted
<1>10. ASSUME NEW j \in Jobs, Delete(j) PROVE OutboxMoves
  BY <1>10 DEF Delete, Drop, RemoveJobs
<1>11. ASSUME NEW j \in Jobs, Sweep(j) PROVE OutboxMoves
  <2>1. Expired(j) \in SUBSET Jobs BY DEF Expired, Held, In
  <2> QED BY <1>11, <2>1 DEF Sweep, Drop, RemoveJobs
<1>12. CASE Reroute
  <2>1. Stranded(row, engine, rstate, offering) \in SUBSET Jobs BY DEF Stranded, In
  <2> QED BY <1>12, <2>1, FinishAnnounces DEF Reroute, Conclude
<1>13. ASSUME NEW j \in Jobs, NEW status \in Over, NEW loads \in BOOLEAN, RunEnds(j, status, loads)
      PROVE  OutboxMoves
  BY <1>13, FinishAnnounces DEF RunEnds, Conclude
<1>14. ASSUME NEW i \in Places, WorkerReleased(i) PROVE OutboxMoves
  BY <1>14 DEF WorkerReleased
<1>15. ASSUME NEW m \in Models, ModelGoes(m) PROVE OutboxMoves
  BY <1>15 DEF ModelGoes
<1>16. ASSUME NEW m \in Models, NEW ok \in BOOLEAN, DownloadEnds(m, ok) PROVE OutboxMoves
  BY <1>16, FinishAnnounces DEF DownloadEnds, Conclude, NothingConcluded, Queued, In
<1>17. ASSUME NEW j \in Jobs, UploadTaken(j) PROVE OutboxMoves
  BY <1>17 DEF UploadTaken, SetRemote
<1>18. ASSUME NEW j \in Jobs, RequestFails(j) PROVE OutboxMoves
  BY <1>18 DEF RequestFails, Fault, Unsent, NothingConcluded, Requeued
<1>19. ASSUME NEW j \in Jobs, JobLost(j) PROVE OutboxMoves
  BY <1>19 DEF JobLost, Fault, Unsent, NothingConcluded, Requeued, SetRemote
<1>20. ASSUME NEW j \in Jobs, TurnedAway(j) PROVE OutboxMoves
  BY <1>20 DEF TurnedAway, Fault, Unsent, NothingConcluded, Requeued, SetRemote
<1>21. ASSUME NEW j \in Jobs, Rejected(j) PROVE OutboxMoves
  <2>1. SetRemote(row, j, Nowhere)[j].status \in Open => row[j].status \in Open
    BY DEF SetRemote
  <2> QED BY <1>21, <2>1, FinishAnnounces DEF Rejected, Fault, Conclude, NothingConcluded
<1>22. ASSUME NEW j \in Jobs, Abandoned(j) PROVE OutboxMoves
  BY <1>22 DEF Abandoned, Unsent
<1>23. ASSUME NEW j \in Jobs, HoldLapses(j) PROVE OutboxMoves
  BY <1>23 DEF HoldLapses
<1>24. ASSUME NEW j \in Jobs, NEW status \in Over, RemoteEnds(j, status) PROVE OutboxMoves
  BY <1>24, FinishAnnounces DEF RemoteEnds, Conclude
<1>25. ASSUME NEW r \in RemoteSet, ProbeStarts(r) PROVE OutboxMoves
  BY <1>25 DEF ProbeStarts
<1>26. ASSUME NEW r \in RemoteSet, NEW found \in RemoteStates \ {"unknown"}, ProbeEnds(r, found)
      PROVE  OutboxMoves
  <2> DEFINE states == [rstate EXCEPT ![r] = found]
             offers == IF found = "down" THEN offering
                       ELSE IF found = "empty" THEN offering \ {r} ELSE offering \cup {r}
  <2>1. Stranded(row, engine, states, offers) \in SUBSET Jobs BY DEF Stranded, In
  <2>2. \/ NothingConcluded
        \/ Conclude(row, Stranded(row, engine, states, offers), "failed")
    BY <1>26 DEF ProbeEnds
  <2>3. UNCHANGED crashes BY <1>26 DEF ProbeEnds
  <2> HIDE DEF states, offers
  <2> QED BY <2>1, <2>2, <2>3, FinishAnnounces DEF Conclude, NothingConcluded
<1>27. CASE Delivering /\ TimerFires
  BY <1>27 DEF Delivering, TimerFires, Kick
<1>28. ASSUME NEW j \in Jobs, Delivering, Due(j)
      PROVE  OutboxMoves
  BY <1>28 DEF Delivering, Due
<1>29. ASSUME NEW j \in Jobs, NEW n \in trying[j], NEW answer \in Answers, Delivering, Answer(j, n, answer)
      PROVE  OutboxMoves
  BY <1>29 DEF Delivering, Answer, Recorded, AfterTry, Disabled
<1>30. CASE KeyRevoked
  BY <1>30 DEF KeyRevoked, Revoke
<1>31. CASE UNCHANGED vars
  BY <1>31 DEF vars
<1> QED BY <1>1, <1>2, <1>3, <1>4, <1>5, <1>6, <1>7, <1>8, <1>9, <1>10, <1>11, <1>12, <1>13,
           <1>14, <1>15, <1>16, <1>17, <1>18, <1>19, <1>20, <1>21, <1>22, <1>23, <1>24, <1>25,
           <1>26, <1>27, <1>28, <1>29, <1>30, <1>31
  DEF Next, StartSweep, Clients, Here, There, Delivering, KeyRevoked, PumpStep

(* Every step moves the jobs together or one by one, as the store promises.  *)
LEMMA RowStep == ASSUME JobInv, [Next]_vars PROVE row' \in [Jobs -> Rows] /\ StoreMoves
<1>1. CASE Start
  BY <1>1, StartRow DEF Restarts, StoreMoves
<1>2. ASSUME NEW last \in {0} \cup Jobs, SweepAtStart(last)
      PROVE  row' \in [Jobs -> Rows] /\ StoreMoves
  <2>1. Expired(last) \in SUBSET Held(row) BY DEF Expired
  <2> QED BY <1>2, <2>1, InvFacts, RemoveMoves DEF SweepAtStart, Drop, StoreMoves
<1>3. CASE Crash
  BY <1>3, StillStep, SameTold DEF Crash, DelivererDies
<1>4. CASE CleanUp
  <2>1. \A i \in Jobs : Told(i)' = Told(i) BY <1>4, InvFacts, KickTells, SameTold DEF CleanUp
  <2> QED BY <1>4, <2>1, StillStep DEF CleanUp
<1>5. CASE DispatchStep
  <2>1. CASE Sendable # {}
    BY <1>5, <2>1, QuietStep, SameTold, DispatchRow DEF DispatchStep, Open
  <2>2. CASE Sendable = {} BY <1>5, <2>2, StillStep, SameTold DEF DispatchStep
  <2> QED BY <2>1, <2>2
<1>6. CASE PumpStep /\ StartInLane
  BY <1>6, QuietStep, SameTold, LaneRow DEF PumpStep, Open
<1>7. CASE PumpStep /\ StartInSlot
  BY <1>7, QuietStep, SameTold, SlotRow DEF PumpStep, Open
<1>8. CASE PumpStep /\ PumpEnds
  BY <1>8, StillStep, SameTold DEF PumpStep, PumpEnds
<1>9. ASSUME NEW kind \in Kinds, Submit(kind) PROVE row' \in [Jobs -> Rows] /\ StoreMoves
  <2>1. PICK j \in Jobs : Arrives(j) BY <1>9, SubmitRow
  <2>2. feed' = feed /\ outbox' = outbox BY <1>9 DEF Submit
  <2>3. Comes(j) /\ \A i \in Jobs \ {j} : Stays(i) BY <2>1, <2>2 DEF Arrives, Comes, Stays, Told
  <2> QED BY <2>1, <2>3 DEF StoreMoves, Arrives
<1>10. ASSUME NEW j \in Jobs, Delete(j) PROVE row' \in [Jobs -> Rows] /\ StoreMoves
  BY <1>10, InvFacts, RemoveMoves DEF Delete, Drop, StoreMoves
<1>11. ASSUME NEW j \in Jobs, Sweep(j) PROVE row' \in [Jobs -> Rows] /\ StoreMoves
  <2>1. Expired(j) \in SUBSET Held(row) BY DEF Expired
  <2> QED BY <1>11, <2>1, InvFacts, RemoveMoves DEF Sweep, Drop, StoreMoves
<1>12. CASE Reroute
  BY <1>12, RerouteRow, WaitingStep
<1>13. ASSUME NEW j \in Jobs, NEW status \in Over, NEW loads \in BOOLEAN, RunEnds(j, status, loads)
      PROVE  row' \in [Jobs -> Rows] /\ StoreMoves
  <2>1. {j} \in SUBSET Jobs /\ Finish(row, {j}, status) BY <1>13 DEF RunEnds, Conclude
  <2> QED BY <2>1, EditedSelf, FinishRow DEF Becomes, StoreMoves, Over
<1>14. ASSUME NEW i \in Places, WorkerReleased(i) PROVE row' \in [Jobs -> Rows] /\ StoreMoves
  BY <1>14, StillStep, SameTold DEF WorkerReleased
<1>15. ASSUME NEW m \in Models, ModelGoes(m) PROVE row' \in [Jobs -> Rows] /\ StoreMoves
  BY <1>15, StillStep, SameTold DEF ModelGoes
<1>16. ASSUME NEW m \in Models, NEW ok \in BOOLEAN, DownloadEnds(m, ok)
      PROVE  row' \in [Jobs -> Rows] /\ StoreMoves
  BY <1>16, DownloadRow, WaitingStep
<1>17. ASSUME NEW j \in Jobs, UploadTaken(j) PROVE row' \in [Jobs -> Rows] /\ StoreMoves
  <2>1. UNCHANGED <<feed, outbox>> BY <1>17 DEF UploadTaken
  <2> QED BY <1>17, <2>1, UploadTakenRow, QuietStep, SameTold DEF Open
<1>18. ASSUME NEW j \in Jobs, RequestFails(j) PROVE row' \in [Jobs -> Rows] /\ StoreMoves
  BY <1>18, BackRow, QuietStep, SameTold DEF NothingConcluded, Open
<1>19. ASSUME NEW j \in Jobs, JobLost(j) PROVE row' \in [Jobs -> Rows] /\ StoreMoves
  BY <1>19, BackRow, QuietStep, SameTold DEF NothingConcluded, Open
<1>20. ASSUME NEW j \in Jobs, TurnedAway(j) PROVE row' \in [Jobs -> Rows] /\ StoreMoves
  BY <1>20, BackRow, QuietStep, SameTold DEF NothingConcluded, Open
<1>21. ASSUME NEW j \in Jobs, Rejected(j) PROVE row' \in [Jobs -> Rows] /\ StoreMoves
  <2>1. CASE Becomes({j}, "queued") /\ NothingConcluded
    BY <2>1, QuietStep, SameTold DEF NothingConcluded, Open
  <2>2. CASE \E table : Edited(table) /\ Conclude(table, {j}, "failed")
    BY <2>2, FinishRow DEF Conclude, Becomes, StoreMoves, Over
  <2> QED BY <1>21, <2>1, <2>2, RejectedRow
<1>22. ASSUME NEW j \in Jobs, Abandoned(j) PROVE row' \in [Jobs -> Rows] /\ StoreMoves
  BY <1>22, StillStep, SameTold DEF Abandoned
<1>23. ASSUME NEW j \in Jobs, HoldLapses(j) PROVE row' \in [Jobs -> Rows] /\ StoreMoves
  BY <1>23, StillStep, SameTold DEF HoldLapses
<1>24. ASSUME NEW j \in Jobs, NEW status \in Over, RemoteEnds(j, status)
      PROVE  row' \in [Jobs -> Rows] /\ StoreMoves
  <2>1. {j} \in SUBSET Jobs /\ Finish(row, {j}, status) BY <1>24 DEF RemoteEnds, Conclude
  <2> QED BY <2>1, EditedSelf, FinishRow DEF Becomes, StoreMoves, Over
<1>25. ASSUME NEW r \in RemoteSet, ProbeStarts(r) PROVE row' \in [Jobs -> Rows] /\ StoreMoves
  BY <1>25, StillStep, SameTold DEF ProbeStarts
<1>26. ASSUME NEW r \in RemoteSet, NEW found \in RemoteStates \ {"unknown"}, ProbeEnds(r, found)
      PROVE  row' \in [Jobs -> Rows] /\ StoreMoves
  BY <1>26, ProbeRow, WaitingStep
<1>27. CASE Delivering /\ TimerFires
  <2>1. \A i \in Jobs : Told(i)' = Told(i) BY <1>27, InvFacts, KickTells DEF TimerFires
  <2> QED BY <1>27, <2>1, StillStep DEF Delivering
<1>28. ASSUME NEW j \in Jobs, Delivering, Due(j)
      PROVE  row' \in [Jobs -> Rows] /\ StoreMoves
  <2>1. outbox'[j].state = outbox[j].state /\ \A i \in Jobs \ {j} : outbox'[i] = outbox[i]
    BY <1>28, InvFacts DEF Due, Deliveries
  <2>2. \A i \in Jobs : Told(i)' = Told(i) BY <2>1 DEF Told
  <2> QED BY <1>28, <2>2, StillStep DEF Delivering
<1>29. ASSUME NEW j \in Jobs, NEW n \in trying[j], NEW answer \in Answers, Delivering, Answer(j, n, answer)
      PROVE  row' \in [Jobs -> Rows] /\ StoreMoves
  <2>1. \A i \in Jobs : Told(i)' = Told(i) BY <1>29, InvFacts, AnswerTells
  <2> QED BY <1>29, <2>1, StillStep DEF Delivering
<1>30. CASE KeyRevoked
  BY <1>30, StillStep, SameTold DEF KeyRevoked, Revoke
<1>31. CASE UNCHANGED vars
  BY <1>31, StillStep, SameTold DEF vars
<1> QED BY <1>1, <1>2, <1>3, <1>4, <1>5, <1>6, <1>7, <1>8, <1>9, <1>10, <1>11, <1>12, <1>13,
           <1>14, <1>15, <1>16, <1>17, <1>18, <1>19, <1>20, <1>21, <1>22, <1>23, <1>24, <1>25,
           <1>26, <1>27, <1>28, <1>29, <1>30, <1>31
  DEF Next, StartSweep, Clients, Here, There, Delivering, KeyRevoked, PumpStep

-----------------------------------------------------------------------------
(* The types of what is no table.                                            *)

(* The flags, the service's own and the deliverer's.                         *)
FlagTypes ==
  /\ up \in BOOLEAN /\ timer \in BOOLEAN /\ owed \in BOOLEAN /\ revoked \in BOOLEAN
  /\ engine \in BOOLEAN /\ overflow \in BOOLEAN

(* What is known of the remotes, the holds, the loop under way.              *)
MiscTypes ==
  /\ held \in [Jobs -> {"no", "waiting", "lapsed"}]
  /\ rstate \in [RemoteSet -> RemoteStates]
  /\ offering \in SUBSET RemoteSet /\ probing \in SUBSET RemoteSet
  /\ turn \in {"idle", "sweep", "dispatch", "pump"}
  /\ faults \in 0..MaxFaults

(* The uploads, and the jobs whose files are to be tidied.                   *)
FileTypes == uploads \in SUBSET Jobs /\ clean \in SUBSET Jobs

(* The models.                                                               *)
ModelTypes == onDisk \in SUBSET Models /\ fetching \in SUBSET Models

(* The requests that are out, and the counts.                                *)
SentTypes ==
  /\ sent \in [Jobs -> [to : RemoteSet, phase : Phases] \cup {NotSent}]
  /\ inFlight \in [RemoteSet -> Nat]

(* The places of the queue and of the lane.                                  *)
SlotTypes ==
  /\ slots \in [Places -> [job : Jobs \cup {NoJob}, model : Models \cup {NoModel}]]
  /\ lane \in SUBSET Jobs

(* The counts of how often a job was passed over.                            *)
PassedTypes == passed \in [Jobs -> 0..PassLimit]
(* What is downloaded is a model of a job that waits.                        *)
LEMMA MissingModels ==
  ASSUME JobInv
  PROVE  LaneFetches \subseteq Models /\ QueueFetches \subseteq Models
<1>1. \A j \in Queued : row[j].kind.model \in Models
  <2> TAKE j \in Queued
  <2>1. j \in Jobs /\ row[j].status = "queued" BY DEF Queued, In
  <2>2. row[j] \in JobRows BY <2>1, InvFacts, JobRow DEF Open
  <2> QED BY <2>2 DEF JobRows, KindSet
<1>2. ForLane \subseteq Queued /\ ForQueue \subseteq Queued BY DEF ForLane, ForQueue
<1> QED BY <1>1, <1>2 DEF LaneFetches, QueueFetches, Missing

(* The end of a request gives back no place that was not taken.              *)
LEMMA UnsentTypes ==
  ASSUME SentTypes, NEW j \in Jobs, Unsent(j)
  PROVE  SentTypes'
<1> DEFINE r == sent[j].to
<1>1. sent' = [sent EXCEPT ![j] = NotSent]
      /\ inFlight' = [inFlight EXCEPT ![r] = IF @ > 0 THEN @ - 1 ELSE 0]
  BY DEF Unsent
<1> HIDE DEF r
<1>2. CASE r \in RemoteSet
  <2>1. (IF inFlight[r] > 0 THEN inFlight[r] - 1 ELSE 0) \in Nat BY <1>2 DEF SentTypes
  <2> QED BY <1>1, <1>2, <2>1 DEF SentTypes
<1>3. CASE r \notin RemoteSet BY <1>1, <1>3 DEF SentTypes
<1> QED BY <1>2, <1>3

(* The limits, one by one.                                                   *)
LEMMA LimitsNat == PassLimit \in Nat /\ MaxFaults \in Nat /\ InFlight \in Nat /\ QueueMax \in Nat
BY LimitsAssumption

(* The flags stay flags.                                                     *)
LEMMA FlagStep == ASSUME FlagTypes, [Next]_vars PROVE FlagTypes'
<1> USE DEF FlagTypes
<1>1. CASE Start
  BY <1>1, ChoicesAssumption DEF Start
<1>2. ASSUME NEW last \in {0} \cup Jobs, SweepAtStart(last) PROVE FlagTypes'
  BY <1>2 DEF SweepAtStart, Drop, RemoveJobs
<1>3. CASE Crash
  BY <1>3 DEF Crash, DelivererDies
<1>4. CASE CleanUp
  BY <1>4 DEF CleanUp, Kick, Armed
<1>5. CASE DispatchStep
  BY <1>5 DEF DispatchStep, Claimed
<1>6. CASE PumpStep /\ StartInLane
  BY <1>6 DEF PumpStep, StartInLane, MarkedRunning
<1>7. CASE PumpStep /\ StartInSlot
  BY <1>7 DEF PumpStep, StartInSlot, MarkedRunning
<1>8. CASE PumpStep /\ PumpEnds
  BY <1>8 DEF PumpStep, PumpEnds
<1>9. ASSUME NEW kind \in Kinds, Submit(kind) PROVE FlagTypes'
  BY <1>9 DEF Submit, Inserted
<1>10. ASSUME NEW j \in Jobs, Delete(j) PROVE FlagTypes'
  BY <1>10 DEF Delete, Drop, RemoveJobs
<1>11. ASSUME NEW j \in Jobs, Sweep(j) PROVE FlagTypes'
  BY <1>11 DEF Sweep, Drop, RemoveJobs
<1>12. CASE Reroute
  BY <1>12, ChoicesAssumption DEF Reroute, Conclude
<1>13. ASSUME NEW j \in Jobs, NEW status \in Over, NEW loads \in BOOLEAN, RunEnds(j, status, loads)
      PROVE  FlagTypes'
  BY <1>13 DEF RunEnds, Conclude
<1>14. ASSUME NEW i \in Places, WorkerReleased(i) PROVE FlagTypes'
  BY <1>14 DEF WorkerReleased
<1>15. ASSUME NEW m \in Models, ModelGoes(m) PROVE FlagTypes'
  BY <1>15 DEF ModelGoes
<1>16. ASSUME NEW m \in Models, NEW ok \in BOOLEAN, DownloadEnds(m, ok) PROVE FlagTypes'
  BY <1>16 DEF DownloadEnds, Conclude, NothingConcluded
<1>17. ASSUME NEW j \in Jobs, UploadTaken(j) PROVE FlagTypes'
  BY <1>17 DEF UploadTaken, SetRemote
<1>18. ASSUME NEW j \in Jobs, RequestFails(j) PROVE FlagTypes'
  BY <1>18 DEF RequestFails, Fault, Unsent, NothingConcluded, Requeued
<1>19. ASSUME NEW j \in Jobs, JobLost(j) PROVE FlagTypes'
  BY <1>19 DEF JobLost, Fault, Unsent, NothingConcluded, Requeued, SetRemote
<1>20. ASSUME NEW j \in Jobs, TurnedAway(j) PROVE FlagTypes'
  BY <1>20 DEF TurnedAway, Fault, Unsent, NothingConcluded, Requeued, SetRemote
<1>21. ASSUME NEW j \in Jobs, Rejected(j) PROVE FlagTypes'
  BY <1>21 DEF Rejected, Fault, Conclude, NothingConcluded
<1>22. ASSUME NEW j \in Jobs, Abandoned(j) PROVE FlagTypes'
  BY <1>22 DEF Abandoned, Unsent
<1>23. ASSUME NEW j \in Jobs, HoldLapses(j) PROVE FlagTypes'
  BY <1>23 DEF HoldLapses
<1>24. ASSUME NEW j \in Jobs, NEW status \in Over, RemoteEnds(j, status) PROVE FlagTypes'
  BY <1>24 DEF RemoteEnds, Conclude
<1>25. ASSUME NEW r \in RemoteSet, ProbeStarts(r) PROVE FlagTypes'
  BY <1>25 DEF ProbeStarts
<1>26. ASSUME NEW r \in RemoteSet, NEW found \in RemoteStates \ {"unknown"}, ProbeEnds(r, found)
      PROVE  FlagTypes'
  BY <1>26 DEF ProbeEnds, Conclude, NothingConcluded
<1>27. CASE Delivering /\ TimerFires
  BY <1>27 DEF Delivering, TimerFires, Kick, Armed
<1>28. ASSUME NEW j \in Jobs, Delivering, Due(j)
      PROVE  FlagTypes'
  BY <1>28 DEF Delivering, Due
<1>29. ASSUME NEW j \in Jobs, NEW n \in trying[j], NEW answer \in Answers, Delivering, Answer(j, n, answer)
      PROVE  FlagTypes'
  BY <1>29 DEF Delivering, Answer, Armed
<1>30. CASE KeyRevoked
  BY <1>30 DEF KeyRevoked, Revoke
<1>31. CASE UNCHANGED vars
  BY <1>31 DEF vars
<1> QED BY <1>1, <1>2, <1>3, <1>4, <1>5, <1>6, <1>7, <1>8, <1>9, <1>10, <1>11, <1>12, <1>13,
           <1>14, <1>15, <1>16, <1>17, <1>18, <1>19, <1>20, <1>21, <1>22, <1>23, <1>24, <1>25,
           <1>26, <1>27, <1>28, <1>29, <1>30, <1>31
  DEF Next, StartSweep, Clients, Here, There, Delivering, KeyRevoked, PumpStep

(* What is known of the remotes keeps its type.                              *)
LEMMA MiscStep == ASSUME JobInv, MiscTypes, [Next]_vars PROVE MiscTypes'
<1> USE LimitsNat DEF MiscTypes
<1>1. CASE Start
  BY <1>1 DEF Start
<1>2. ASSUME NEW last \in {0} \cup Jobs, SweepAtStart(last) PROVE MiscTypes'
  BY <1>2 DEF SweepAtStart, Drop
<1>3. CASE Crash
  BY <1>3 DEF Crash, RemoteStates
<1>4. CASE CleanUp
  BY <1>4 DEF CleanUp
<1>5. CASE DispatchStep
  BY <1>5 DEF DispatchStep
<1>6. CASE PumpStep /\ StartInLane
  BY <1>6 DEF PumpStep, StartInLane
<1>7. CASE PumpStep /\ StartInSlot
  BY <1>7 DEF PumpStep, StartInSlot
<1>8. CASE PumpStep /\ PumpEnds
  BY <1>8 DEF PumpStep, PumpEnds
<1>9. ASSUME NEW kind \in Kinds, Submit(kind) PROVE MiscTypes'
  BY <1>9 DEF Submit
<1>10. ASSUME NEW j \in Jobs, Delete(j) PROVE MiscTypes'
  BY <1>10 DEF Delete, Drop, TurnAfterDrop
<1>11. ASSUME NEW j \in Jobs, Sweep(j) PROVE MiscTypes'
  BY <1>11 DEF Sweep, Drop, TurnAfterDrop
<1>12. CASE Reroute
  BY <1>12 DEF Reroute, Conclude
<1>13. ASSUME NEW j \in Jobs, NEW status \in Over, NEW loads \in BOOLEAN, RunEnds(j, status, loads)
      PROVE  MiscTypes'
  BY <1>13 DEF RunEnds, Conclude
<1>14. ASSUME NEW i \in Places, WorkerReleased(i) PROVE MiscTypes'
  BY <1>14 DEF WorkerReleased
<1>15. ASSUME NEW m \in Models, ModelGoes(m) PROVE MiscTypes'
  BY <1>15 DEF ModelGoes
<1>16. ASSUME NEW m \in Models, NEW ok \in BOOLEAN, DownloadEnds(m, ok) PROVE MiscTypes'
  BY <1>16 DEF DownloadEnds, Conclude, NothingConcluded
<1>17. ASSUME NEW j \in Jobs, UploadTaken(j) PROVE MiscTypes'
  BY <1>17 DEF UploadTaken
<1>18. ASSUME NEW j \in Jobs, RequestFails(j) PROVE MiscTypes'
  <2> DEFINE r == sent[j].to
  <2>1. /\ rstate' = [rstate EXCEPT ![r] = "down"] /\ turn' = "dispatch"
        /\ faults < MaxFaults /\ faults' = faults + 1
        /\ UNCHANGED <<held, offering, probing>>
    BY <1>18 DEF RequestFails, Fault, Unsent
  <2>2. r \in RemoteSet BY <1>18, SentRuns DEF RequestFails, Fault, Idle
  <2> HIDE DEF r
  <2> QED BY <2>1, <2>2 DEF RemoteStates
<1>19. ASSUME NEW j \in Jobs, JobLost(j) PROVE MiscTypes'
  BY <1>19 DEF JobLost, Fault, Unsent, NothingConcluded
<1>20. ASSUME NEW j \in Jobs, TurnedAway(j) PROVE MiscTypes'
  BY <1>20 DEF TurnedAway, Fault, Unsent
<1>21. ASSUME NEW j \in Jobs, Rejected(j) PROVE MiscTypes'
  BY <1>21 DEF Rejected, Fault, Unsent
<1>22. ASSUME NEW j \in Jobs, Abandoned(j) PROVE MiscTypes'
  BY <1>22 DEF Abandoned, Unsent
<1>23. ASSUME NEW j \in Jobs, HoldLapses(j) PROVE MiscTypes'
  BY <1>23 DEF HoldLapses
<1>24. ASSUME NEW j \in Jobs, NEW status \in Over, RemoteEnds(j, status) PROVE MiscTypes'
  BY <1>24 DEF RemoteEnds, Unsent
<1>25. ASSUME NEW r \in RemoteSet, ProbeStarts(r) PROVE MiscTypes'
  BY <1>25 DEF ProbeStarts
<1>26. ASSUME NEW r \in RemoteSet, NEW found \in RemoteStates \ {"unknown"}, ProbeEnds(r, found)
      PROVE  MiscTypes'
  BY <1>26 DEF ProbeEnds
<1>27. CASE Delivering /\ TimerFires
  BY <1>27 DEF Delivering
<1>28. ASSUME NEW j \in Jobs, Delivering, Due(j)
      PROVE  MiscTypes'
  BY <1>28 DEF Delivering
<1>29. ASSUME NEW j \in Jobs, NEW n \in trying[j], NEW answer \in Answers, Delivering, Answer(j, n, answer)
      PROVE  MiscTypes'
  BY <1>29 DEF Delivering
<1>30. CASE KeyRevoked
  BY <1>30 DEF KeyRevoked
<1>31. CASE UNCHANGED vars
  BY <1>31 DEF vars
<1> QED BY <1>1, <1>2, <1>3, <1>4, <1>5, <1>6, <1>7, <1>8, <1>9, <1>10, <1>11, <1>12, <1>13,
           <1>14, <1>15, <1>16, <1>17, <1>18, <1>19, <1>20, <1>21, <1>22, <1>23, <1>24, <1>25,
           <1>26, <1>27, <1>28, <1>29, <1>30, <1>31
  DEF Next, StartSweep, Clients, Here, There, Delivering, KeyRevoked, PumpStep

(* The uploads are those of jobs.                                            *)
LEMMA FileStep == ASSUME JobInv, FileTypes, [Next]_vars PROVE FileTypes'
<1> USE DEF FileTypes
<1>1. CASE Start
  BY <1>1, StartRow DEF Restarts, In
<1>2. ASSUME NEW last \in {0} \cup Jobs, SweepAtStart(last) PROVE FileTypes'
  BY <1>2 DEF SweepAtStart, Drop, Expired, Held, In
<1>3. CASE Crash
  BY <1>3 DEF Crash, DelivererDies
<1>4. CASE CleanUp
  BY <1>4 DEF CleanUp
<1>5. CASE DispatchStep
  BY <1>5 DEF DispatchStep
<1>6. CASE PumpStep /\ StartInLane
  BY <1>6 DEF PumpStep, StartInLane
<1>7. CASE PumpStep /\ StartInSlot
  BY <1>7 DEF PumpStep, StartInSlot
<1>8. CASE PumpStep /\ PumpEnds
  BY <1>8 DEF PumpStep, PumpEnds
<1>9. ASSUME NEW kind \in Kinds, Submit(kind) PROVE FileTypes'
  <2>1. PICK j \in Jobs : uploads' = uploads \cup {j} BY <1>9, SubmitRow DEF Arrives
  <2>2. clean' = clean BY <1>9 DEF Submit
  <2> QED BY <2>1, <2>2
<1>10. ASSUME NEW j \in Jobs, Delete(j) PROVE FileTypes'
  BY <1>10 DEF Delete, Drop
<1>11. ASSUME NEW j \in Jobs, Sweep(j) PROVE FileTypes'
  BY <1>11 DEF Sweep, Drop, Expired, Held, In
<1>12. CASE Reroute
  BY <1>12 DEF Reroute, Conclude, Stranded, In
<1>13. ASSUME NEW j \in Jobs, NEW status \in Over, NEW loads \in BOOLEAN, RunEnds(j, status, loads)
      PROVE  FileTypes'
  BY <1>13 DEF RunEnds, Conclude
<1>14. ASSUME NEW i \in Places, WorkerReleased(i) PROVE FileTypes'
  BY <1>14 DEF WorkerReleased
<1>15. ASSUME NEW m \in Models, ModelGoes(m) PROVE FileTypes'
  BY <1>15 DEF ModelGoes
<1>16. ASSUME NEW m \in Models, NEW ok \in BOOLEAN, DownloadEnds(m, ok) PROVE FileTypes'
  BY <1>16 DEF DownloadEnds, Conclude, Queued, In, NothingConcluded
<1>17. ASSUME NEW j \in Jobs, UploadTaken(j) PROVE FileTypes'
  BY <1>17 DEF UploadTaken
<1>18. ASSUME NEW j \in Jobs, RequestFails(j) PROVE FileTypes'
  BY <1>18 DEF RequestFails, Fault, Unsent, NothingConcluded
<1>19. ASSUME NEW j \in Jobs, JobLost(j) PROVE FileTypes'
  BY <1>19 DEF JobLost, Fault, Unsent, NothingConcluded
<1>20. ASSUME NEW j \in Jobs, TurnedAway(j) PROVE FileTypes'
  BY <1>20 DEF TurnedAway, Fault, Unsent, NothingConcluded
<1>21. ASSUME NEW j \in Jobs, Rejected(j) PROVE FileTypes'
  BY <1>21 DEF Rejected, Fault, Unsent, Conclude, NothingConcluded
<1>22. ASSUME NEW j \in Jobs, Abandoned(j) PROVE FileTypes'
  BY <1>22 DEF Abandoned, Unsent
<1>23. ASSUME NEW j \in Jobs, HoldLapses(j) PROVE FileTypes'
  BY <1>23 DEF HoldLapses
<1>24. ASSUME NEW j \in Jobs, NEW status \in Over, RemoteEnds(j, status) PROVE FileTypes'
  BY <1>24 DEF RemoteEnds, Conclude, Unsent
<1>25. ASSUME NEW r \in RemoteSet, ProbeStarts(r) PROVE FileTypes'
  BY <1>25 DEF ProbeStarts
<1>26. ASSUME NEW r \in RemoteSet, NEW found \in RemoteStates \ {"unknown"}, ProbeEnds(r, found)
      PROVE  FileTypes'
  BY <1>26 DEF ProbeEnds, Conclude, Stranded, In, NothingConcluded
<1>27. CASE Delivering /\ TimerFires
  BY <1>27 DEF Delivering
<1>28. ASSUME NEW j \in Jobs, Delivering, Due(j)
      PROVE  FileTypes'
  BY <1>28 DEF Delivering
<1>29. ASSUME NEW j \in Jobs, NEW n \in trying[j], NEW answer \in Answers, Delivering, Answer(j, n, answer)
      PROVE  FileTypes'
  BY <1>29 DEF Delivering
<1>30. CASE KeyRevoked
  BY <1>30 DEF KeyRevoked
<1>31. CASE UNCHANGED vars
  BY <1>31 DEF vars
<1> QED BY <1>1, <1>2, <1>3, <1>4, <1>5, <1>6, <1>7, <1>8, <1>9, <1>10, <1>11, <1>12, <1>13,
           <1>14, <1>15, <1>16, <1>17, <1>18, <1>19, <1>20, <1>21, <1>22, <1>23, <1>24, <1>25,
           <1>26, <1>27, <1>28, <1>29, <1>30, <1>31
  DEF Next, StartSweep, Clients, Here, There, Delivering, KeyRevoked, PumpStep

(* The models on disk and those downloading are models.                      *)
LEMMA ModelStep == ASSUME JobInv, ModelTypes, [Next]_vars PROVE ModelTypes'
<1> USE DEF ModelTypes
<1>1. CASE Start
  BY <1>1 DEF Start
<1>2. ASSUME NEW last \in {0} \cup Jobs, SweepAtStart(last) PROVE ModelTypes'
  BY <1>2 DEF SweepAtStart, Drop
<1>3. CASE Crash
  BY <1>3 DEF Crash, DelivererDies
<1>4. CASE CleanUp
  BY <1>4 DEF CleanUp
<1>5. CASE DispatchStep
  BY <1>5 DEF DispatchStep
<1>6. CASE PumpStep /\ StartInLane
  BY <1>6, MissingModels DEF PumpStep, StartInLane
<1>7. CASE PumpStep /\ StartInSlot
  BY <1>7, MissingModels DEF PumpStep, StartInSlot
<1>8. CASE PumpStep /\ PumpEnds
  BY <1>8, MissingModels DEF PumpStep, PumpEnds
<1>9. ASSUME NEW kind \in Kinds, Submit(kind) PROVE ModelTypes'
  BY <1>9 DEF Submit
<1>10. ASSUME NEW j \in Jobs, Delete(j) PROVE ModelTypes'
  BY <1>10 DEF Delete, Drop
<1>11. ASSUME NEW j \in Jobs, Sweep(j) PROVE ModelTypes'
  BY <1>11 DEF Sweep, Drop
<1>12. CASE Reroute
  BY <1>12 DEF Reroute, Conclude
<1>13. ASSUME NEW j \in Jobs, NEW status \in Over, NEW loads \in BOOLEAN, RunEnds(j, status, loads)
      PROVE  ModelTypes'
  BY <1>13 DEF RunEnds, Conclude
<1>14. ASSUME NEW i \in Places, WorkerReleased(i) PROVE ModelTypes'
  BY <1>14 DEF WorkerReleased
<1>15. ASSUME NEW m \in Models, ModelGoes(m) PROVE ModelTypes'
  BY <1>15 DEF ModelGoes
<1>16. ASSUME NEW m \in Models, NEW ok \in BOOLEAN, DownloadEnds(m, ok) PROVE ModelTypes'
  BY <1>16 DEF DownloadEnds, Conclude, NothingConcluded
<1>17. ASSUME NEW j \in Jobs, UploadTaken(j) PROVE ModelTypes'
  BY <1>17 DEF UploadTaken
<1>18. ASSUME NEW j \in Jobs, RequestFails(j) PROVE ModelTypes'
  BY <1>18 DEF RequestFails, Fault, Unsent, NothingConcluded
<1>19. ASSUME NEW j \in Jobs, JobLost(j) PROVE ModelTypes'
  BY <1>19 DEF JobLost, Fault, Unsent, NothingConcluded
<1>20. ASSUME NEW j \in Jobs, TurnedAway(j) PROVE ModelTypes'
  BY <1>20 DEF TurnedAway, Fault, Unsent, NothingConcluded
<1>21. ASSUME NEW j \in Jobs, Rejected(j) PROVE ModelTypes'
  BY <1>21 DEF Rejected, Fault, Unsent, Conclude, NothingConcluded
<1>22. ASSUME NEW j \in Jobs, Abandoned(j) PROVE ModelTypes'
  BY <1>22 DEF Abandoned, Unsent
<1>23. ASSUME NEW j \in Jobs, HoldLapses(j) PROVE ModelTypes'
  BY <1>23 DEF HoldLapses
<1>24. ASSUME NEW j \in Jobs, NEW status \in Over, RemoteEnds(j, status) PROVE ModelTypes'
  BY <1>24 DEF RemoteEnds, Conclude, Unsent
<1>25. ASSUME NEW r \in RemoteSet, ProbeStarts(r) PROVE ModelTypes'
  BY <1>25 DEF ProbeStarts
<1>26. ASSUME NEW r \in RemoteSet, NEW found \in RemoteStates \ {"unknown"}, ProbeEnds(r, found)
      PROVE  ModelTypes'
  BY <1>26 DEF ProbeEnds, Conclude, NothingConcluded
<1>27. CASE Delivering /\ TimerFires
  BY <1>27 DEF Delivering
<1>28. ASSUME NEW j \in Jobs, Delivering, Due(j)
      PROVE  ModelTypes'
  BY <1>28 DEF Delivering
<1>29. ASSUME NEW j \in Jobs, NEW n \in trying[j], NEW answer \in Answers, Delivering, Answer(j, n, answer)
      PROVE  ModelTypes'
  BY <1>29 DEF Delivering
<1>30. CASE KeyRevoked
  BY <1>30 DEF KeyRevoked
<1>31. CASE UNCHANGED vars
  BY <1>31 DEF vars
<1> QED BY <1>1, <1>2, <1>3, <1>4, <1>5, <1>6, <1>7, <1>8, <1>9, <1>10, <1>11, <1>12, <1>13,
           <1>14, <1>15, <1>16, <1>17, <1>18, <1>19, <1>20, <1>21, <1>22, <1>23, <1>24, <1>25,
           <1>26, <1>27, <1>28, <1>29, <1>30, <1>31
  DEF Next, StartSweep, Clients, Here, There, Delivering, KeyRevoked, PumpStep

(* The requests and the counts keep their types.                             *)
LEMMA SentStep == ASSUME JobInv, SentTypes, [Next]_vars PROVE SentTypes'
<1> USE DEF SentTypes
<1>1. CASE Start
  BY <1>1 DEF Start
<1>2. ASSUME NEW last \in {0} \cup Jobs, SweepAtStart(last) PROVE SentTypes'
  BY <1>2 DEF SweepAtStart, Drop, Phases, NotSent
<1>3. CASE Crash
  BY <1>3 DEF Crash
<1>4. CASE CleanUp
  BY <1>4 DEF CleanUp
<1>5. CASE DispatchStep
  <2>1. CASE Sendable = {} BY <1>5, <2>1 DEF DispatchStep
  <2>2. CASE Sendable # {}
    <3>1. PICK j \in Jobs, r \in RemoteSet, phase \in {"upload", "follow"} :
            /\ j = First(Sendable)
            /\ inFlight' = [inFlight EXCEPT ![r] = inFlight[r] + 1]
            /\ sent' = [sent EXCEPT ![j] = [to |-> r, phase |-> phase]]
            /\ held' = [held EXCEPT ![j] = "no"]
      BY <1>5, <2>2, DispatchSends
    <3>2. [to |-> r, phase |-> phase] \in [to : RemoteSet, phase : Phases] BY DEF Phases
    <3>3. inFlight[r] + 1 \in Nat OBVIOUS
    <3> QED BY <3>1, <3>2, <3>3
  <2> QED BY <2>1, <2>2
<1>6. CASE PumpStep /\ StartInLane
  BY <1>6 DEF PumpStep, StartInLane
<1>7. CASE PumpStep /\ StartInSlot
  BY <1>7 DEF PumpStep, StartInSlot
<1>8. CASE PumpStep /\ PumpEnds
  BY <1>8 DEF PumpStep, PumpEnds
<1>9. ASSUME NEW kind \in Kinds, Submit(kind) PROVE SentTypes'
  BY <1>9 DEF Submit
<1>10. ASSUME NEW j \in Jobs, Delete(j) PROVE SentTypes'
  <2>1. PICK loads : Drop({j}, loads) BY <1>10 DEF Delete
  <2> QED BY <2>1 DEF Drop, Phases, NotSent
<1>11. ASSUME NEW j \in Jobs, Sweep(j) PROVE SentTypes'
  <2>1. PICK loads : Drop(Expired(j), loads) BY <1>11 DEF Sweep
  <2> QED BY <2>1 DEF Drop, Phases, NotSent
<1>12. CASE Reroute
  BY <1>12 DEF Reroute, Conclude
<1>13. ASSUME NEW j \in Jobs, NEW status \in Over, NEW loads \in BOOLEAN, RunEnds(j, status, loads)
      PROVE  SentTypes'
  BY <1>13 DEF RunEnds, Conclude
<1>14. ASSUME NEW i \in Places, WorkerReleased(i) PROVE SentTypes'
  BY <1>14 DEF WorkerReleased
<1>15. ASSUME NEW m \in Models, ModelGoes(m) PROVE SentTypes'
  BY <1>15 DEF ModelGoes
<1>16. ASSUME NEW m \in Models, NEW ok \in BOOLEAN, DownloadEnds(m, ok) PROVE SentTypes'
  BY <1>16 DEF DownloadEnds, Conclude, NothingConcluded
<1>17. ASSUME NEW j \in Jobs, UploadTaken(j) PROVE SentTypes'
  BY <1>17 DEF UploadTaken, Phases, NotSent
<1>18. ASSUME NEW j \in Jobs, RequestFails(j) PROVE SentTypes'
  BY <1>18, UnsentTypes DEF RequestFails
<1>19. ASSUME NEW j \in Jobs, JobLost(j) PROVE SentTypes'
  BY <1>19, UnsentTypes DEF JobLost
<1>20. ASSUME NEW j \in Jobs, TurnedAway(j) PROVE SentTypes'
  BY <1>20, UnsentTypes DEF TurnedAway
<1>21. ASSUME NEW j \in Jobs, Rejected(j) PROVE SentTypes'
  BY <1>21, UnsentTypes DEF Rejected
<1>22. ASSUME NEW j \in Jobs, Abandoned(j) PROVE SentTypes'
  BY <1>22, UnsentTypes DEF Abandoned
<1>23. ASSUME NEW j \in Jobs, HoldLapses(j) PROVE SentTypes'
  BY <1>23 DEF HoldLapses
<1>24. ASSUME NEW j \in Jobs, NEW status \in Over, RemoteEnds(j, status) PROVE SentTypes'
  BY <1>24, UnsentTypes DEF RemoteEnds
<1>25. ASSUME NEW r \in RemoteSet, ProbeStarts(r) PROVE SentTypes'
  BY <1>25 DEF ProbeStarts
<1>26. ASSUME NEW r \in RemoteSet, NEW found \in RemoteStates \ {"unknown"}, ProbeEnds(r, found)
      PROVE  SentTypes'
  BY <1>26 DEF ProbeEnds, Conclude, NothingConcluded
<1>27. CASE Delivering /\ TimerFires
  BY <1>27 DEF Delivering
<1>28. ASSUME NEW j \in Jobs, Delivering, Due(j)
      PROVE  SentTypes'
  BY <1>28 DEF Delivering
<1>29. ASSUME NEW j \in Jobs, NEW n \in trying[j], NEW answer \in Answers, Delivering, Answer(j, n, answer)
      PROVE  SentTypes'
  BY <1>29 DEF Delivering
<1>30. CASE KeyRevoked
  BY <1>30 DEF KeyRevoked
<1>31. CASE UNCHANGED vars
  BY <1>31 DEF vars
<1> QED BY <1>1, <1>2, <1>3, <1>4, <1>5, <1>6, <1>7, <1>8, <1>9, <1>10, <1>11, <1>12, <1>13,
           <1>14, <1>15, <1>16, <1>17, <1>18, <1>19, <1>20, <1>21, <1>22, <1>23, <1>24, <1>25,
           <1>26, <1>27, <1>28, <1>29, <1>30, <1>31
  DEF Next, StartSweep, Clients, Here, There, Delivering, KeyRevoked, PumpStep

(* No job is passed over more than PassLimit times.                          *)
LEMMA PassedStep == ASSUME JobInv, PassedTypes, [Next]_vars PROVE PassedTypes'
<1> USE LimitsNat DEF PassedTypes
<1>1. CASE Start
  BY <1>1 DEF Start
<1>2. ASSUME NEW last \in {0} \cup Jobs, SweepAtStart(last) PROVE PassedTypes'
  BY <1>2 DEF SweepAtStart, Drop
<1>3. CASE Crash
  BY <1>3 DEF Crash, DelivererDies
<1>4. CASE CleanUp
  BY <1>4 DEF CleanUp
<1>5. CASE DispatchStep
  BY <1>5 DEF DispatchStep
<1>6. CASE PumpStep /\ StartInLane
  <2>1. \E j \in Jobs : passed' = [passed EXCEPT ![j] = 0]
    BY <1>6, LaneRow DEF StartInLane, LaneReady, ForLane, Queued, In
  <2> QED BY <2>1
<1>7. CASE PumpStep /\ StartInSlot
  <2> DEFINE head == First(QueueReady)
             next == NextRunnable
  <2>1. next # head => passed[head] < PassLimit
    <3>1. next # head => ~(passed[head] >= PassLimit) BY DEF NextRunnable
    <3>2. head \in Jobs BY <1>7, NextIn, InvFacts DEF StartInSlot, QueueReady, ForQueue, Queued, In
    <3> QED BY <3>1, <3>2
  <2>2. head \in Jobs /\ next \in Jobs
    BY <1>7, NextIn, InvFacts DEF StartInSlot, QueueReady, ForQueue, Queued, In
  <2>3. next = head => passed' = [passed EXCEPT ![next] = 0] BY <1>7 DEF StartInSlot
  <2>4. next # head => passed' = [[passed EXCEPT ![head] = passed[head] + 1] EXCEPT ![next] = 0]
    BY <1>7 DEF StartInSlot
  <2> HIDE DEF head, next
  <2>5. next # head => passed[head] + 1 \in 0..PassLimit BY <2>1, <2>2
  <2>6. next # head => [passed EXCEPT ![head] = passed[head] + 1] \in [Jobs -> 0..PassLimit]
    BY <2>5, <2>2
  <2> QED BY <2>2, <2>3, <2>4, <2>6
<1>8. CASE PumpStep /\ PumpEnds
  BY <1>8 DEF PumpStep, PumpEnds
<1>9. ASSUME NEW kind \in Kinds, Submit(kind) PROVE PassedTypes'
  BY <1>9 DEF Submit
<1>10. ASSUME NEW j \in Jobs, Delete(j) PROVE PassedTypes'
  BY <1>10 DEF Delete, Drop
<1>11. ASSUME NEW j \in Jobs, Sweep(j) PROVE PassedTypes'
  BY <1>11 DEF Sweep, Drop
<1>12. CASE Reroute
  BY <1>12 DEF Reroute, Conclude
<1>13. ASSUME NEW j \in Jobs, NEW status \in Over, NEW loads \in BOOLEAN, RunEnds(j, status, loads)
      PROVE  PassedTypes'
  BY <1>13 DEF RunEnds, Conclude
<1>14. ASSUME NEW i \in Places, WorkerReleased(i) PROVE PassedTypes'
  BY <1>14 DEF WorkerReleased
<1>15. ASSUME NEW m \in Models, ModelGoes(m) PROVE PassedTypes'
  BY <1>15 DEF ModelGoes
<1>16. ASSUME NEW m \in Models, NEW ok \in BOOLEAN, DownloadEnds(m, ok) PROVE PassedTypes'
  BY <1>16 DEF DownloadEnds, Conclude, NothingConcluded
<1>17. ASSUME NEW j \in Jobs, UploadTaken(j) PROVE PassedTypes'
  BY <1>17 DEF UploadTaken
<1>18. ASSUME NEW j \in Jobs, RequestFails(j) PROVE PassedTypes'
  BY <1>18 DEF RequestFails, Fault, Unsent, NothingConcluded
<1>19. ASSUME NEW j \in Jobs, JobLost(j) PROVE PassedTypes'
  BY <1>19 DEF JobLost, Fault, Unsent, NothingConcluded
<1>20. ASSUME NEW j \in Jobs, TurnedAway(j) PROVE PassedTypes'
  BY <1>20 DEF TurnedAway, Fault, Unsent, NothingConcluded
<1>21. ASSUME NEW j \in Jobs, Rejected(j) PROVE PassedTypes'
  BY <1>21 DEF Rejected, Fault, Unsent, Conclude, NothingConcluded
<1>22. ASSUME NEW j \in Jobs, Abandoned(j) PROVE PassedTypes'
  BY <1>22 DEF Abandoned, Unsent
<1>23. ASSUME NEW j \in Jobs, HoldLapses(j) PROVE PassedTypes'
  BY <1>23 DEF HoldLapses
<1>24. ASSUME NEW j \in Jobs, NEW status \in Over, RemoteEnds(j, status) PROVE PassedTypes'
  BY <1>24 DEF RemoteEnds, Conclude, Unsent
<1>25. ASSUME NEW r \in RemoteSet, ProbeStarts(r) PROVE PassedTypes'
  BY <1>25 DEF ProbeStarts
<1>26. ASSUME NEW r \in RemoteSet, NEW found \in RemoteStates \ {"unknown"}, ProbeEnds(r, found)
      PROVE  PassedTypes'
  BY <1>26 DEF ProbeEnds, Conclude, NothingConcluded
<1>27. CASE Delivering /\ TimerFires
  BY <1>27 DEF Delivering
<1>28. ASSUME NEW j \in Jobs, Delivering, Due(j)
      PROVE  PassedTypes'
  BY <1>28 DEF Delivering
<1>29. ASSUME NEW j \in Jobs, NEW n \in trying[j], NEW answer \in Answers, Delivering, Answer(j, n, answer)
      PROVE  PassedTypes'
  BY <1>29 DEF Delivering
<1>30. CASE KeyRevoked
  BY <1>30 DEF KeyRevoked
<1>31. CASE UNCHANGED vars
  BY <1>31 DEF vars
<1> QED BY <1>1, <1>2, <1>3, <1>4, <1>5, <1>6, <1>7, <1>8, <1>9, <1>10, <1>11, <1>12, <1>13,
           <1>14, <1>15, <1>16, <1>17, <1>18, <1>19, <1>20, <1>21, <1>22, <1>23, <1>24, <1>25,
           <1>26, <1>27, <1>28, <1>29, <1>30, <1>31
  DEF Next, StartSweep, Clients, Here, There, Delivering, KeyRevoked, PumpStep

(* The jobs are finitely many, so every set of them can be counted.          *)
LEMMA JobsFinite ==
  /\ IsFiniteSet(Jobs) /\ Cardinality(Jobs) = MaxJobs
  /\ \A S \in SUBSET Jobs : IsFiniteSet(S) /\ Cardinality(S) \in Nat /\ Cardinality(S) <= MaxJobs
<1>1. IsFiniteSet(Jobs) /\ Cardinality(Jobs) = MaxJobs
  <2>1. 1 \in Int /\ MaxJobs \in Int /\ MaxJobs >= 1 OBVIOUS
  <2> QED BY <2>1, FS_Interval DEF Jobs
<1>2. ASSUME NEW S \in SUBSET Jobs
      PROVE  IsFiniteSet(S) /\ Cardinality(S) \in Nat /\ Cardinality(S) <= MaxJobs
  BY <1>1, FS_Subset, FS_CardinalityType
<1> QED BY <1>1, <1>2

(* A Worker that has a job holds a model when the job is over.               *)
LEMMA VacatedTypes ==
  ASSUME JobInv, up, SlotTypes, NEW S \in SUBSET Jobs, NEW loads \in BOOLEAN
  PROVE  Vacated(S, loads) \in [Places -> [job : Jobs \cup {NoJob}, model : Models \cup {NoModel}]]
<1>1. ASSUME NEW i \in Places, slots[i].job \in S
      PROVE  row[slots[i].job].kind.model \in Models
  <2>1. slots[i].job \in Jobs /\ slots[i].job # NoJob
    <3>1. slots[i].job \in Jobs BY <1>1
    <3>2. 0 \notin Jobs BY DEF Jobs
    <3> QED BY <3>1, <3>2 DEF NoJob
  <2>2. slots[i].job \in Running BY <2>1, InvFacts DEF InSlots
  <2>3. row[slots[i].job] \in JobRows BY <2>1, <2>2, InvFacts, JobRow DEF Running, In, Open
  <2> QED BY <2>3 DEF JobRows, KindSet
<1>2. ASSUME NEW i \in Places
      PROVE  Vacated(S, loads)[i] \in [job : Jobs \cup {NoJob}, model : Models \cup {NoModel}]
  <2>1. CASE slots[i].job \in S
    <3> DEFINE m == IF loads THEN row[slots[i].job].kind.model ELSE slots[i].model
    <3>1. m \in Models \cup {NoModel} BY <1>1, <2>1 DEF SlotTypes
    <3>2. Vacated(S, loads)[i] = [job |-> NoJob, model |-> m] BY <2>1 DEF Vacated
    <3> HIDE DEF m
    <3> QED BY <3>1, <3>2
  <2>2. CASE slots[i].job \notin S BY <2>2 DEF Vacated, SlotTypes
  <2> QED BY <2>1, <2>2
<1>3. Vacated(S, loads) = [i \in Places |-> Vacated(S, loads)[i]] BY DEF Vacated
<1> QED BY <1>2, <1>3

(* The places of the queue keep their type: a job and a model.               *)
LEMMA SlotStep == ASSUME JobInv, SlotTypes, [Next]_vars PROVE SlotTypes'
<1>1. CASE Start
  BY <1>1 DEF Start, SlotTypes
<1>2. ASSUME NEW last \in {0} \cup Jobs, SweepAtStart(last) PROVE SlotTypes'
  <2>1. Expired(last) \in SUBSET Jobs BY DEF Expired, Held, In
  <2> QED BY <1>2, <2>1, VacatedTypes DEF SweepAtStart, Drop, SlotTypes
<1>3. CASE Crash
  BY <1>3 DEF Crash, SlotTypes, NoWorker
<1>4. CASE CleanUp
  BY <1>4 DEF CleanUp, SlotTypes
<1>5. CASE DispatchStep
  BY <1>5 DEF DispatchStep, SlotTypes
<1>6. CASE PumpStep /\ StartInLane
  BY <1>6, LaneRow DEF PumpStep, StartInLane, LaneReady, ForLane, Queued, In, SlotTypes
<1>7. CASE PumpStep /\ StartInSlot
  <2>1. NextRunnable \in Jobs BY <1>7, SlotRow DEF QueueReady, ForQueue, Queued, In
  <2>2. PICK i \in PlacesFor(NextRunnable) : slots' = [slots EXCEPT ![i].job = NextRunnable]
    BY <1>7 DEF StartInSlot
  <2>3. i \in Places BY DEF PlacesFor
  <2> QED BY <1>7, <2>1, <2>2, <2>3 DEF StartInSlot, SlotTypes
<1>8. CASE PumpStep /\ PumpEnds
  BY <1>8 DEF PumpStep, PumpEnds, SlotTypes
<1>9. ASSUME NEW kind \in Kinds, Submit(kind) PROVE SlotTypes'
  BY <1>9 DEF Submit, SlotTypes
<1>10. ASSUME NEW j \in Jobs, Delete(j) PROVE SlotTypes'
  <2>1. PICK loads \in BOOLEAN : Drop({j}, loads) BY <1>10 DEF Delete
  <2>2. up BY <1>10 DEF Delete, Idle
  <2> QED BY <2>1, <2>2, VacatedTypes DEF Drop, SlotTypes
<1>11. ASSUME NEW j \in Jobs, Sweep(j) PROVE SlotTypes'
  <2>1. PICK loads \in BOOLEAN : Drop(Expired(j), loads) BY <1>11 DEF Sweep
  <2>2. up /\ Expired(j) \in SUBSET Jobs BY <1>11 DEF Sweep, Idle, Expired, Held, In
  <2> QED BY <2>1, <2>2, VacatedTypes DEF Drop, SlotTypes
<1>12. CASE Reroute
  BY <1>12 DEF Reroute, Conclude, SlotTypes
<1>13. ASSUME NEW j \in Jobs, NEW status \in Over, NEW loads \in BOOLEAN, RunEnds(j, status, loads)
      PROVE  SlotTypes'
  <2>1. up /\ {j} \in SUBSET Jobs BY <1>13 DEF RunEnds, Idle
  <2> QED BY <1>13, <2>1, VacatedTypes DEF RunEnds, Conclude, SlotTypes
<1>14. ASSUME NEW i \in Places, WorkerReleased(i) PROVE SlotTypes'
  BY <1>14 DEF WorkerReleased, SlotTypes, NoWorker
<1>15. ASSUME NEW m \in Models, ModelGoes(m) PROVE SlotTypes'
  BY <1>15 DEF ModelGoes, SlotTypes
<1>16. ASSUME NEW m \in Models, NEW ok \in BOOLEAN, DownloadEnds(m, ok) PROVE SlotTypes'
  BY <1>16 DEF DownloadEnds, Conclude, NothingConcluded, SlotTypes
<1>17. ASSUME NEW j \in Jobs, UploadTaken(j) PROVE SlotTypes'
  BY <1>17 DEF UploadTaken, SlotTypes
<1>18. ASSUME NEW j \in Jobs, RequestFails(j) PROVE SlotTypes'
  BY <1>18 DEF RequestFails, Fault, Unsent, NothingConcluded, SlotTypes
<1>19. ASSUME NEW j \in Jobs, JobLost(j) PROVE SlotTypes'
  BY <1>19 DEF JobLost, Fault, Unsent, NothingConcluded, SlotTypes
<1>20. ASSUME NEW j \in Jobs, TurnedAway(j) PROVE SlotTypes'
  BY <1>20 DEF TurnedAway, Fault, Unsent, NothingConcluded, SlotTypes
<1>21. ASSUME NEW j \in Jobs, Rejected(j) PROVE SlotTypes'
  BY <1>21 DEF Rejected, Fault, Unsent, Conclude, NothingConcluded, SlotTypes
<1>22. ASSUME NEW j \in Jobs, Abandoned(j) PROVE SlotTypes'
  BY <1>22 DEF Abandoned, SlotTypes
<1>23. ASSUME NEW j \in Jobs, HoldLapses(j) PROVE SlotTypes'
  BY <1>23 DEF HoldLapses, SlotTypes
<1>24. ASSUME NEW j \in Jobs, NEW status \in Over, RemoteEnds(j, status) PROVE SlotTypes'
  BY <1>24 DEF RemoteEnds, Conclude, Unsent, SlotTypes
<1>25. ASSUME NEW r \in RemoteSet, ProbeStarts(r) PROVE SlotTypes'
  BY <1>25 DEF ProbeStarts, SlotTypes
<1>26. ASSUME NEW r \in RemoteSet, NEW found \in RemoteStates \ {"unknown"}, ProbeEnds(r, found)
      PROVE  SlotTypes'
  BY <1>26 DEF ProbeEnds, Conclude, NothingConcluded, SlotTypes
<1>27. CASE Delivering /\ TimerFires
  BY <1>27 DEF Delivering, SlotTypes
<1>28. ASSUME NEW j \in Jobs, Delivering, Due(j)
      PROVE  SlotTypes'
  BY <1>28 DEF Delivering, SlotTypes
<1>29. ASSUME NEW j \in Jobs, NEW n \in trying[j], NEW answer \in Answers, Delivering, Answer(j, n, answer)
      PROVE  SlotTypes'
  BY <1>29 DEF Delivering, SlotTypes
<1>30. CASE KeyRevoked
  BY <1>30 DEF KeyRevoked, SlotTypes
<1>31. CASE UNCHANGED vars
  BY <1>31 DEF vars, SlotTypes
<1> QED BY <1>1, <1>2, <1>3, <1>4, <1>5, <1>6, <1>7, <1>8, <1>9, <1>10, <1>11, <1>12, <1>13,
           <1>14, <1>15, <1>16, <1>17, <1>18, <1>19, <1>20, <1>21, <1>22, <1>23, <1>24, <1>25,
           <1>26, <1>27, <1>28, <1>29, <1>30, <1>31
  DEF Next, StartSweep, Clients, Here, There, Delivering, KeyRevoked, PumpStep

(* The lane holds no more than it has room for.                              *)
LaneCounted == Cardinality(lane) <= LaneSlots

(* A lane some jobs have left has room.                                      *)
LEMMA LaneShrinks ==
  ASSUME lane \in SUBSET Jobs, LaneCounted, lane' \subseteq lane
  PROVE  LaneCounted'
<1>1. IsFiniteSet(lane) /\ lane' \in SUBSET Jobs BY JobsFinite
<1>2. Cardinality(lane') <= Cardinality(lane) BY <1>1, FS_Subset
<1>3. Cardinality(lane) \in Nat /\ Cardinality(lane') \in Nat BY <1>1, JobsFinite
<1> QED BY <1>2, <1>3, SlotsAssumption DEF LaneCounted

(* A job starts in the lane only while it has room.                          *)
LEMMA LaneStep == ASSUME JobInv, lane \in SUBSET Jobs, LaneCounted, [Next]_vars PROVE LaneCounted'
<1>1. CASE Start
  <2>1. lane' = lane BY <1>1 DEF Start
  <2> QED BY <2>1 DEF LaneCounted
<1>2. ASSUME NEW last \in {0} \cup Jobs, SweepAtStart(last) PROVE LaneCounted'
  <2>1. lane' \subseteq lane BY <1>2 DEF SweepAtStart, Drop
  <2> QED BY <2>1, LaneShrinks
<1>3. CASE Crash
  <2>1. lane' = {} BY <1>3 DEF Crash
  <2> QED BY <2>1, FS_EmptySet, SlotsAssumption DEF LaneCounted
<1>4. CASE CleanUp
  <2>1. lane' = lane BY <1>4 DEF CleanUp
  <2> QED BY <2>1 DEF LaneCounted
<1>5. CASE DispatchStep
  <2>1. lane' = lane BY <1>5 DEF DispatchStep
  <2> QED BY <2>1 DEF LaneCounted
<1>6. CASE PumpStep /\ StartInLane
  <2>1. \E j \in Jobs : lane' = lane \cup {j}
    BY <1>6, LaneRow DEF StartInLane, LaneReady, ForLane, Queued, In
  <2>3. IsFiniteSet(lane) /\ Cardinality(lane) \in Nat BY JobsFinite
  <2>2. Cardinality(lane) < LaneSlots
    BY <1>6, <2>3, SlotsAssumption DEF StartInLane, LaneHasRoom, LaneSize
  <2>4. Cardinality(lane') \in {Cardinality(lane), Cardinality(lane) + 1}
    BY <2>1, <2>3, FS_AddElement
  <2> QED BY <2>2, <2>3, <2>4, SlotsAssumption DEF LaneCounted
<1>7. CASE PumpStep /\ StartInSlot
  <2>1. lane' = lane BY <1>7 DEF PumpStep, StartInSlot
  <2> QED BY <2>1 DEF LaneCounted
<1>8. CASE PumpStep /\ PumpEnds
  <2>1. lane' = lane BY <1>8 DEF PumpStep, PumpEnds
  <2> QED BY <2>1 DEF LaneCounted
<1>9. ASSUME NEW kind \in Kinds, Submit(kind) PROVE LaneCounted'
  <2>1. lane' = lane BY <1>9 DEF Submit
  <2> QED BY <2>1 DEF LaneCounted
<1>10. ASSUME NEW j \in Jobs, Delete(j) PROVE LaneCounted'
  <2>1. lane' \subseteq lane BY <1>10 DEF Delete, Drop
  <2> QED BY <2>1, LaneShrinks
<1>11. ASSUME NEW j \in Jobs, Sweep(j) PROVE LaneCounted'
  <2>1. lane' \subseteq lane BY <1>11 DEF Sweep, Drop
  <2> QED BY <2>1, LaneShrinks
<1>12. CASE Reroute
  <2>1. lane' = lane BY <1>12 DEF Reroute, Conclude
  <2> QED BY <2>1 DEF LaneCounted
<1>13. ASSUME NEW j \in Jobs, NEW status \in Over, NEW loads \in BOOLEAN, RunEnds(j, status, loads)
      PROVE  LaneCounted'
  <2>1. lane' \subseteq lane BY <1>13 DEF RunEnds
  <2> QED BY <2>1, LaneShrinks
<1>14. ASSUME NEW i \in Places, WorkerReleased(i) PROVE LaneCounted'
  <2>1. lane' = lane BY <1>14 DEF WorkerReleased
  <2> QED BY <2>1 DEF LaneCounted
<1>15. ASSUME NEW m \in Models, ModelGoes(m) PROVE LaneCounted'
  <2>1. lane' = lane BY <1>15 DEF ModelGoes
  <2> QED BY <2>1 DEF LaneCounted
<1>16. ASSUME NEW m \in Models, NEW ok \in BOOLEAN, DownloadEnds(m, ok) PROVE LaneCounted'
  <2>1. lane' = lane BY <1>16 DEF DownloadEnds, Conclude, NothingConcluded
  <2> QED BY <2>1 DEF LaneCounted
<1>17. ASSUME NEW j \in Jobs, UploadTaken(j) PROVE LaneCounted'
  <2>1. lane' = lane BY <1>17 DEF UploadTaken
  <2> QED BY <2>1 DEF LaneCounted
<1>18. ASSUME NEW j \in Jobs, RequestFails(j) PROVE LaneCounted'
  <2>1. lane' = lane BY <1>18 DEF RequestFails, Fault, Unsent, NothingConcluded
  <2> QED BY <2>1 DEF LaneCounted
<1>19. ASSUME NEW j \in Jobs, JobLost(j) PROVE LaneCounted'
  <2>1. lane' = lane BY <1>19 DEF JobLost, Fault, Unsent, NothingConcluded
  <2> QED BY <2>1 DEF LaneCounted
<1>20. ASSUME NEW j \in Jobs, TurnedAway(j) PROVE LaneCounted'
  <2>1. lane' = lane BY <1>20 DEF TurnedAway, Fault, Unsent, NothingConcluded
  <2> QED BY <2>1 DEF LaneCounted
<1>21. ASSUME NEW j \in Jobs, Rejected(j) PROVE LaneCounted'
  <2>1. lane' = lane BY <1>21 DEF Rejected, Fault, Unsent, Conclude, NothingConcluded
  <2> QED BY <2>1 DEF LaneCounted
<1>22. ASSUME NEW j \in Jobs, Abandoned(j) PROVE LaneCounted'
  <2>1. lane' = lane BY <1>22 DEF Abandoned, Unsent
  <2> QED BY <2>1 DEF LaneCounted
<1>23. ASSUME NEW j \in Jobs, HoldLapses(j) PROVE LaneCounted'
  <2>1. lane' = lane BY <1>23 DEF HoldLapses
  <2> QED BY <2>1 DEF LaneCounted
<1>24. ASSUME NEW j \in Jobs, NEW status \in Over, RemoteEnds(j, status) PROVE LaneCounted'
  <2>1. lane' = lane BY <1>24 DEF RemoteEnds, Conclude, Unsent
  <2> QED BY <2>1 DEF LaneCounted
<1>25. ASSUME NEW r \in RemoteSet, ProbeStarts(r) PROVE LaneCounted'
  <2>1. lane' = lane BY <1>25 DEF ProbeStarts
  <2> QED BY <2>1 DEF LaneCounted
<1>26. ASSUME NEW r \in RemoteSet, NEW found \in RemoteStates \ {"unknown"}, ProbeEnds(r, found)
      PROVE  LaneCounted'
  <2>1. lane' = lane BY <1>26 DEF ProbeEnds, Conclude, NothingConcluded
  <2> QED BY <2>1 DEF LaneCounted
<1>27. CASE Delivering /\ TimerFires
  <2>1. lane' = lane BY <1>27 DEF Delivering
  <2> QED BY <2>1 DEF LaneCounted
<1>28. ASSUME NEW j \in Jobs, Delivering, Due(j)
      PROVE  LaneCounted'
  <2>1. lane' = lane BY <1>28 DEF Delivering
  <2> QED BY <2>1 DEF LaneCounted
<1>29. ASSUME NEW j \in Jobs, NEW n \in trying[j], NEW answer \in Answers, Delivering, Answer(j, n, answer)
      PROVE  LaneCounted'
  <2>1. lane' = lane BY <1>29 DEF Delivering
  <2> QED BY <2>1 DEF LaneCounted
<1>30. CASE KeyRevoked
  <2>1. lane' = lane BY <1>30 DEF KeyRevoked
  <2> QED BY <2>1 DEF LaneCounted
<1>31. CASE UNCHANGED vars
  <2>1. lane' = lane BY <1>31 DEF vars
  <2> QED BY <2>1 DEF LaneCounted
<1> QED BY <1>1, <1>2, <1>3, <1>4, <1>5, <1>6, <1>7, <1>8, <1>9, <1>10, <1>11, <1>12, <1>13,
           <1>14, <1>15, <1>16, <1>17, <1>18, <1>19, <1>20, <1>21, <1>22, <1>23, <1>24, <1>25,
           <1>26, <1>27, <1>28, <1>29, <1>30, <1>31
  DEF Next, StartSweep, Clients, Here, There, Delivering, KeyRevoked, PumpStep

(* The feed of each job.                                                     *)
FeedTypes == feed \in [Jobs -> Seq({"completed", "failed", "cancelled"})]

(* Finish adds events to the feed.                                           *)
LEMMA FinishFeed ==
  ASSUME FeedTypes, NEW table, NEW S, NEW status, Finish(table, S, status) PROVE FeedTypes'
<1>1. EventOf(status) \in {"completed", "failed", "cancelled"} BY DEF EventOf
<1>2. feed' = [j \in Jobs |-> feed'[j]] BY DEF Finish
<1>3. ASSUME NEW j \in Jobs PROVE feed'[j] \in Seq({"completed", "failed", "cancelled"})
  <2>1. feed'[j] = feed[j] \/ feed'[j] = Append(feed[j], EventOf(status)) BY DEF Finish
  <2>2. feed[j] \in Seq({"completed", "failed", "cancelled"}) BY DEF FeedTypes
  <2> QED BY <1>1, <2>1, <2>2
<1> QED BY <1>2, <1>3 DEF FeedTypes

(* RemoveJobs adds events to the feed.                                       *)
LEMMA RemoveFeed == ASSUME FeedTypes, NEW S, RemoveJobs(S) PROVE FeedTypes'
<1>1. feed' = [j \in Jobs |-> feed'[j]] BY DEF RemoveJobs
<1>2. ASSUME NEW j \in Jobs PROVE feed'[j] \in Seq({"completed", "failed", "cancelled"})
  <2>1. feed'[j] = feed[j] \/ feed'[j] = Append(feed[j], "cancelled") BY DEF RemoveJobs
  <2>2. feed[j] \in Seq({"completed", "failed", "cancelled"}) BY DEF FeedTypes
  <2> QED BY <2>1, <2>2
<1> QED BY <1>1, <1>2 DEF FeedTypes

(* The feed holds events.                                                    *)
LEMMA FeedStep == ASSUME FeedTypes, [Next]_vars PROVE FeedTypes'
<1>1. CASE Start
  <2>1. \E table, S, status : Finish(table, S, status) BY <1>1 DEF Start
  <2> QED BY <2>1, FinishFeed
<1>2. ASSUME NEW last \in {0} \cup Jobs, SweepAtStart(last) PROVE FeedTypes'
  BY <1>2, RemoveFeed DEF SweepAtStart, Drop
<1>3. CASE Crash
  <2>1. feed' = feed BY <1>3 DEF Crash, DelivererDies
  <2> QED BY <2>1 DEF FeedTypes
<1>4. CASE CleanUp
  <2>1. feed' = feed BY <1>4 DEF CleanUp
  <2> QED BY <2>1 DEF FeedTypes
<1>5. CASE DispatchStep
  <2>1. feed' = feed BY <1>5 DEF DispatchStep
  <2> QED BY <2>1 DEF FeedTypes
<1>6. CASE PumpStep /\ StartInLane
  <2>1. feed' = feed BY <1>6 DEF PumpStep, StartInLane
  <2> QED BY <2>1 DEF FeedTypes
<1>7. CASE PumpStep /\ StartInSlot
  <2>1. feed' = feed BY <1>7 DEF PumpStep, StartInSlot
  <2> QED BY <2>1 DEF FeedTypes
<1>8. CASE PumpStep /\ PumpEnds
  <2>1. feed' = feed BY <1>8 DEF PumpStep, PumpEnds
  <2> QED BY <2>1 DEF FeedTypes
<1>9. ASSUME NEW kind \in Kinds, Submit(kind) PROVE FeedTypes'
  <2>1. feed' = feed BY <1>9 DEF Submit
  <2> QED BY <2>1 DEF FeedTypes
<1>10. ASSUME NEW j \in Jobs, Delete(j) PROVE FeedTypes'
  BY <1>10, RemoveFeed DEF Delete, Drop
<1>11. ASSUME NEW j \in Jobs, Sweep(j) PROVE FeedTypes'
  BY <1>11, RemoveFeed DEF Sweep, Drop
<1>12. CASE Reroute
  BY <1>12, FinishFeed DEF Reroute, Conclude
<1>13. ASSUME NEW j \in Jobs, NEW status \in Over, NEW loads \in BOOLEAN, RunEnds(j, status, loads)
      PROVE  FeedTypes'
  BY <1>13, FinishFeed DEF RunEnds, Conclude
<1>14. ASSUME NEW i \in Places, WorkerReleased(i) PROVE FeedTypes'
  <2>1. feed' = feed BY <1>14 DEF WorkerReleased
  <2> QED BY <2>1 DEF FeedTypes
<1>15. ASSUME NEW m \in Models, ModelGoes(m) PROVE FeedTypes'
  <2>1. feed' = feed BY <1>15 DEF ModelGoes
  <2> QED BY <2>1 DEF FeedTypes
<1>16. ASSUME NEW m \in Models, NEW ok \in BOOLEAN, DownloadEnds(m, ok) PROVE FeedTypes'
  <2>1. feed' = feed \/ \E table, S, status : Finish(table, S, status)
    BY <1>16 DEF DownloadEnds, Conclude, NothingConcluded
  <2> QED BY <2>1, FinishFeed DEF FeedTypes
<1>17. ASSUME NEW j \in Jobs, UploadTaken(j) PROVE FeedTypes'
  <2>1. feed' = feed BY <1>17 DEF UploadTaken
  <2> QED BY <2>1 DEF FeedTypes
<1>18. ASSUME NEW j \in Jobs, RequestFails(j) PROVE FeedTypes'
  <2>1. feed' = feed BY <1>18 DEF RequestFails, Fault, Unsent, NothingConcluded
  <2> QED BY <2>1 DEF FeedTypes
<1>19. ASSUME NEW j \in Jobs, JobLost(j) PROVE FeedTypes'
  <2>1. feed' = feed BY <1>19 DEF JobLost, Fault, Unsent, NothingConcluded
  <2> QED BY <2>1 DEF FeedTypes
<1>20. ASSUME NEW j \in Jobs, TurnedAway(j) PROVE FeedTypes'
  <2>1. feed' = feed BY <1>20 DEF TurnedAway, Fault, Unsent, NothingConcluded
  <2> QED BY <2>1 DEF FeedTypes
<1>21. ASSUME NEW j \in Jobs, Rejected(j) PROVE FeedTypes'
  <2>1. feed' = feed \/ \E table, S, status : Finish(table, S, status)
    BY <1>21 DEF Rejected, Conclude, NothingConcluded
  <2> QED BY <2>1, FinishFeed DEF FeedTypes
<1>22. ASSUME NEW j \in Jobs, Abandoned(j) PROVE FeedTypes'
  <2>1. feed' = feed BY <1>22 DEF Abandoned, Unsent
  <2> QED BY <2>1 DEF FeedTypes
<1>23. ASSUME NEW j \in Jobs, HoldLapses(j) PROVE FeedTypes'
  <2>1. feed' = feed BY <1>23 DEF HoldLapses
  <2> QED BY <2>1 DEF FeedTypes
<1>24. ASSUME NEW j \in Jobs, NEW status \in Over, RemoteEnds(j, status) PROVE FeedTypes'
  BY <1>24, FinishFeed DEF RemoteEnds, Conclude
<1>25. ASSUME NEW r \in RemoteSet, ProbeStarts(r) PROVE FeedTypes'
  <2>1. feed' = feed BY <1>25 DEF ProbeStarts
  <2> QED BY <2>1 DEF FeedTypes
<1>26. ASSUME NEW r \in RemoteSet, NEW found \in RemoteStates \ {"unknown"}, ProbeEnds(r, found)
      PROVE  FeedTypes'
  <2>1. feed' = feed \/ \E table, S, status : Finish(table, S, status)
    BY <1>26 DEF ProbeEnds, Conclude, NothingConcluded
  <2> QED BY <2>1, FinishFeed DEF FeedTypes
<1>27. CASE Delivering /\ TimerFires
  <2>1. feed' = feed BY <1>27 DEF Delivering
  <2> QED BY <2>1 DEF FeedTypes
<1>28. ASSUME NEW j \in Jobs, Delivering, Due(j)
      PROVE  FeedTypes'
  <2>1. feed' = feed BY <1>28 DEF Delivering
  <2> QED BY <2>1 DEF FeedTypes
<1>29. ASSUME NEW j \in Jobs, NEW n \in trying[j], NEW answer \in Answers, Delivering, Answer(j, n, answer)
      PROVE  FeedTypes'
  <2>1. feed' = feed BY <1>29 DEF Delivering
  <2> QED BY <2>1 DEF FeedTypes
<1>30. CASE KeyRevoked
  <2>1. feed' = feed BY <1>30 DEF KeyRevoked
  <2> QED BY <2>1 DEF FeedTypes
<1>31. CASE UNCHANGED vars
  <2>1. feed' = feed BY <1>31 DEF vars
  <2> QED BY <2>1 DEF FeedTypes
<1> QED BY <1>1, <1>2, <1>3, <1>4, <1>5, <1>6, <1>7, <1>8, <1>9, <1>10, <1>11, <1>12, <1>13,
           <1>14, <1>15, <1>16, <1>17, <1>18, <1>19, <1>20, <1>21, <1>22, <1>23, <1>24, <1>25,
           <1>26, <1>27, <1>28, <1>29, <1>30, <1>31
  DEF Next, StartSweep, Clients, Here, There, Delivering, KeyRevoked, PumpStep

(* The outbox's part of the invariant, read from JobInv and back.            *)
LEMMA OutboxOf == ASSUME JobInv PROVE OutboxOK /\ NotToldYet
BY DEF JobInv, TypeOK, OutboxTypeOK, OutInv, TriesInv, OutboxOK, DeliveryOK

(* From the invariant of each delivery to that of the table.                 *)
LEMMA OutboxBack ==
  ASSUME OutboxOK
  PROVE  /\ outbox \in [Jobs -> Deliveries]
         /\ trying \in [Jobs -> SUBSET (1..(MaxTries + MaxCrashes))]
         /\ crashes \in 0..MaxCrashes
         /\ \A j \in Jobs : outbox[j].due => outbox[j].state = "pending"
         /\ TriesInv
BY DEF TriesInv, OutboxOK, DeliveryOK

(* Nothing is told of a job before its end: no step writes to the outbox or  *)
(* to the feed of a job that it leaves open.                                 *)
LEMMA ToldStep ==
  ASSUME JobInv, [Next]_vars
  PROVE  OutboxOK' /\ NotToldYet'
<1>1. OutboxOK /\ NotToldYet /\ OutboxMoves BY OutboxOf, OutStep
<1>2. OutboxOK' BY <1>1, OutboxSteps
<1>3. StoreMoves BY RowStep
<1>4. ASSUME NEW j \in Jobs, row'[j].status \in Open \cup {"none"}
      PROVE  outbox'[j] = NoDelivery /\ feed'[j] = <<>>
  <2>1. Stays(j) \/ Ends(j) \/ Leaves(j) \/ Comes(j) BY <1>3 DEF StoreMoves
  <2>2. ~Ends(j) BY <1>4 DEF Ends, Open, Over
  <2>3. ~Leaves(j) BY <1>4 DEF Leaves, GoneRow, Open
  <2>4. /\ row[j].status \in Open \cup {"none"}
        /\ feed'[j] = feed[j] /\ Told(j)' = Told(j)
    BY <1>4, <2>1, <2>2, <2>3 DEF Stays, Comes
  <2>5. outbox[j] = NoDelivery /\ feed[j] = <<>> BY <1>1, <2>4 DEF NotToldYet
  <2>6. outbox'[j].state = "none" BY <2>4, <2>5 DEF Told, NoDelivery
  <2>7. outbox'[j] = NoDelivery BY <1>2, <2>6 DEF OutboxOK, DeliveryOK
  <2> QED BY <2>4, <2>5, <2>7
<1>5. NotToldYet' BY <1>4 DEF NotToldYet
<1> QED BY <1>2, <1>5

-----------------------------------------------------------------------------

(* A server that died stays empty until it starts.                           *)
LEMMA DownStep == ASSUME DownIsEmpty, [Next]_vars PROVE DownIsEmpty'
<1> USE DEF DownIsEmpty
<1>1. CASE Start
  BY <1>1 DEF Start, Idle, Fault
<1>2. ASSUME NEW last \in {0} \cup Jobs, SweepAtStart(last) PROVE DownIsEmpty'
  BY <1>2 DEF SweepAtStart, Drop, Idle, Fault
<1>3. CASE Crash
  BY <1>3 DEF Crash, DelivererDies, Idle, Fault
<1>4. CASE CleanUp
  BY <1>4 DEF CleanUp, Idle, Fault
<1>5. CASE DispatchStep
  BY <1>5 DEF DispatchStep, Idle, Fault
<1>6. CASE PumpStep /\ StartInLane
  BY <1>6 DEF PumpStep, StartInLane, Idle, Fault
<1>7. CASE PumpStep /\ StartInSlot
  BY <1>7 DEF PumpStep, StartInSlot, Idle, Fault
<1>8. CASE PumpStep /\ PumpEnds
  BY <1>8 DEF PumpStep, PumpEnds, Idle, Fault
<1>9. ASSUME NEW kind \in Kinds, Submit(kind) PROVE DownIsEmpty'
  BY <1>9 DEF Submit, Idle, Fault
<1>10. ASSUME NEW j \in Jobs, Delete(j) PROVE DownIsEmpty'
  BY <1>10 DEF Delete, Drop, Idle, Fault
<1>11. ASSUME NEW j \in Jobs, Sweep(j) PROVE DownIsEmpty'
  BY <1>11 DEF Sweep, Drop, Idle, Fault
<1>12. CASE Reroute
  BY <1>12 DEF Reroute, Conclude, Idle, Fault
<1>13. ASSUME NEW j \in Jobs, NEW status \in Over, NEW loads \in BOOLEAN, RunEnds(j, status, loads)
      PROVE  DownIsEmpty'
  BY <1>13 DEF RunEnds, Conclude, Idle, Fault
<1>14. ASSUME NEW i \in Places, WorkerReleased(i) PROVE DownIsEmpty'
  BY <1>14 DEF WorkerReleased, Idle, Fault
<1>15. ASSUME NEW m \in Models, ModelGoes(m) PROVE DownIsEmpty'
  BY <1>15 DEF ModelGoes, Idle, Fault
<1>16. ASSUME NEW m \in Models, NEW ok \in BOOLEAN, DownloadEnds(m, ok) PROVE DownIsEmpty'
  BY <1>16 DEF DownloadEnds, Conclude, NothingConcluded, Idle, Fault
<1>17. ASSUME NEW j \in Jobs, UploadTaken(j) PROVE DownIsEmpty'
  BY <1>17 DEF UploadTaken, Idle, Fault
<1>18. ASSUME NEW j \in Jobs, RequestFails(j) PROVE DownIsEmpty'
  BY <1>18 DEF RequestFails, Fault, Unsent, NothingConcluded, Idle, Fault
<1>19. ASSUME NEW j \in Jobs, JobLost(j) PROVE DownIsEmpty'
  BY <1>19 DEF JobLost, Fault, Unsent, NothingConcluded, Idle, Fault
<1>20. ASSUME NEW j \in Jobs, TurnedAway(j) PROVE DownIsEmpty'
  BY <1>20 DEF TurnedAway, Fault, Unsent, NothingConcluded, Idle, Fault
<1>21. ASSUME NEW j \in Jobs, Rejected(j) PROVE DownIsEmpty'
  BY <1>21 DEF Rejected, Fault, Unsent, Conclude, NothingConcluded, Idle, Fault
<1>22. ASSUME NEW j \in Jobs, Abandoned(j) PROVE DownIsEmpty'
  BY <1>22 DEF Abandoned, Unsent, Idle, Fault
<1>23. ASSUME NEW j \in Jobs, HoldLapses(j) PROVE DownIsEmpty'
  BY <1>23 DEF HoldLapses, Idle, Fault
<1>24. ASSUME NEW j \in Jobs, NEW status \in Over, RemoteEnds(j, status) PROVE DownIsEmpty'
  BY <1>24 DEF RemoteEnds, Conclude, Unsent, Idle, Fault
<1>25. ASSUME NEW r \in RemoteSet, ProbeStarts(r) PROVE DownIsEmpty'
  BY <1>25 DEF ProbeStarts, Idle, Fault
<1>26. ASSUME NEW r \in RemoteSet, NEW found \in RemoteStates \ {"unknown"}, ProbeEnds(r, found)
      PROVE  DownIsEmpty'
  BY <1>26 DEF ProbeEnds, Conclude, NothingConcluded, Idle, Fault
<1>27. CASE Delivering /\ TimerFires
  BY <1>27 DEF Delivering, TimerFires, Idle
<1>28. ASSUME NEW j \in Jobs, Delivering, Due(j)
      PROVE  DownIsEmpty'
  BY <1>28 DEF Delivering, Due, Idle
<1>29. ASSUME NEW j \in Jobs, NEW n \in trying[j], NEW answer \in Answers, Delivering, Answer(j, n, answer)
      PROVE  DownIsEmpty'
  BY <1>29 DEF Delivering, Answer, Idle
<1>30. CASE KeyRevoked
  BY <1>30 DEF KeyRevoked, Revoke, Idle
<1>31. CASE UNCHANGED vars
  BY <1>31 DEF vars
<1> QED BY <1>1, <1>2, <1>3, <1>4, <1>5, <1>6, <1>7, <1>8, <1>9, <1>10, <1>11, <1>12, <1>13,
           <1>14, <1>15, <1>16, <1>17, <1>18, <1>19, <1>20, <1>21, <1>22, <1>23, <1>24, <1>25,
           <1>26, <1>27, <1>28, <1>29, <1>30, <1>31
  DEF Next, StartSweep, Clients, Here, There, Delivering, KeyRevoked, PumpStep

(* A job that goes on being open, or ends, is named before and, unless its   *)
(* end is this step, after.                                                  *)
LEMMA NamedOpen ==
  ASSUME JobInv, NEW S, NEW status \in Open, Becomes(S, status) PROVE Named(row') = Named(row)
<1>1. ASSUME NEW j \in Jobs PROVE j \in Named(row') <=> j \in Named(row)
  <2>1. CASE row'[j] = row[j] BY <2>1 DEF Named, Held, In
  <2>2. CASE row'[j] # row[j]
    <3>1. row[j].status \in Open BY <2>2 DEF Becomes
    <3>2. row'[j].status \in Open BY <3>1 DEF Becomes
    <3> QED BY <3>1, <3>2 DEF Named, Held, In
  <2> QED BY <2>1, <2>2
<1> QED BY <1>1 DEF Named, Held, In

(* A job that ends keeps its upload or gives it up, and no other does.       *)
LEMMA NamedOver ==
  ASSUME JobInv, NEW S, NEW status \in Over, Becomes(S, status)
  PROVE  Named(row') \subseteq Named(row) /\ Named(row) \subseteq Named(row') \cup S
<1>1. ASSUME NEW j \in Jobs
      PROVE  (j \in Named(row') => j \in Named(row)) /\ (j \in Named(row) => j \in Named(row') \cup S)
  <2>1. CASE row'[j] = row[j] BY <2>1 DEF Named, Held, In
  <2>2. CASE row'[j] # row[j]
    <3>1. row[j].status \in Open BY <2>2 DEF Becomes
    <3>2. j \in Named(row) BY <3>1 DEF Named, Held, In
    <3>3. j \notin S => row'[j].status \in Open BY <3>1 DEF Becomes
    <3>4. j \notin S => j \in Named(row') BY <3>3 DEF Named, Held, In
    <3> QED BY <3>2, <3>4
  <2> QED BY <2>1, <2>2
<1> QED BY <1>1 DEF Named, Held, In

(* A job that moves and stays open keeps its upload.                         *)
LEMMA UploadsOpen ==
  ASSUME JobInv, NEW S, NEW status \in Open, Becomes(S, status), UNCHANGED <<up, uploads, clean>>
  PROVE  UploadsInv'
BY NamedOpen DEF JobInv, UploadsInv

(* Nothing of the uploads changes.                                           *)
LEMMA UploadsSame ==
  ASSUME JobInv, UNCHANGED <<up, row, uploads, clean>> PROVE UploadsInv'
BY DEF JobInv, UploadsInv

(* The upload of a job that ends is kept or is to be tidied.                 *)
LEMMA UploadsOver ==
  ASSUME JobInv, NEW table, Edited(table), NEW S \in SUBSET Jobs, NEW status \in Over,
         Conclude(table, S, status), UNCHANGED <<up, uploads>>
  PROVE  UploadsInv'
<1>1. Becomes(Finishable(row, S, status), status) /\ clean' = clean \cup S
  BY FinishRow DEF Conclude
<1>2. Finishable(row, S, status) \subseteq S BY DEF Finishable
<1> QED BY <1>1, <1>2, NamedOver DEF JobInv, UploadsInv

(* So is that of a job that waits and fails.                                 *)
LEMMA UploadsWaiting ==
  ASSUME JobInv, WaitingFail, UNCHANGED <<up, uploads>> PROVE UploadsInv'
<1>1. CASE row' = row /\ NothingConcluded BY <1>1, UploadsSame DEF NothingConcluded
<1>2. ASSUME NEW S \in SUBSET Queued, Conclude(row, S, "failed") PROVE UploadsInv'
  <2>1. S \in SUBSET Jobs BY DEF Queued, In
  <2> QED BY <1>2, <2>1, EditedSelf, UploadsOver DEF Over
<1> QED BY <1>1, <1>2 DEF WaitingFail

(* So is that of a job that is deleted.                                      *)
LEMMA UploadsDrop ==
  ASSUME JobInv, Tidy, up, NEW S \in SUBSET Held(row), NEW loads, Drop(S, loads)
  PROVE  UploadsInv'
<1>1. Named(row') = Named(row) \ S
  BY DEF Drop, RemoveJobs, Named, Held, In, GoneRow, Open, Over
<1>2. uploads' = uploads /\ clean' = S /\ up' = up BY DEF Drop
<1> QED BY <1>1, <1>2 DEF JobInv, UploadsInv, Tidy

(* Every step keeps the uploads of the jobs that need them, and forgets none *)
(* that is to go.                                                            *)
LEMMA UploadsStep == ASSUME JobInv, [Next]_vars PROVE UploadsInv'
<1>1. CASE Start
  <2>1. PICK fails \in SUBSET In(row, Open) : Restarts(fails) BY <1>1, StartRow
  <2>2. \A j \in Jobs : j \in Named(row') <=>
                        j \in Named(row) /\ (j \in fails => row[j].kind.keep)
    <3> TAKE j \in Jobs
    <3>1. row[j].status \in Open \cup Over => row'[j].kind = row[j].kind
      BY <2>1, InvFacts, JobRow DEF Restarts, Edits
    <3>2. row[j].status \in Open => j \in Named(row) BY DEF Named, Held, In
    <3>3. CASE j \in fails
      <4>1. row[j].status \in Open /\ row'[j].status = "failed" BY <2>1, <3>3 DEF Restarts, In
      <4>2. j \in Named(row') <=> row'[j].kind.keep BY <4>1 DEF Named, Held, In, Open, Over
      <4> QED BY <3>1, <3>2, <3>3, <4>1, <4>2
    <3>4. CASE j \notin fails
      <4>1. row'[j].status = IF row[j].status = "running" THEN "queued" ELSE row[j].status
        BY <2>1, <3>4 DEF Restarts
      <4>2. /\ row'[j].status \in Open <=> row[j].status \in Open
            /\ row'[j].status \in Over <=> row[j].status \in Over
        BY <4>1 DEF Open, Over
      <4> QED BY <3>1, <3>4, <4>2 DEF Named, Held, In
    <3> QED BY <3>3, <3>4
  <2>3. Named(row') \subseteq Jobs /\ Named(row) \subseteq Jobs BY DEF Named, Held, In
  <2> QED BY <2>1, <2>2, <2>3 DEF JobInv, UploadsInv, Restarts
<1>2. ASSUME NEW last \in {0} \cup Jobs, SweepAtStart(last) PROVE UploadsInv'
  <2>1. Expired(last) \in SUBSET Held(row) BY DEF Expired
  <2> QED BY <1>2, <2>1, UploadsDrop DEF SweepAtStart
<1>3. CASE Crash
  BY <1>3 DEF Crash, JobInv, UploadsInv
<1>4. CASE CleanUp
  BY <1>4 DEF CleanUp, JobInv, UploadsInv
<1>5. CASE DispatchStep
  <2>1. UNCHANGED <<up, uploads, clean>> BY <1>5 DEF DispatchStep
  <2>2. CASE Sendable # {} BY <1>5, <2>1, <2>2, DispatchRow, UploadsOpen DEF Open
  <2>3. CASE Sendable = {} BY <1>5, <2>1, <2>3, UploadsSame DEF DispatchStep
  <2> QED BY <2>2, <2>3
<1>6. CASE PumpStep /\ StartInLane
  BY <1>6, LaneRow, UploadsOpen DEF PumpStep, Open
<1>7. CASE PumpStep /\ StartInSlot
  BY <1>7, SlotRow, UploadsOpen DEF PumpStep, Open
<1>8. CASE PumpStep /\ PumpEnds
  BY <1>8, UploadsSame DEF PumpStep, PumpEnds
<1>9. ASSUME NEW kind \in Kinds, Submit(kind) PROVE UploadsInv'
  <2>1. PICK j \in Jobs : Arrives(j) BY <1>9, SubmitRow
  <2>2. Named(row') = Named(row) \cup {j}
    <3>1. \A i \in Jobs \ {j} : i \in Named(row') <=> i \in Named(row) BY <2>1 DEF Arrives, Named, Held, In
    <3>2. j \in Named(row') BY <2>1 DEF Arrives, Named, Held, In, Open
    <3>3. Named(row') \subseteq Jobs /\ Named(row) \subseteq Jobs BY DEF Named, Held, In
    <3> QED BY <3>1, <3>2, <3>3
  <2>3. UNCHANGED <<up, clean>> BY <1>9 DEF Submit
  <2> QED BY <2>1, <2>2, <2>3 DEF Arrives, JobInv, UploadsInv
<1>10. ASSUME NEW j \in Jobs, Delete(j) PROVE UploadsInv'
  BY <1>10, UploadsDrop DEF Delete, Idle
<1>11. ASSUME NEW j \in Jobs, Sweep(j) PROVE UploadsInv'
  <2>1. Expired(j) \in SUBSET Held(row) BY DEF Expired
  <2> QED BY <1>11, <2>1, UploadsDrop DEF Sweep, Idle
<1>12. CASE Reroute
  <2>1. UNCHANGED <<up, uploads>> BY <1>12 DEF Reroute
  <2> QED BY <1>12, <2>1, RerouteRow, UploadsWaiting
<1>13. ASSUME NEW j \in Jobs, NEW status \in Over, NEW loads \in BOOLEAN, RunEnds(j, status, loads)
      PROVE  UploadsInv'
  <2>1. {j} \in SUBSET Jobs /\ Conclude(row, {j}, status) /\ UNCHANGED <<up, uploads>>
    BY <1>13 DEF RunEnds
  <2> QED BY <2>1, EditedSelf, UploadsOver DEF Over
<1>14. ASSUME NEW i \in Places, WorkerReleased(i) PROVE UploadsInv'
  BY <1>14, UploadsSame DEF WorkerReleased
<1>15. ASSUME NEW m \in Models, ModelGoes(m) PROVE UploadsInv'
  BY <1>15, UploadsSame DEF ModelGoes
<1>16. ASSUME NEW m \in Models, NEW ok \in BOOLEAN, DownloadEnds(m, ok) PROVE UploadsInv'
  <2>1. UNCHANGED <<up, uploads>> BY <1>16 DEF DownloadEnds
  <2> QED BY <1>16, <2>1, DownloadRow, UploadsWaiting
<1>17. ASSUME NEW j \in Jobs, UploadTaken(j) PROVE UploadsInv'
  <2>1. UNCHANGED <<up, uploads, clean>> BY <1>17 DEF UploadTaken
  <2> QED BY <1>17, <2>1, UploadTakenRow, UploadsOpen DEF Open
<1>18. ASSUME NEW j \in Jobs, RequestFails(j) PROVE UploadsInv'
  BY <1>18, BackRow, UploadsOpen DEF NothingConcluded, Open
<1>19. ASSUME NEW j \in Jobs, JobLost(j) PROVE UploadsInv'
  BY <1>19, BackRow, UploadsOpen DEF NothingConcluded, Open
<1>20. ASSUME NEW j \in Jobs, TurnedAway(j) PROVE UploadsInv'
  BY <1>20, BackRow, UploadsOpen DEF NothingConcluded, Open
<1>21. ASSUME NEW j \in Jobs, Rejected(j) PROVE UploadsInv'
  <2>1. CASE Becomes({j}, "queued") /\ NothingConcluded
    BY <1>21, <2>1, RejectedRow, UploadsOpen DEF NothingConcluded, Open
  <2>2. CASE \E table : Edited(table) /\ Conclude(table, {j}, "failed")
    <3>1. {j} \in SUBSET Jobs /\ UNCHANGED <<up, uploads>> BY <1>21, RejectedRow
    <3> QED BY <2>2, <3>1, UploadsOver DEF Over
  <2> QED BY <1>21, <2>1, <2>2, RejectedRow
<1>22. ASSUME NEW j \in Jobs, Abandoned(j) PROVE UploadsInv'
  BY <1>22, UploadsSame DEF Abandoned, Unsent
<1>23. ASSUME NEW j \in Jobs, HoldLapses(j) PROVE UploadsInv'
  BY <1>23, UploadsSame DEF HoldLapses
<1>24. ASSUME NEW j \in Jobs, NEW status \in Over, RemoteEnds(j, status) PROVE UploadsInv'
  <2>1. {j} \in SUBSET Jobs /\ Conclude(row, {j}, status) /\ UNCHANGED <<up, uploads>>
    BY <1>24 DEF RemoteEnds
  <2> QED BY <2>1, EditedSelf, UploadsOver DEF Over
<1>25. ASSUME NEW r \in RemoteSet, ProbeStarts(r) PROVE UploadsInv'
  BY <1>25, UploadsSame DEF ProbeStarts
<1>26. ASSUME NEW r \in RemoteSet, NEW found \in RemoteStates \ {"unknown"}, ProbeEnds(r, found)
      PROVE  UploadsInv'
  <2>1. UNCHANGED <<up, uploads>> BY <1>26 DEF ProbeEnds
  <2> QED BY <1>26, <2>1, ProbeRow, UploadsWaiting
<1>27. CASE Delivering /\ TimerFires
  BY <1>27, UploadsSame DEF Delivering, TimerFires
<1>28. ASSUME NEW j \in Jobs, Delivering, Due(j)
      PROVE  UploadsInv'
  BY <1>28, UploadsSame DEF Delivering, Due
<1>29. ASSUME NEW j \in Jobs, NEW n \in trying[j], NEW answer \in Answers, Delivering, Answer(j, n, answer)
      PROVE  UploadsInv'
  BY <1>29, UploadsSame DEF Delivering, Answer
<1>30. CASE KeyRevoked
  BY <1>30, UploadsSame DEF KeyRevoked, Revoke
<1>31. CASE UNCHANGED vars
  BY <1>31, UploadsSame DEF vars
<1> QED BY <1>1, <1>2, <1>3, <1>4, <1>5, <1>6, <1>7, <1>8, <1>9, <1>10, <1>11, <1>12, <1>13,
           <1>14, <1>15, <1>16, <1>17, <1>18, <1>19, <1>20, <1>21, <1>22, <1>23, <1>24, <1>25,
           <1>26, <1>27, <1>28, <1>29, <1>30, <1>31
  DEF Next, StartSweep, Clients, Here, There, Delivering, KeyRevoked, PumpStep

(* Who is out on a remote after a step, of the jobs.                         *)
OutAfter(S) == \A j \in Jobs : (j \in OnRemotes)' => j \in S

(* Jobs with a start left move, and none goes out that was not.              *)
LEMMA StartsKept ==
  ASSUME JobInv, NEW S \in SUBSET {j \in Jobs : row[j].starts < MaxStarts},
         NEW status, Becomes(S, status), SameStarts, up, OutAfter(OnRemotes)
  PROVE  StartsInv'
<1> SUFFICES ASSUME NEW j \in Jobs, (j \in Queued)' \/ (j \in OnRemotes)'
             PROVE  row'[j].starts < MaxStarts
  BY DEF StartsInv
<1>1. row[j].starts < MaxStarts
  <2>1. CASE (j \in OnRemotes)' BY <2>1 DEF OutAfter, JobInv, StartsInv
  <2>2. CASE j \in S BY <2>2
  <2>3. CASE (j \in Queued)' /\ j \notin S
    <3>1. row'[j].status = "queued" BY <2>3 DEF Queued, In
    <3>2. j \in Queued BY <3>1, <2>3 DEF Becomes, Queued, In
    <3> QED BY <3>2 DEF JobInv, StartsInv
  <2> QED BY <2>1, <2>2, <2>3
<1> QED BY <1>1 DEF SameStarts

(* Nothing of the starts changes.                                            *)
LEMMA StartsSame == ASSUME JobInv, UNCHANGED <<up, row, sent>> PROVE StartsInv'
BY DEF JobInv, StartsInv, Queued, In, OnRemotes

(* A job that starts here is out on no remote.                               *)
LEMMA StartsHere ==
  ASSUME JobInv, up, NEW j \in Queued, Becomes({j}, "running"),
         \A i \in Jobs \ {j} : row'[i] = row[i], UNCHANGED <<up, sent>>
  PROVE  StartsInv'
<1>1. j \notin OnRemotes
  <2>1. row[j].status = "queued" BY DEF Queued, In
  <2> QED BY <2>1, SentRuns
<1>2. row'[j].status = "running" BY DEF Becomes, Queued, In
<1> QED BY <1>1, <1>2 DEF JobInv, StartsInv, Queued, In, OnRemotes

(* Jobs that end, or that wait and fail.                                     *)
LEMMA StartsEnd ==
  ASSUME JobInv, up, NEW table, Edited(table), NEW S \in SUBSET Jobs, NEW status \in Over,
         Finish(table, S, status), up' = up, OutAfter(OnRemotes)
  PROVE  StartsInv'
<1>1. Becomes(Finishable(row, S, status), status) /\ SameStarts BY FinishRow
<1> SUFFICES ASSUME NEW j \in Jobs, (j \in Queued)' \/ (j \in OnRemotes)'
             PROVE  row'[j].starts < MaxStarts
  BY DEF StartsInv
<1>2. row[j].starts < MaxStarts
  <2>1. CASE (j \in OnRemotes)' BY <2>1 DEF OutAfter, JobInv, StartsInv
  <2>2. CASE (j \in Queued)'
    <3>1. row'[j].status = "queued" BY <2>2 DEF Queued, In
    <3>2. j \in Queued BY <3>1, <1>1 DEF Becomes, Queued, In, Over
    <3> QED BY <3>2 DEF JobInv, StartsInv
  <2> QED BY <2>1, <2>2
<1> QED BY <1>1, <1>2 DEF SameStarts

(* A job that waits and fails is no longer one that needs a start.           *)
LEMMA StartsWaiting ==
  ASSUME JobInv, up, WaitingFail, UNCHANGED <<up, sent>> PROVE StartsInv'
<1>1. OutAfter(OnRemotes) BY DEF OutAfter, OnRemotes
<1>2. CASE row' = row /\ NothingConcluded BY <1>2, StartsSame
<1>3. ASSUME NEW S \in SUBSET Queued, Conclude(row, S, "failed") PROVE StartsInv'
  <2>1. S \in SUBSET Jobs BY DEF Queued, In
  <2> QED BY <1>1, <1>3, <2>1, EditedSelf, StartsEnd DEF Conclude, Over
<1> QED BY <1>2, <1>3 DEF WaitingFail

(* Nor is a job that is deleted.                                             *)
LEMMA StartsDrop ==
  ASSUME JobInv, up, NEW S \in SUBSET Held(row), NEW loads, Drop(S, loads)
  PROVE  StartsInv'
<1>1. OutAfter(OnRemotes \ S)
  <2> SUFFICES ASSUME NEW j \in Jobs, (j \in OnRemotes)' PROVE j \in OnRemotes \ S
    BY DEF OutAfter
  <2>1. sent'[j] = IF j \in S /\ sent[j] # NotSent THEN [sent[j] EXCEPT !.phase = "abandoned"]
                   ELSE sent[j]
    BY DEF Drop
  <2>2. sent'[j].phase \in {"upload", "follow"} BY DEF OnRemotes
  <2>3. CASE j \in S /\ sent[j] # NotSent
    <3>1. sent[j] \in [to : RemoteSet, phase : Phases] BY <2>3, InvFacts
    <3>2. sent'[j].phase = "abandoned" BY <2>1, <2>3, <3>1
    <3> QED BY <2>2, <3>2
  <2>4. CASE j \in S /\ sent[j] = NotSent BY <2>1, <2>2, <2>4 DEF NotSent
  <2>5. CASE j \notin S BY <2>1, <2>2, <2>5 DEF OnRemotes
  <2> QED BY <2>3, <2>4, <2>5
<1> SUFFICES ASSUME NEW j \in Jobs, (j \in Queued)' \/ (j \in OnRemotes)'
             PROVE  row'[j].starts < MaxStarts
  BY DEF StartsInv
<1>2. j \notin S
  <2>1. j \in S => row'[j] = GoneRow BY DEF Drop, RemoveJobs
  <2> QED BY <1>1, <2>1 DEF Queued, In, GoneRow, OutAfter
<1>3. row'[j] = row[j] BY <1>2 DEF Drop, RemoveJobs
<1> QED BY <1>1, <1>3 DEF JobInv, StartsInv, Queued, In, OutAfter

(* The request of a job ends: no other job's does.                           *)
LEMMA UnsentOut ==
  ASSUME JobInv, NEW j \in Jobs, Unsent(j)
  PROVE  /\ OnRemotes' = OnRemotes \ {j}
         /\ OutAfter(OnRemotes)
         /\ \A i \in Jobs \ {j} : sent'[i] = sent[i]
         /\ sent'[j] = NotSent
<1>1. sent' = [sent EXCEPT ![j] = NotSent] BY DEF Unsent
<1>2. /\ sent'[j] = NotSent /\ \A i \in Jobs \ {j} : sent'[i] = sent[i] BY <1>1, InvFacts
<1>3. OnRemotes' = OnRemotes \ {j} BY <1>2 DEF OnRemotes, NotSent
<1> QED BY <1>2, <1>3 DEF OutAfter

(* Every step leaves the jobs that wait a start.                             *)
LEMMA StartsStep == ASSUME JobInv, [Next]_vars PROVE StartsInv'
<1>1. CASE Start
  <2>1. PICK fails \in SUBSET In(row, Open) : Restarts(fails) BY <1>1, StartRow
  <2>2. sent' = sent /\ ~up BY <1>1 DEF Start
  <2>3. \A j \in Jobs : sent[j] = NotSent BY <2>2 DEF JobInv, DownIsEmpty
  <2>4. OnRemotes' = {} BY <2>2, <2>3 DEF OnRemotes, NotSent
  <2> QED BY <2>1, <2>4 DEF Restarts, StartsInv, Queued, In
<1>2. ASSUME NEW last \in {0} \cup Jobs, SweepAtStart(last) PROVE StartsInv'
  <2>1. Expired(last) \in SUBSET Held(row) BY DEF Expired
  <2> QED BY <1>2, <2>1, StartsDrop DEF SweepAtStart
<1>3. CASE Crash
  BY <1>3 DEF Crash, JobInv, StartsInv, Queued, In
<1>4. CASE CleanUp
  BY <1>4, StartsSame DEF CleanUp
<1>5. CASE DispatchStep
  <2>1. up /\ up' = up BY <1>5 DEF DispatchStep
  <2>2. CASE Sendable # {}
    <3>1. PICK j \in Jobs, r \in RemoteSet, phase \in {"upload", "follow"} :
            /\ j = First(Sendable)
            /\ inFlight' = [inFlight EXCEPT ![r] = inFlight[r] + 1]
            /\ sent' = [sent EXCEPT ![j] = [to |-> r, phase |-> phase]]
            /\ held' = [held EXCEPT ![j] = "no"]
      BY <1>5, <2>2, DispatchSends
    <3>2. j \in Queued /\ Becomes({j}, "running") /\ SameStarts
      BY <1>5, <2>2, <3>1, DispatchRow DEF Sendable
    <3>3. \A i \in Jobs : (i \in Queued)' => i \in Queued
      BY <3>2 DEF Becomes, Queued, In
    <3>4. \A i \in Jobs \ {j} : (i \in OnRemotes)' => i \in OnRemotes
      BY <3>1, InvFacts DEF OnRemotes
    <3>5. \A i \in Jobs : (i \in Queued)' \/ (i \in OnRemotes)' => row[i].starts < MaxStarts
      BY <2>1, <3>2, <3>3, <3>4 DEF JobInv, StartsInv
    <3> QED BY <3>2, <3>5 DEF SameStarts, StartsInv
  <2>3. CASE Sendable = {} BY <1>5, <2>1, <2>3, StartsSame DEF DispatchStep
  <2> QED BY <2>2, <2>3
<1>6. CASE PumpStep /\ StartInLane
  <2>1. up /\ UNCHANGED <<up, sent>> BY <1>6 DEF PumpStep
  <2>2. Oldest(LaneReady) \in Queued BY <1>6, LaneRow DEF LaneReady, ForLane
  <2> QED BY <1>6, <2>1, <2>2, LaneRow, StartsHere
<1>7. CASE PumpStep /\ StartInSlot
  <2>1. up /\ UNCHANGED <<up, sent>> BY <1>7 DEF PumpStep
  <2>2. NextRunnable \in Queued BY <1>7, SlotRow DEF QueueReady, ForQueue
  <2> QED BY <1>7, <2>1, <2>2, SlotRow, StartsHere
<1>8. CASE PumpStep /\ PumpEnds
  BY <1>8, StartsSame DEF PumpStep, PumpEnds
<1>9. ASSUME NEW kind \in Kinds, Submit(kind) PROVE StartsInv'
  <2>1. PICK j \in Jobs : Arrives(j) BY <1>9, SubmitRow
  <2>2. UNCHANGED <<up, sent>> BY <1>9 DEF Submit
  <2>3. \A i \in Jobs \ {j} :
          ((i \in Queued)' => i \in Queued) /\ ((i \in OnRemotes)' => i \in OnRemotes)
    BY <2>1, <2>2 DEF Arrives, Queued, In, OnRemotes
  <2> QED BY <2>1, <2>2, <2>3 DEF Arrives, JobInv, StartsInv
<1>10. ASSUME NEW j \in Jobs, Delete(j) PROVE StartsInv'
  BY <1>10, StartsDrop DEF Delete, Idle
<1>11. ASSUME NEW j \in Jobs, Sweep(j) PROVE StartsInv'
  <2>1. Expired(j) \in SUBSET Held(row) BY DEF Expired
  <2> QED BY <1>11, <2>1, StartsDrop DEF Sweep, Idle
<1>12. CASE Reroute
  <2>1. up /\ UNCHANGED <<up, sent>> BY <1>12 DEF Reroute, Idle
  <2> QED BY <1>12, <2>1, RerouteRow, StartsWaiting
<1>13. ASSUME NEW j \in Jobs, NEW status \in Over, NEW loads \in BOOLEAN, RunEnds(j, status, loads)
      PROVE  StartsInv'
  <2>1. {j} \in SUBSET Jobs /\ Finish(row, {j}, status) /\ up /\ UNCHANGED <<up, sent>>
    BY <1>13 DEF RunEnds, Conclude, Idle
  <2>2. OutAfter(OnRemotes) BY <2>1 DEF OutAfter, OnRemotes
  <2> QED BY <2>1, <2>2, EditedSelf, StartsEnd
<1>14. ASSUME NEW i \in Places, WorkerReleased(i) PROVE StartsInv'
  BY <1>14, StartsSame DEF WorkerReleased
<1>15. ASSUME NEW m \in Models, ModelGoes(m) PROVE StartsInv'
  BY <1>15, StartsSame DEF ModelGoes
<1>16. ASSUME NEW m \in Models, NEW ok \in BOOLEAN, DownloadEnds(m, ok) PROVE StartsInv'
  <2>1. up /\ UNCHANGED <<up, sent>> BY <1>16 DEF DownloadEnds, Idle
  <2> QED BY <1>16, <2>1, DownloadRow, StartsWaiting
<1>17. ASSUME NEW j \in Jobs, UploadTaken(j) PROVE StartsInv'
  <2>1. sent' = [sent EXCEPT ![j].phase = "follow"] BY <1>17 DEF UploadTaken
  <2>2. OutAfter(OnRemotes) BY <1>17, <2>1, UploadTakenRow, InvFacts DEF OutAfter, OnRemotes
  <2>3. {} \in SUBSET {i \in Jobs : row[i].starts < MaxStarts} OBVIOUS
  <2> QED BY <1>17, <2>2, <2>3, UploadTakenRow, StartsKept
<1>18. ASSUME NEW j \in Jobs, RequestFails(j) PROVE StartsInv'
  <2>1. {j} \in SUBSET {i \in Jobs : row[i].starts < MaxStarts} BY <1>18, BackRow, SentRuns
  <2> QED BY <1>18, <2>1, BackRow, UnsentOut, StartsKept
<1>19. ASSUME NEW j \in Jobs, JobLost(j) PROVE StartsInv'
  <2>1. {j} \in SUBSET {i \in Jobs : row[i].starts < MaxStarts} BY <1>19, BackRow, SentRuns
  <2> QED BY <1>19, <2>1, BackRow, UnsentOut, StartsKept
<1>20. ASSUME NEW j \in Jobs, TurnedAway(j) PROVE StartsInv'
  <2>1. {j} \in SUBSET {i \in Jobs : row[i].starts < MaxStarts} BY <1>20, BackRow, SentRuns
  <2> QED BY <1>20, <2>1, BackRow, UnsentOut, StartsKept
<1>21. ASSUME NEW j \in Jobs, Rejected(j) PROVE StartsInv'
  <2>1. CASE Becomes({j}, "queued") /\ SameStarts
    <3>1. {j} \in SUBSET {i \in Jobs : row[i].starts < MaxStarts} BY <1>21, RejectedRow, SentRuns
    <3> QED BY <1>21, <2>1, <3>1, RejectedRow, UnsentOut, StartsKept
  <2>2. CASE \E table : Edited(table) /\ Conclude(table, {j}, "failed")
    <3>1. {j} \in SUBSET Jobs OBVIOUS
    <3> QED BY <1>21, <2>2, <3>1, RejectedRow, UnsentOut, StartsEnd DEF Conclude, Over
  <2> QED BY <1>21, <2>1, <2>2, RejectedRow
<1>22. ASSUME NEW j \in Jobs, Abandoned(j) PROVE StartsInv'
  <2>1. Unsent(j) /\ UNCHANGED <<up, row>> BY <1>22 DEF Abandoned
  <2>2. \A i \in Jobs : (i \in Queued)' => i \in Queued BY <2>1 DEF Queued, In
  <2> QED BY <2>1, <2>2, UnsentOut DEF OutAfter, JobInv, StartsInv
<1>23. ASSUME NEW j \in Jobs, HoldLapses(j) PROVE StartsInv'
  BY <1>23, StartsSame DEF HoldLapses
<1>24. ASSUME NEW j \in Jobs, NEW status \in Over, RemoteEnds(j, status) PROVE StartsInv'
  <2>1. {j} \in SUBSET Jobs /\ Finish(row, {j}, status) /\ up /\ up' = up /\ Unsent(j)
    BY <1>24 DEF RemoteEnds, Conclude, Idle
  <2> QED BY <2>1, EditedSelf, UnsentOut, StartsEnd
<1>25. ASSUME NEW r \in RemoteSet, ProbeStarts(r) PROVE StartsInv'
  BY <1>25, StartsSame DEF ProbeStarts
<1>26. ASSUME NEW r \in RemoteSet, NEW found \in RemoteStates \ {"unknown"}, ProbeEnds(r, found)
      PROVE  StartsInv'
  <2>1. up /\ UNCHANGED <<up, sent>> BY <1>26 DEF ProbeEnds, Idle
  <2> QED BY <1>26, <2>1, ProbeRow, StartsWaiting
<1>27. CASE Delivering /\ TimerFires
  BY <1>27, StartsSame DEF Delivering, TimerFires
<1>28. ASSUME NEW j \in Jobs, Delivering, Due(j)
      PROVE  StartsInv'
  BY <1>28, StartsSame DEF Delivering, Due
<1>29. ASSUME NEW j \in Jobs, NEW n \in trying[j], NEW answer \in Answers, Delivering, Answer(j, n, answer)
      PROVE  StartsInv'
  BY <1>29, StartsSame DEF Delivering, Answer
<1>30. CASE KeyRevoked
  BY <1>30, StartsSame DEF KeyRevoked, Revoke
<1>31. CASE UNCHANGED vars
  BY <1>31, StartsSame DEF vars
<1> QED BY <1>1, <1>2, <1>3, <1>4, <1>5, <1>6, <1>7, <1>8, <1>9, <1>10, <1>11, <1>12, <1>13,
           <1>14, <1>15, <1>16, <1>17, <1>18, <1>19, <1>20, <1>21, <1>22, <1>23, <1>24, <1>25,
           <1>26, <1>27, <1>28, <1>29, <1>30, <1>31
  DEF Next, StartSweep, Clients, Here, There, Delivering, KeyRevoked, PumpStep

-----------------------------------------------------------------------------
(* Who runs what.  HeldInv, in its parts.                                    *)

(* Each running job has one place, here or at a remote.                      *)
RunsOnce ==
  up => /\ Running = InSlots \cup lane \cup OnRemotes
        /\ InSlots \cap lane = {} /\ (InSlots \cup lane) \cap OnRemotes = {}

(* No two places have the same job.                                          *)
OneSlot ==
  up => \A i, k \in Places : slots[i].job = slots[k].job /\ slots[i].job # NoJob => i = k

(* A remote's count is its requests that are out.                            *)
Counted == up => \A r \in RemoteSet : inFlight[r] = Cardinality(SentTo(r))

(* What is abandoned is gone.                                                *)
Leftover == \A j \in Jobs : sent[j].phase = "abandoned" => row[j].status = "gone"

(* HeldInv, in its parts.                                                    *)
LEMMA HeldParts == HeldInv <=> RunsOnce /\ OneSlot /\ Counted /\ Leftover
BY DEF HeldInv, HeldOnce, RunsOnce, OneSlot, Counted, Leftover

(* HeldInv, in its parts, after a step.                                      *)
LEMMA HeldNext == ASSUME RunsOnce', OneSlot', Counted', Leftover' PROVE HeldInv'
BY DEF HeldInv, HeldOnce, RunsOnce, OneSlot, Counted, Leftover

(* What the invariant says of who runs what, with the types.                 *)
LEMMA HeldOf ==
  ASSUME JobInv
  PROVE  /\ RunsOnce /\ OneSlot /\ Counted /\ Leftover
         /\ slots \in [Places -> [job : Jobs \cup {NoJob}, model : Models \cup {NoModel}]]
         /\ lane \in SUBSET Jobs /\ InSlots \in SUBSET Jobs
         /\ inFlight \in [RemoteSet -> Nat]
<1>1. HeldInv /\ TypeOK BY DEF JobInv
<1>2. slots \in [Places -> [job : Jobs \cup {NoJob}, model : Models \cup {NoModel}]]
  BY <1>1 DEF TypeOK
<1>3. InSlots \in SUBSET Jobs BY <1>2 DEF InSlots
<1>4. inFlight \in [RemoteSet -> Nat]
  <2>1. inFlight \in [RemoteSet -> 0..MaxJobs] BY <1>1 DEF TypeOK
  <2> QED BY <2>1
<1> QED BY <1>1, <1>2, <1>3, <1>4, HeldParts DEF TypeOK

(* What is gone stays gone.                                                  *)
GoneStays == \A j \in Jobs : row[j].status = "gone" => row'[j].status = "gone"

(* The running jobs, after jobs moved to one status.                         *)
LEMMA BecomesRunning ==
  ASSUME NEW S, NEW status, Becomes(S, status)
  PROVE  /\ status = "running" => Running' = Running \cup S
         /\ status # "running" => Running' = Running \ S
         /\ GoneStays /\ S \subseteq Jobs
BY DEF Becomes, GoneStays, Running, In, Open

(* Nothing of who runs what changes.                                         *)
LEMMA HeldFrame ==
  ASSUME JobInv, Running' = Running, GoneStays, UNCHANGED <<up, slots, lane, sent, inFlight>>
  PROVE  HeldInv'
<1>1. RunsOnce' BY HeldOf DEF RunsOnce, InSlots, OnRemotes
<1>2. OneSlot' BY HeldOf DEF OneSlot
<1>3. Counted' BY HeldOf DEF Counted, SentTo
<1>4. Leftover' BY HeldOf DEF Leftover, GoneStays
<1> QED BY <1>1, <1>2, <1>3, <1>4, HeldNext

(* A step that touches none of it.                                           *)
LEMMA HeldSame ==
  ASSUME JobInv, UNCHANGED <<up, row, slots, lane, sent, inFlight>> PROVE HeldInv'
BY HeldFrame DEF Running, In, GoneStays

(* A job that waits has no place to give back.                               *)
LEMMA HeldWaiting ==
  ASSUME JobInv, WaitingFail, UNCHANGED <<up, slots, lane, sent, inFlight>> PROVE HeldInv'
<1>1. CASE row' = row BY <1>1, HeldSame
<1>2. ASSUME NEW S \in SUBSET Queued, Conclude(row, S, "failed") PROVE HeldInv'
  <2>1. S \in SUBSET Jobs /\ S \cap Running = {} BY DEF Queued, Running, In
  <2>2. Becomes(Finishable(row, S, "failed"), "failed")
    BY <1>2, <2>1, EditedSelf, FinishRow DEF Conclude, Over
  <2>3. Finishable(row, S, "failed") \cap Running = {} BY <2>1 DEF Finishable
  <2>4. Running' = Running /\ GoneStays BY <2>2, <2>3, BecomesRunning
  <2> QED BY <2>4, HeldFrame
<1> QED BY <1>1, <1>2 DEF WaitingFail

(* The places for a Worker after some of their jobs are over, and after one  *)
(* started.                                                                  *)
LEMMA VacatedIn ==
  ASSUME JobInv, NEW S \in SUBSET Jobs, NEW loads, slots' = Vacated(S, loads)
  PROVE  /\ InSlots' = InSlots \ S
         /\ up => \A i, k \in Places :
                    slots'[i].job = slots'[k].job /\ slots'[i].job # NoJob => i = k
<1>1. \A i \in Places : slots'[i].job = IF slots[i].job \in S THEN NoJob ELSE slots[i].job
  <2> TAKE i \in Places
  <2>1. CASE slots[i].job \in S BY <2>1 DEF Vacated
  <2>2. CASE slots[i].job \notin S BY <2>2 DEF Vacated
  <2> QED BY <2>1, <2>2
<1>2. InSlots' = InSlots \ S BY <1>1 DEF InSlots
<1>3. up => \A i, k \in Places :
              slots'[i].job = slots'[k].job /\ slots'[i].job # NoJob => i = k
  BY <1>1, HeldOf DEF OneSlot
<1> QED BY <1>2, <1>3

(* A job takes a free place.                                                 *)
LEMMA TakenIn ==
  ASSUME JobInv, NEW j \in Jobs \ InSlots, NEW i \in PlacesFor(j), slots' = [slots EXCEPT ![i].job = j]
  PROVE  /\ InSlots' = InSlots \cup {j}
         /\ up => \A m, k \in Places :
                    slots'[m].job = slots'[k].job /\ slots'[m].job # NoJob => m = k
<1>1. i \in Places /\ slots[i].job = NoJob BY DEF PlacesFor
<1>2. j # NoJob
  <2>1. 0 \notin Jobs BY DEF Jobs
  <2> QED BY <2>1 DEF NoJob
<1>3. \A k \in Places : slots'[k].job = IF k = i THEN j ELSE slots[k].job BY <1>1, HeldOf
<1>4. \A k \in Places : slots[k].job # j BY <1>2 DEF InSlots
<1>5. InSlots' = InSlots \cup {j} BY <1>1, <1>2, <1>3 DEF InSlots
<1>6. up => \A m, k \in Places :
              slots'[m].job = slots'[k].job /\ slots'[m].job # NoJob => m = k
  BY <1>3, <1>4, HeldOf DEF OneSlot
<1> QED BY <1>5, <1>6

(* A queued job starts here, in the lane or in a place of the queue.         *)
LEMMA HeldHere ==
  ASSUME JobInv, up, NEW j \in Queued, Becomes({j}, "running"), UNCHANGED <<up, sent, inFlight>>,
         \/ lane' = lane \cup {j} /\ slots' = slots
         \/ lane' = lane /\ \E i \in PlacesFor(j) : slots' = [slots EXCEPT ![i].job = j]
  PROVE  HeldInv'
<1>1. j \in Jobs /\ j \notin Running BY DEF Queued, Running, In
<1>2. j \notin InSlots \cup lane \cup OnRemotes BY <1>1, HeldOf DEF RunsOnce
<1>3. Running' = Running \cup {j} /\ GoneStays BY BecomesRunning
<1>4. OnRemotes' = OnRemotes BY DEF OnRemotes
<1>5. /\ InSlots' \cup lane' = InSlots \cup lane \cup {j} /\ InSlots' \cap lane' = {}
      /\ OneSlot'
  <2>1. CASE lane' = lane \cup {j} /\ slots' = slots
    <3>1. InSlots' = InSlots BY <2>1 DEF InSlots
    <3> QED BY <1>2, <2>1, <3>1, HeldOf DEF RunsOnce, OneSlot
  <2>2. ASSUME lane' = lane, NEW i \in PlacesFor(j), slots' = [slots EXCEPT ![i].job = j]
        PROVE  /\ InSlots' \cup lane' = InSlots \cup lane \cup {j} /\ InSlots' \cap lane' = {}
               /\ OneSlot'
    <3>1. InSlots' = InSlots \cup {j} /\ OneSlot' BY <1>1, <1>2, <2>2, TakenIn DEF OneSlot
    <3> QED BY <1>2, <2>2, <3>1, HeldOf DEF RunsOnce
  <2> QED BY <2>1, <2>2
<1>6. RunsOnce' BY <1>2, <1>3, <1>4, <1>5, HeldOf DEF RunsOnce
<1>7. Counted' BY HeldOf DEF Counted, SentTo
<1>8. Leftover' BY <1>3, HeldOf DEF Leftover, GoneStays
<1> QED BY <1>5, <1>6, <1>7, <1>8, HeldNext

(* Jobs are removed: what runs of them here is gone at once, what is out is  *)
(* abandoned and still counted.                                              *)
LEMMA HeldDrop ==
  ASSUME JobInv, up, NEW S \in SUBSET Held(row), NEW loads, Drop(S, loads)
  PROVE  HeldInv'
<1>1. S \in SUBSET Jobs BY DEF Held, In
<1>2. \A j \in Jobs : row'[j] = IF j \in S THEN GoneRow ELSE row[j] BY DEF Drop, RemoveJobs
<1>3. Running' = Running \ S BY <1>2 DEF Running, In, GoneRow
<1>4. InSlots' = InSlots \ S /\ OneSlot' BY <1>1, VacatedIn DEF Drop, OneSlot
<1>5. lane' = lane \ S /\ up' = up /\ inFlight' = inFlight BY DEF Drop
<1>6. ASSUME NEW j \in Jobs
      PROVE  /\ sent'[j].to = sent[j].to
             /\ j \notin S => sent'[j] = sent[j]
             /\ j \in S => sent'[j].phase \in {"none", "abandoned"}
  <2>1. sent'[j] = IF j \in S /\ sent[j] # NotSent THEN [sent[j] EXCEPT !.phase = "abandoned"]
                   ELSE sent[j]
    BY DEF Drop
  <2>2. CASE j \in S /\ sent[j] # NotSent
    <3>1. sent[j] \in [to : RemoteSet, phase : Phases] BY <2>2, InvFacts
    <3> QED BY <2>1, <2>2, <3>1
  <2>3. CASE ~(j \in S /\ sent[j] # NotSent) BY <2>1, <2>3 DEF NotSent
  <2> QED BY <2>2, <2>3
<1>7. OnRemotes' = OnRemotes \ S BY <1>1, <1>6 DEF OnRemotes
<1>8. \A r \in RemoteSet : SentTo(r)' = SentTo(r) BY <1>6 DEF SentTo
<1>9. RunsOnce' BY <1>3, <1>4, <1>5, <1>7, HeldOf DEF RunsOnce
<1>10. Counted' BY <1>5, <1>8, HeldOf DEF Counted
<1>11. Leftover' BY <1>2, <1>6, HeldOf DEF Leftover, GoneRow
<1> QED BY <1>4, <1>9, <1>10, <1>11, HeldNext

(* A run ends here.                                                          *)
LEMMA HeldRunEnds ==
  ASSUME JobInv, NEW j \in Jobs, NEW status \in Over, NEW loads, RunEnds(j, status, loads)
  PROVE  HeldInv'
<1>1. up /\ j \in InSlots \cup lane BY DEF RunEnds, Idle
<1>2. j \in Running /\ j \notin OnRemotes BY <1>1, HeldOf DEF RunsOnce
<1>3. Finishable(row, {j}, status) = {j} BY <1>2 DEF Finishable, Running, In, Open
<1>4. Becomes({j}, status)
  <2>1. {j} \in SUBSET Jobs /\ Finish(row, {j}, status) BY DEF RunEnds, Conclude
  <2> QED BY <1>3, <2>1, EditedSelf, FinishRow
<1>5. Running' = Running \ {j} /\ GoneStays BY <1>4, BecomesRunning DEF Over
<1>6. slots' = Vacated({j}, loads) /\ lane' = lane \ {j} /\ UNCHANGED <<up, sent, inFlight>>
  BY DEF RunEnds
<1>7. InSlots' = InSlots \ {j} /\ OneSlot' BY <1>6, VacatedIn DEF OneSlot
<1>8. OnRemotes' = OnRemotes BY <1>6 DEF OnRemotes
<1>9. RunsOnce' BY <1>2, <1>5, <1>6, <1>7, <1>8, HeldOf DEF RunsOnce
<1>10. Counted' BY <1>6, HeldOf DEF Counted, SentTo
<1>11. Leftover' BY <1>5, <1>6, HeldOf DEF Leftover, GoneStays
<1> QED BY <1>7, <1>9, <1>10, <1>11, HeldNext

(* A job is sent to a remote, and counted there.                             *)
LEMMA HeldDispatch ==
  ASSUME JobInv, DispatchStep, Sendable # {} PROVE HeldInv'
<1>1. PICK j \in Jobs, r \in RemoteSet, phase \in {"upload", "follow"} :
        /\ j = First(Sendable)
        /\ inFlight' = [inFlight EXCEPT ![r] = inFlight[r] + 1]
        /\ sent' = [sent EXCEPT ![j] = [to |-> r, phase |-> phase]]
        /\ held' = [held EXCEPT ![j] = "no"]
  BY DispatchSends
<1>2. up /\ UNCHANGED <<up, slots, lane>> BY DEF DispatchStep
<1>3. j \in Queued /\ Becomes({j}, "running") BY <1>1, DispatchRow DEF Sendable
<1>4. row[j].status = "queued" /\ j \notin Running BY <1>3 DEF Queued, Running, In
<1>5. sent[j] = NotSent
  <2>1. j \notin OnRemotes BY <1>2, <1>4, HeldOf DEF RunsOnce
  <2>2. sent[j].phase # "abandoned" BY <1>4, HeldOf DEF Leftover
  <2>3. sent[j] \notin [to : RemoteSet, phase : Phases] BY <2>1, <2>2 DEF OnRemotes, Phases
  <2> QED BY <2>3, InvFacts
<1>6. Running' = Running \cup {j} /\ GoneStays BY <1>3, BecomesRunning
<1>7. sent'[j] = [to |-> r, phase |-> phase] /\ \A i \in Jobs \ {j} : sent'[i] = sent[i]
  BY <1>1, InvFacts
<1>8. OnRemotes' = OnRemotes \cup {j} BY <1>7 DEF OnRemotes
<1>9. InSlots' = InSlots BY <1>2 DEF InSlots
<1>10. RunsOnce' BY <1>2, <1>4, <1>6, <1>8, <1>9, HeldOf DEF RunsOnce
<1>11. OneSlot' BY <1>2, HeldOf DEF OneSlot
<1>12. Counted'
  <2> SUFFICES ASSUME NEW q \in RemoteSet PROVE inFlight'[q] = Cardinality(SentTo(q)')
    BY DEF Counted
  <2>1. inFlight[q] = Cardinality(SentTo(q)) BY <1>2, HeldOf DEF Counted
  <2>2. CASE q # r
    <3>1. SentTo(q)' = SentTo(q)
      <4>1. sent[j].to # q BY <1>5, RemotesAssumption DEF NotSent
      <4> QED BY <1>7, <2>2, <4>1 DEF SentTo
    <3>2. inFlight'[q] = inFlight[q] BY <1>1, <2>2, HeldOf
    <3> QED BY <2>1, <3>1, <3>2
  <2>3. CASE q = r
    <3>1. j \notin SentTo(r) BY <1>5, RemotesAssumption DEF NotSent, SentTo
    <3>2. SentTo(r)' = SentTo(r) \cup {j} BY <1>7 DEF SentTo
    <3>3. IsFiniteSet(SentTo(r)) BY JobsFinite DEF SentTo
    <3>4. Cardinality(SentTo(r)') = Cardinality(SentTo(r)) + 1
      BY <3>1, <3>2, <3>3, FS_AddElement
    <3>5. inFlight'[r] = inFlight[r] + 1 BY <1>1, HeldOf
    <3> QED BY <2>1, <2>3, <3>4, <3>5
  <2> QED BY <2>2, <2>3
<1>13. Leftover' BY <1>6, <1>7, HeldOf DEF Leftover, GoneStays
<1> QED BY <1>10, <1>11, <1>12, <1>13, HeldNext

(* A request ends: its place at the remote is given back.                    *)
LEMMA CountUnsent ==
  ASSUME JobInv, up, NEW j \in Jobs, Unsent(j), sent[j] # NotSent
  PROVE  Counted'
<1> DEFINE r == sent[j].to
<1>1. r \in RemoteSet BY InvFacts
<1>2. inFlight' = [inFlight EXCEPT ![r] = IF inFlight[r] > 0 THEN inFlight[r] - 1 ELSE 0]
  BY DEF Unsent
<1>3. sent'[j] = NotSent /\ \A i \in Jobs \ {j} : sent'[i] = sent[i] BY UnsentOut
<1> SUFFICES ASSUME NEW q \in RemoteSet PROVE inFlight'[q] = Cardinality(SentTo(q)')
  BY DEF Counted
<1>4. inFlight[q] = Cardinality(SentTo(q)) BY HeldOf DEF Counted
<1>5. CASE q # r
  <2>1. SentTo(q)' = SentTo(q)
    <3>1. sent'[j].to # q /\ sent[j].to # q BY <1>3, <1>5, RemotesAssumption DEF NotSent
    <3> QED BY <1>3, <3>1 DEF SentTo
  <2>2. inFlight'[q] = inFlight[q] BY <1>2, <1>5, HeldOf
  <2> QED BY <1>4, <2>1, <2>2
<1>6. CASE q = r
  <2>1. j \in SentTo(q) BY <1>6 DEF SentTo
  <2>2. SentTo(q)' = SentTo(q) \ {j}
    <3>1. sent'[j].to # q BY <1>3, RemotesAssumption DEF NotSent
    <3> QED BY <1>3, <3>1 DEF SentTo
  <2>3. IsFiniteSet(SentTo(q)) /\ Cardinality(SentTo(q)) \in Nat BY JobsFinite DEF SentTo
  <2>4. Cardinality(SentTo(q)') = Cardinality(SentTo(q)) - 1
    BY <2>1, <2>2, <2>3, FS_RemoveElement
  <2>5. Cardinality(SentTo(q)) > 0 BY <2>1, <2>3, FS_EmptySet
  <2>6. inFlight'[q] = IF inFlight[q] > 0 THEN inFlight[q] - 1 ELSE 0 BY <1>1, <1>2, <1>6, HeldOf
  <2> QED BY <1>4, <2>3, <2>4, <2>5, <2>6
<1> QED BY <1>5, <1>6

(* The request of a job that was out ends, and the job with it or not.       *)
LEMMA HeldUnsent ==
  ASSUME JobInv, up, NEW j \in OnRemotes, Unsent(j), UNCHANGED <<up, slots, lane>>,
         NEW status, status # "running", Becomes({j}, status)
  PROVE  HeldInv'
<1>1. j \in Jobs /\ sent[j] # NotSent BY DEF OnRemotes, NotSent
<1>2. Running' = Running \ {j} /\ GoneStays BY BecomesRunning
<1>3. /\ OnRemotes' = OnRemotes \ {j} /\ sent'[j] = NotSent
      /\ \A i \in Jobs \ {j} : sent'[i] = sent[i]
  BY <1>1, UnsentOut
<1>4. InSlots' = InSlots BY DEF InSlots
<1>5. RunsOnce' BY <1>2, <1>3, <1>4, HeldOf DEF RunsOnce
<1>6. OneSlot' BY HeldOf DEF OneSlot
<1>7. Counted' BY <1>1, CountUnsent
<1>8. Leftover' BY <1>2, <1>3, HeldOf DEF Leftover, GoneStays, NotSent
<1> QED BY <1>5, <1>6, <1>7, <1>8, HeldNext

(* Every step keeps the running jobs and their places together.              *)
LEMMA HeldStep == ASSUME JobInv, [Next]_vars PROVE HeldInv'
<1>1. CASE Start
  <2>1. PICK fails \in SUBSET In(row, Open) : Restarts(fails) BY <1>1, StartRow
  <2>2. ~up /\ UNCHANGED <<slots, lane, sent, inFlight>> BY <1>1 DEF Start
  <2>3. /\ slots = [i \in Places |-> NoWorker] /\ lane = {}
        /\ sent = [j \in Jobs |-> NotSent] /\ inFlight = [r \in RemoteSet |-> 0]
    BY <2>2 DEF JobInv, DownIsEmpty
  <2>4. Running' = {} BY <2>1 DEF Restarts, Running, In
  <2>5. InSlots' = {} /\ OnRemotes' = {}
    BY <2>2, <2>3 DEF InSlots, OnRemotes, NoWorker, NotSent
  <2>6. RunsOnce' BY <2>2, <2>3, <2>4, <2>5 DEF RunsOnce
  <2>7. OneSlot' BY <2>2, <2>3 DEF OneSlot, NoWorker
  <2>8. Counted'
    <3>1. \A r \in RemoteSet : SentTo(r)' = {} BY <2>2, <2>3, RemotesAssumption DEF SentTo, NotSent
    <3> QED BY <2>2, <2>3, <3>1, FS_EmptySet DEF Counted
  <2>9. Leftover' BY <2>2, <2>3 DEF Leftover, NotSent
  <2> QED BY <2>6, <2>7, <2>8, <2>9, HeldNext
<1>2. ASSUME NEW last \in {0} \cup Jobs, SweepAtStart(last) PROVE HeldInv'
  <2>1. Expired(last) \in SUBSET Held(row) BY DEF Expired
  <2> QED BY <1>2, <2>1, HeldDrop DEF SweepAtStart
<1>3. CASE Crash
  <2>1. ~up' /\ sent' = [j \in Jobs |-> NotSent] BY <1>3 DEF Crash
  <2> QED BY <2>1 DEF HeldInv, HeldOnce, NotSent
<1>4. CASE CleanUp
  BY <1>4, HeldSame DEF CleanUp
<1>5. CASE DispatchStep
  <2>1. CASE Sendable # {} BY <1>5, <2>1, HeldDispatch
  <2>2. CASE Sendable = {} BY <1>5, <2>2, HeldSame DEF DispatchStep
  <2> QED BY <2>1, <2>2
<1>6. CASE PumpStep /\ StartInLane
  <2>1. up /\ UNCHANGED <<up, sent, inFlight>> BY <1>6 DEF PumpStep
  <2>2. Oldest(LaneReady) \in Queued BY <1>6, LaneRow DEF LaneReady, ForLane
  <2>3. lane' = lane \cup {Oldest(LaneReady)} /\ slots' = slots BY <1>6 DEF StartInLane
  <2> QED BY <1>6, <2>1, <2>2, <2>3, LaneRow, HeldHere
<1>7. CASE PumpStep /\ StartInSlot
  <2>1. up /\ UNCHANGED <<up, sent, inFlight>> BY <1>7 DEF PumpStep
  <2>2. NextRunnable \in Queued BY <1>7, SlotRow DEF QueueReady, ForQueue
  <2>3. /\ lane' = lane
        /\ \E i \in PlacesFor(NextRunnable) : slots' = [slots EXCEPT ![i].job = NextRunnable]
    BY <1>7 DEF StartInSlot
  <2> QED BY <1>7, <2>1, <2>2, <2>3, SlotRow, HeldHere
<1>8. CASE PumpStep /\ PumpEnds
  BY <1>8, HeldSame DEF PumpStep, PumpEnds
<1>9. ASSUME NEW kind \in Kinds, Submit(kind) PROVE HeldInv'
  <2>1. PICK j \in Jobs : Arrives(j) BY <1>9, SubmitRow
  <2>2. UNCHANGED <<up, slots, lane, sent, inFlight>> BY <1>9 DEF Submit
  <2>3. Running' = Running /\ GoneStays BY <2>1 DEF Arrives, Running, In, GoneStays
  <2> QED BY <2>2, <2>3, HeldFrame
<1>10. ASSUME NEW j \in Jobs, Delete(j) PROVE HeldInv'
  BY <1>10, HeldDrop DEF Delete, Idle
<1>11. ASSUME NEW j \in Jobs, Sweep(j) PROVE HeldInv'
  <2>1. Expired(j) \in SUBSET Held(row) BY DEF Expired
  <2> QED BY <1>11, <2>1, HeldDrop DEF Sweep, Idle
<1>12. CASE Reroute
  <2>1. UNCHANGED <<up, slots, lane, sent, inFlight>> BY <1>12 DEF Reroute
  <2> QED BY <1>12, <2>1, RerouteRow, HeldWaiting
<1>13. ASSUME NEW j \in Jobs, NEW status \in Over, NEW loads \in BOOLEAN, RunEnds(j, status, loads)
      PROVE  HeldInv'
  BY <1>13, HeldRunEnds
<1>14. ASSUME NEW i \in Places, WorkerReleased(i) PROVE HeldInv'
  <2>1. UNCHANGED <<up, row, lane, sent, inFlight>> BY <1>14 DEF WorkerReleased
  <2>2. \A k \in Places : slots'[k].job = slots[k].job BY <1>14, HeldOf DEF WorkerReleased, NoWorker
  <2>3. InSlots' = InSlots BY <2>2 DEF InSlots
  <2>4. RunsOnce' BY <2>1, <2>3, HeldOf DEF RunsOnce, Running, In, OnRemotes
  <2>5. OneSlot' BY <2>1, <2>2, HeldOf DEF OneSlot
  <2>6. Counted' /\ Leftover' BY <2>1, HeldOf DEF Counted, Leftover, SentTo
  <2> QED BY <2>4, <2>5, <2>6, HeldNext
<1>15. ASSUME NEW m \in Models, ModelGoes(m) PROVE HeldInv'
  BY <1>15, HeldSame DEF ModelGoes
<1>16. ASSUME NEW m \in Models, NEW ok \in BOOLEAN, DownloadEnds(m, ok) PROVE HeldInv'
  <2>1. UNCHANGED <<up, slots, lane, sent, inFlight>> BY <1>16 DEF DownloadEnds
  <2> QED BY <1>16, <2>1, DownloadRow, HeldWaiting
<1>17. ASSUME NEW j \in Jobs, UploadTaken(j) PROVE HeldInv'
  <2>1. up /\ j \in OnRemotes BY <1>17, UploadTakenRow
  <2>2. Running' = Running /\ GoneStays BY <1>17, UploadTakenRow, BecomesRunning
  <2>3. sent' = [sent EXCEPT ![j].phase = "follow"] /\ UNCHANGED <<up, slots, lane, inFlight>>
    BY <1>17 DEF UploadTaken
  <2>4. sent[j] \in [to : RemoteSet, phase : Phases] BY <2>1, InvFacts DEF OnRemotes, NotSent
  <2>5. /\ sent'[j].phase = "follow" /\ sent'[j].to = sent[j].to
        /\ \A i \in Jobs \ {j} : sent'[i] = sent[i]
    BY <2>3, <2>4, InvFacts
  <2>6. OnRemotes' = OnRemotes BY <2>1, <2>5 DEF OnRemotes
  <2>7. \A r \in RemoteSet : SentTo(r)' = SentTo(r) BY <2>5 DEF SentTo
  <2>8. RunsOnce' BY <2>2, <2>3, <2>6, HeldOf DEF RunsOnce, InSlots
  <2>9. OneSlot' /\ Counted' BY <2>3, <2>7, HeldOf DEF OneSlot, Counted
  <2>10. Leftover' BY <2>2, <2>5, HeldOf DEF Leftover, GoneStays
  <2> QED BY <2>8, <2>9, <2>10, HeldNext
<1>18. ASSUME NEW j \in Jobs, RequestFails(j) PROVE HeldInv'
  BY <1>18, BackRow, HeldUnsent
<1>19. ASSUME NEW j \in Jobs, JobLost(j) PROVE HeldInv'
  BY <1>19, BackRow, HeldUnsent
<1>20. ASSUME NEW j \in Jobs, TurnedAway(j) PROVE HeldInv'
  BY <1>20, BackRow, HeldUnsent
<1>21. ASSUME NEW j \in Jobs, Rejected(j) PROVE HeldInv'
  <2>1. CASE Becomes({j}, "queued") BY <1>21, <2>1, RejectedRow, HeldUnsent
  <2>2. ASSUME NEW table, Edited(table), Conclude(table, {j}, "failed") PROVE HeldInv'
    <3>1. Finishable(row, {j}, "failed") = {j} BY <1>21, RejectedRow, SentRuns DEF Finishable, Open
    <3>2. {j} \in SUBSET Jobs OBVIOUS
    <3>3. Becomes({j}, "failed") BY <2>2, <3>1, <3>2, FinishRow DEF Conclude, Over
    <3> QED BY <1>21, <3>3, RejectedRow, HeldUnsent
  <2> QED BY <1>21, <2>1, <2>2, RejectedRow
<1>22. ASSUME NEW j \in Jobs, Abandoned(j) PROVE HeldInv'
  <2>1. up /\ Unsent(j) /\ UNCHANGED <<up, row, slots, lane>> /\ sent[j].phase = "abandoned"
    BY <1>22 DEF Abandoned, Idle
  <2>2. sent[j] # NotSent BY <2>1 DEF NotSent
  <2>3. Counted' BY <2>1, <2>2, CountUnsent
  <2>4. OnRemotes' = OnRemotes BY <2>1, UnsentOut DEF OnRemotes
  <2>5. RunsOnce' BY <2>1, <2>4, HeldOf DEF RunsOnce, InSlots, Running, In
  <2>6. OneSlot' BY <2>1, HeldOf DEF OneSlot
  <2>7. Leftover' BY <2>1, UnsentOut, HeldOf DEF Leftover, NotSent
  <2> QED BY <2>3, <2>5, <2>6, <2>7, HeldNext
<1>23. ASSUME NEW j \in Jobs, HoldLapses(j) PROVE HeldInv'
  BY <1>23, HeldSame DEF HoldLapses
<1>24. ASSUME NEW j \in Jobs, NEW status \in Over, RemoteEnds(j, status) PROVE HeldInv'
  <2>1. up /\ j \in OnRemotes /\ Unsent(j) /\ UNCHANGED <<up, slots, lane>>
    BY <1>24 DEF RemoteEnds, Idle, OnRemotes
  <2>2. {j} \in SUBSET Jobs /\ Finish(row, {j}, status) BY <1>24 DEF RemoteEnds, Conclude
  <2>3. Finishable(row, {j}, status) = {j} BY <2>1, SentRuns DEF Finishable, Open
  <2>4. Becomes({j}, status) BY <2>2, <2>3, EditedSelf, FinishRow
  <2> QED BY <2>1, <2>4, HeldUnsent DEF Over
<1>25. ASSUME NEW r \in RemoteSet, ProbeStarts(r) PROVE HeldInv'
  BY <1>25, HeldSame DEF ProbeStarts
<1>26. ASSUME NEW r \in RemoteSet, NEW found \in RemoteStates \ {"unknown"}, ProbeEnds(r, found)
      PROVE  HeldInv'
  <2>1. UNCHANGED <<up, slots, lane, sent, inFlight>> BY <1>26 DEF ProbeEnds
  <2> QED BY <1>26, <2>1, ProbeRow, HeldWaiting
<1>27. CASE Delivering /\ TimerFires
  BY <1>27, HeldSame DEF Delivering, TimerFires
<1>28. ASSUME NEW j \in Jobs, Delivering, Due(j)
      PROVE  HeldInv'
  BY <1>28, HeldSame DEF Delivering, Due
<1>29. ASSUME NEW j \in Jobs, NEW n \in trying[j], NEW answer \in Answers, Delivering, Answer(j, n, answer)
      PROVE  HeldInv'
  BY <1>29, HeldSame DEF Delivering, Answer
<1>30. CASE KeyRevoked
  BY <1>30, HeldSame DEF KeyRevoked, Revoke
<1>31. CASE UNCHANGED vars
  BY <1>31, HeldSame DEF vars
<1> QED BY <1>1, <1>2, <1>3, <1>4, <1>5, <1>6, <1>7, <1>8, <1>9, <1>10, <1>11, <1>12, <1>13,
           <1>14, <1>15, <1>16, <1>17, <1>18, <1>19, <1>20, <1>21, <1>22, <1>23, <1>24, <1>25,
           <1>26, <1>27, <1>28, <1>29, <1>30, <1>31
  DEF Next, StartSweep, Clients, Here, There, Delivering, KeyRevoked, PumpStep

-----------------------------------------------------------------------------
(* One model on Metal at a time.                                             *)

(* The jobs that run here.                                                   *)
Busy == InSlots \cup lane

(* Jobs leave their places, and those that stay are the same jobs.           *)
LEMMA MetalKept ==
  ASSUME JobInv, Busy' \subseteq Busy, \A j \in Busy' : row'[j].kind = row[j].kind
  PROVE  MetalInv'
BY DEF JobInv, MetalInv, Busy

(* No place changes hands.                                                   *)
LEMMA MetalRows ==
  ASSUME JobInv, UNCHANGED <<slots, lane>>, NEW S, NEW status, Becomes(S, status)
  PROVE  MetalInv'
<1>1. Busy' = Busy /\ Busy \subseteq Jobs BY HeldOf DEF Busy, InSlots
<1>2. \A j \in Jobs : row'[j].kind = row[j].kind BY DEF Becomes
<1> QED BY <1>1, <1>2, MetalKept

(* Nothing of it changes.                                                    *)
LEMMA MetalSame ==
  ASSUME JobInv, UNCHANGED <<row, slots, lane>> PROVE MetalInv'
BY MetalKept DEF Busy, InSlots

(* A job that waits runs nowhere.                                            *)
LEMMA MetalWaiting ==
  ASSUME JobInv, WaitingFail, UNCHANGED <<slots, lane>> PROVE MetalInv'
<1>1. CASE row' = row BY <1>1, MetalSame
<1>2. ASSUME NEW S \in SUBSET Queued, Conclude(row, S, "failed") PROVE MetalInv'
  <2>1. S \in SUBSET Jobs BY DEF Queued, In
  <2> QED BY <1>2, <2>1, EditedSelf, FinishRow, MetalRows DEF Conclude, Over
<1> QED BY <1>1, <1>2 DEF WaitingFail

(* A deleted job leaves its place.                                           *)
LEMMA MetalDrop ==
  ASSUME JobInv, NEW S \in SUBSET Held(row), NEW loads, Drop(S, loads) PROVE MetalInv'
<1>1. S \in SUBSET Jobs BY DEF Held, In
<1>2. InSlots' = InSlots \ S /\ lane' = lane \ S BY <1>1, VacatedIn DEF Drop
<1>3. \A j \in Jobs \ S : row'[j] = row[j] BY DEF Drop, RemoveJobs
<1>4. Busy' = Busy \ S /\ Busy \subseteq Jobs BY <1>2, HeldOf DEF Busy
<1> QED BY <1>3, <1>4, MetalKept

(* A job starts here: its model is not on Metal, or nothing there is.        *)
LEMMA MetalHere ==
  ASSUME JobInv, NEW j \in Queued, Ready(j), Becomes({j}, "running"), Busy' = Busy \cup {j}
  PROVE  MetalInv'
<1>1. \A i \in Busy' : row'[i].kind = row[i].kind
  <2>1. Busy' \subseteq Jobs BY HeldOf DEF Busy, Queued, In
  <2> QED BY <2>1 DEF Becomes
<1>2. row[j].kind.model \in Metal => \A i \in Busy : row[i].kind.model \notin Metal
  BY DEF Ready, MetalBusy, Busy
<1> SUFFICES ASSUME NEW i \in Busy', NEW k \in Busy',
                    row'[i].kind.model \in Metal, row'[k].kind.model \in Metal
             PROVE  i = k
  BY DEF MetalInv, Busy
<1>3. row[i].kind.model \in Metal /\ row[k].kind.model \in Metal BY <1>1
<1> QED BY <1>2, <1>3 DEF JobInv, MetalInv, Busy

(* Every step leaves one job on Metal at most.                               *)
LEMMA MetalStep == ASSUME JobInv, [Next]_vars PROVE MetalInv'
<1>1. CASE Start
  <2>1. ~up /\ UNCHANGED <<slots, lane>> BY <1>1 DEF Start
  <2>2. slots = [i \in Places |-> NoWorker] /\ lane = {} BY <2>1 DEF JobInv, DownIsEmpty
  <2> QED BY <2>1, <2>2 DEF MetalInv, InSlots, NoWorker
<1>2. ASSUME NEW last \in {0} \cup Jobs, SweepAtStart(last) PROVE MetalInv'
  <2>1. Expired(last) \in SUBSET Held(row) BY DEF Expired
  <2> QED BY <1>2, <2>1, MetalDrop DEF SweepAtStart
<1>3. CASE Crash
  BY <1>3 DEF Crash, MetalInv, InSlots, NoWorker
<1>4. CASE CleanUp
  BY <1>4, MetalSame DEF CleanUp
<1>5. CASE DispatchStep
  <2>1. UNCHANGED <<slots, lane>> BY <1>5 DEF DispatchStep
  <2>2. CASE Sendable # {} BY <1>5, <2>1, <2>2, DispatchRow, MetalRows
  <2>3. CASE Sendable = {} BY <1>5, <2>1, <2>3, MetalSame DEF DispatchStep
  <2> QED BY <2>2, <2>3
<1>6. CASE PumpStep /\ StartInLane
  <2>1. Oldest(LaneReady) \in Queued /\ Ready(Oldest(LaneReady))
    BY <1>6, LaneRow DEF LaneReady, ForLane
  <2>2. lane' = lane \cup {Oldest(LaneReady)} /\ slots' = slots BY <1>6 DEF StartInLane
  <2>3. Busy' = Busy \cup {Oldest(LaneReady)} BY <2>2 DEF Busy, InSlots
  <2> QED BY <1>6, <2>1, <2>3, LaneRow, MetalHere
<1>7. CASE PumpStep /\ StartInSlot
  <2>1. NextRunnable \in Queued /\ Ready(NextRunnable) BY <1>7, SlotRow DEF QueueReady, ForQueue
  <2>2. lane' = lane /\ \E i \in PlacesFor(NextRunnable) : slots' = [slots EXCEPT ![i].job = NextRunnable]
    BY <1>7 DEF StartInSlot
  <2>3. NextRunnable \in Jobs \ InSlots
    <3>1. up BY <1>7 DEF PumpStep
    <3> QED BY <2>1, <3>1, HeldOf DEF RunsOnce, Queued, Running, In
  <2>4. Busy' = Busy \cup {NextRunnable} BY <2>2, <2>3, TakenIn DEF Busy
  <2> QED BY <1>7, <2>1, <2>4, SlotRow, MetalHere
<1>8. CASE PumpStep /\ PumpEnds
  BY <1>8, MetalSame DEF PumpStep, PumpEnds
<1>9. ASSUME NEW kind \in Kinds, Submit(kind) PROVE MetalInv'
  <2>1. PICK j \in Jobs : Arrives(j) BY <1>9, SubmitRow
  <2>2. up /\ UNCHANGED <<slots, lane>> BY <1>9 DEF Submit, Idle
  <2>3. Busy' = Busy /\ Busy \subseteq Running BY <2>2, HeldOf DEF Busy, InSlots, RunsOnce
  <2>4. \A i \in Running : row'[i] = row[i] BY <2>1 DEF Arrives, Running, In
  <2> QED BY <2>3, <2>4, MetalKept
<1>10. ASSUME NEW j \in Jobs, Delete(j) PROVE MetalInv'
  BY <1>10, MetalDrop DEF Delete
<1>11. ASSUME NEW j \in Jobs, Sweep(j) PROVE MetalInv'
  <2>1. Expired(j) \in SUBSET Held(row) BY DEF Expired
  <2> QED BY <1>11, <2>1, MetalDrop DEF Sweep
<1>12. CASE Reroute
  <2>1. UNCHANGED <<slots, lane>> BY <1>12 DEF Reroute
  <2> QED BY <1>12, <2>1, RerouteRow, MetalWaiting
<1>13. ASSUME NEW j \in Jobs, NEW status \in Over, NEW loads \in BOOLEAN, RunEnds(j, status, loads)
      PROVE  MetalInv'
  <2>1. {j} \in SUBSET Jobs /\ Finish(row, {j}, status) BY <1>13 DEF RunEnds, Conclude
  <2>2. Becomes(Finishable(row, {j}, status), status) BY <2>1, EditedSelf, FinishRow
  <2>3. InSlots' = InSlots \ {j} /\ lane' = lane \ {j} BY <1>13, VacatedIn DEF RunEnds
  <2>4. Busy' \subseteq Busy /\ Busy \subseteq Jobs BY <2>3, HeldOf DEF Busy
  <2>5. \A i \in Jobs : row'[i].kind = row[i].kind BY <2>2 DEF Becomes
  <2> QED BY <2>4, <2>5, MetalKept
<1>14. ASSUME NEW i \in Places, WorkerReleased(i) PROVE MetalInv'
  <2>1. UNCHANGED <<row, lane>> BY <1>14 DEF WorkerReleased
  <2>2. \A k \in Places : slots'[k].job = slots[k].job BY <1>14, HeldOf DEF WorkerReleased, NoWorker
  <2>3. Busy' = Busy BY <2>1, <2>2 DEF Busy, InSlots
  <2> QED BY <2>1, <2>3, MetalKept
<1>15. ASSUME NEW m \in Models, ModelGoes(m) PROVE MetalInv'
  BY <1>15, MetalSame DEF ModelGoes
<1>16. ASSUME NEW m \in Models, NEW ok \in BOOLEAN, DownloadEnds(m, ok) PROVE MetalInv'
  <2>1. UNCHANGED <<slots, lane>> BY <1>16 DEF DownloadEnds
  <2> QED BY <1>16, <2>1, DownloadRow, MetalWaiting
<1>17. ASSUME NEW j \in Jobs, UploadTaken(j) PROVE MetalInv'
  <2>1. UNCHANGED <<slots, lane>> BY <1>17 DEF UploadTaken
  <2> QED BY <1>17, <2>1, UploadTakenRow, MetalRows
<1>18. ASSUME NEW j \in Jobs, RequestFails(j) PROVE MetalInv'
  BY <1>18, BackRow, MetalRows
<1>19. ASSUME NEW j \in Jobs, JobLost(j) PROVE MetalInv'
  BY <1>19, BackRow, MetalRows
<1>20. ASSUME NEW j \in Jobs, TurnedAway(j) PROVE MetalInv'
  BY <1>20, BackRow, MetalRows
<1>21. ASSUME NEW j \in Jobs, Rejected(j) PROVE MetalInv'
  <2>1. CASE Becomes({j}, "queued") BY <1>21, <2>1, RejectedRow, MetalRows
  <2>2. ASSUME NEW table, Edited(table), Conclude(table, {j}, "failed") PROVE MetalInv'
    <3>1. {j} \in SUBSET Jobs OBVIOUS
    <3> QED BY <1>21, <2>2, <3>1, RejectedRow, FinishRow, MetalRows DEF Conclude, Over
  <2> QED BY <1>21, <2>1, <2>2, RejectedRow
<1>22. ASSUME NEW j \in Jobs, Abandoned(j) PROVE MetalInv'
  BY <1>22, MetalSame DEF Abandoned, Unsent
<1>23. ASSUME NEW j \in Jobs, HoldLapses(j) PROVE MetalInv'
  BY <1>23, MetalSame DEF HoldLapses
<1>24. ASSUME NEW j \in Jobs, NEW status \in Over, RemoteEnds(j, status) PROVE MetalInv'
  <2>1. {j} \in SUBSET Jobs /\ Finish(row, {j}, status) /\ UNCHANGED <<slots, lane>>
    BY <1>24 DEF RemoteEnds, Conclude
  <2> QED BY <2>1, EditedSelf, FinishRow, MetalRows
<1>25. ASSUME NEW r \in RemoteSet, ProbeStarts(r) PROVE MetalInv'
  BY <1>25, MetalSame DEF ProbeStarts
<1>26. ASSUME NEW r \in RemoteSet, NEW found \in RemoteStates \ {"unknown"}, ProbeEnds(r, found)
      PROVE  MetalInv'
  <2>1. UNCHANGED <<slots, lane>> BY <1>26 DEF ProbeEnds
  <2> QED BY <1>26, <2>1, ProbeRow, MetalWaiting
<1>27. CASE Delivering /\ TimerFires
  BY <1>27, MetalSame DEF Delivering
<1>28. ASSUME NEW j \in Jobs, Delivering, Due(j)
      PROVE  MetalInv'
  BY <1>28, MetalSame DEF Delivering
<1>29. ASSUME NEW j \in Jobs, NEW n \in trying[j], NEW answer \in Answers, Delivering, Answer(j, n, answer)
      PROVE  MetalInv'
  BY <1>29, MetalSame DEF Delivering
<1>30. CASE KeyRevoked
  BY <1>30, MetalSame DEF KeyRevoked
<1>31. CASE UNCHANGED vars
  BY <1>31, MetalSame DEF vars
<1> QED BY <1>1, <1>2, <1>3, <1>4, <1>5, <1>6, <1>7, <1>8, <1>9, <1>10, <1>11, <1>12, <1>13,
           <1>14, <1>15, <1>16, <1>17, <1>18, <1>19, <1>20, <1>21, <1>22, <1>23, <1>24, <1>25,
           <1>26, <1>27, <1>28, <1>29, <1>30, <1>31
  DEF Next, StartSweep, Clients, Here, There, Delivering, KeyRevoked, PumpStep

-----------------------------------------------------------------------------
(* The invariant.                                                            *)

(* The type invariant, in the parts the steps are proved for.                *)
LEMMA TypeParts ==
  TypeOK <=>
    /\ row \in [Jobs -> Rows] /\ FeedTypes /\ FileTypes /\ FlagTypes /\ MiscTypes /\ ModelTypes
    /\ SlotTypes /\ LaneCounted /\ PassedTypes
    /\ sent \in [Jobs -> [to : RemoteSet, phase : Phases] \cup {NotSent}]
    /\ inFlight \in [RemoteSet -> 0..MaxJobs]
    /\ outbox \in [Jobs -> Deliveries]
    /\ trying \in [Jobs -> SUBSET (1..(MaxTries + MaxCrashes))]
    /\ crashes \in 0..MaxCrashes
    /\ \A j \in Jobs : outbox[j].due => outbox[j].state = "pending"
BY DEF TypeOK, OutboxTypeOK, StoreTypeOK, FeedTypes, FileTypes, FlagTypes, MiscTypes, ModelTypes,
       SlotTypes, LaneCounted, PassedTypes

(* The type invariant after a step, from its parts.                          *)
LEMMA TypeNext ==
  ASSUME (/\ row \in [Jobs -> Rows] /\ FeedTypes /\ FileTypes /\ FlagTypes /\ MiscTypes
         /\ ModelTypes /\ SlotTypes /\ LaneCounted /\ PassedTypes
         /\ sent \in [Jobs -> [to : RemoteSet, phase : Phases] \cup {NotSent}]
         /\ inFlight \in [RemoteSet -> 0..MaxJobs]
         /\ outbox \in [Jobs -> Deliveries]
         /\ trying \in [Jobs -> SUBSET (1..(MaxTries + MaxCrashes))]
         /\ crashes \in 0..MaxCrashes
         /\ \A j \in Jobs : outbox[j].due => outbox[j].state = "pending")'
  PROVE  TypeOK'
BY DEF TypeOK, OutboxTypeOK, StoreTypeOK, FeedTypes, FileTypes, FlagTypes, MiscTypes, ModelTypes,
       SlotTypes, LaneCounted, PassedTypes

(* The invariant holds at first.                                             *)
LEMMA InitJobInv == ASSUME Init PROVE JobInv
<1> USE DEF Init
<1>1. TypeOK
  <2>1. /\ row \in [Jobs -> Rows] /\ FeedTypes /\ FileTypes /\ FlagTypes
    <3>1. <<>> \in Seq({"completed", "failed", "cancelled"}) OBVIOUS
    <3>2. FeedTypes BY <3>1 DEF FeedTypes, StoreInit
    <3>3. overflow \in BOOLEAN BY ChoicesAssumption
    <3>4. FlagTypes BY <3>3 DEF FlagTypes, OutboxInit
    <3>5. row \in [Jobs -> Rows] BY DEF StoreInit, Rows
    <3>6. FileTypes BY DEF FileTypes, StoreInit
    <3> QED BY <3>2, <3>4, <3>5, <3>6
  <2>2. MiscTypes /\ ModelTypes /\ PassedTypes
    BY LimitsNat, ModelsAssumption DEF MiscTypes, ModelTypes, PassedTypes, RemoteStates
  <2>3. SlotTypes /\ LaneCounted
    BY FS_EmptySet, SlotsAssumption DEF SlotTypes, LaneCounted, NoWorker
  <2>4. /\ sent \in [Jobs -> [to : RemoteSet, phase : Phases] \cup {NotSent}]
        /\ inFlight \in [RemoteSet -> 0..MaxJobs]
    OBVIOUS
  <2>5. /\ outbox \in [Jobs -> Deliveries]
        /\ trying \in [Jobs -> SUBSET (1..(MaxTries + MaxCrashes))]
        /\ crashes \in 0..MaxCrashes
        /\ \A j \in Jobs : outbox[j].due => outbox[j].state = "pending"
    BY DEF OutboxInit, NoDelivery, Deliveries, Whys
  <2> QED BY <2>1, <2>2, <2>3, <2>4, <2>5, TypeParts
<1>2. DownIsEmpty BY DEF DownIsEmpty, OutboxInit
<1>3. OutInv BY DEF OutInv, NotToldYet, TriesInv, OutboxInit, StoreInit, NoDelivery
<1>4. \A j \in Jobs : row[j].status = "none" BY DEF StoreInit, NoRow
<1>5. UploadsInv BY <1>4 DEF UploadsInv, Named, Held, In, Open, Over
<1>6. StartsInv BY <1>4 DEF StartsInv, Queued, In
<1>7. HeldInv BY DEF HeldInv, HeldOnce, NotSent
<1>8. MetalInv BY DEF MetalInv, InSlots, NoWorker
<1> QED BY <1>1, <1>2, <1>3, <1>5, <1>6, <1>7, <1>8 DEF JobInv

(* Every step keeps the invariant.                                           *)
LEMMA JobInvStep == ASSUME JobInv, [Next]_vars PROVE JobInv'
<1>1. OutboxOK' /\ NotToldYet' BY ToldStep
<1>2. /\ outbox' \in [Jobs -> Deliveries]
      /\ trying' \in [Jobs -> SUBSET (1..(MaxTries + MaxCrashes))]
      /\ crashes' \in 0..MaxCrashes
      /\ \A j \in Jobs : outbox'[j].due => outbox'[j].state = "pending"
      /\ TriesInv'
  BY <1>1 DEF TriesInv, OutboxOK, DeliveryOK
<1>3. OutInv' BY <1>1, <1>2 DEF OutInv
<1>4. DownIsEmpty' BY DownStep DEF JobInv
<1>5. HeldInv' BY HeldStep
<1>6. TypeOK'
  <2>1. /\ FeedTypes /\ FileTypes /\ FlagTypes /\ MiscTypes /\ ModelTypes
        /\ SlotTypes /\ LaneCounted /\ PassedTypes
    BY TypeParts DEF JobInv
  <2>2. SentTypes BY InvFacts, HeldOf DEF SentTypes
  <2>3. /\ FeedTypes' /\ FileTypes' /\ FlagTypes' /\ MiscTypes' /\ ModelTypes'
        /\ SlotTypes' /\ PassedTypes' /\ SentTypes'
    BY <2>1, <2>2, FeedStep, FileStep, FlagStep, MiscStep, ModelStep, SlotStep, PassedStep,
       SentStep
  <2>4. LaneCounted' BY <2>1, LaneStep DEF SlotTypes
  <2>5. inFlight' \in [RemoteSet -> 0..MaxJobs]
    <3>1. ASSUME NEW r \in RemoteSet PROVE inFlight'[r] \in 0..MaxJobs
      <4>1. CASE up'
        <5>1. inFlight'[r] = Cardinality(SentTo(r)') BY <1>5, <4>1 DEF HeldInv, HeldOnce
        <5>2. SentTo(r)' \in SUBSET Jobs BY DEF SentTo
        <5> QED BY <5>1, <5>2, JobsFinite
      <4>2. CASE ~up'
        <5>1. inFlight'[r] = 0 BY <1>4, <4>2 DEF DownIsEmpty
        <5> QED BY <5>1
      <4> QED BY <4>1, <4>2
    <3> QED BY <2>3, <3>1 DEF SentTypes
  <2>6. row' \in [Jobs -> Rows] BY RowStep
  <2>7. sent' \in [Jobs -> [to : RemoteSet, phase : Phases] \cup {NotSent}]
    BY <2>3 DEF SentTypes
  <2> QED BY <1>2, <2>3, <2>4, <2>5, <2>6, <2>7, TypeNext
<1>7. UploadsInv' /\ StartsInv' /\ MetalInv' BY UploadsStep, StartsStep, MetalStep
<1> QED BY <1>3, <1>4, <1>5, <1>6, <1>7 DEF JobInv

(* The invariant holds in every state: what the service holds, what the      *)
(* store says and what the outbox owes agree after every step of jobs.ts.    *)
THEOREM JobInvariance == Spec => []JobInv
<1>1. Init => JobInv BY InitJobInv
<1>2. JobInv /\ [Next]_vars => JobInv' BY JobInvStep
<1> QED BY <1>1, <1>2, PTL DEF Spec

(* The tables, the counts and the places keep their types and their bounds.  *)
THEOREM JobTypeCorrect == Spec => []TypeOK
<1>1. JobInv => TypeOK BY DEF JobInv
<1> QED BY <1>1, JobInvariance, PTL

(* Every running job is run by exactly one Worker or remote, and a remote's  *)
(* count is the requests that are out, whatever is deleted, crashes or       *)
(* answers late (jobs.ts:1526-1543, 1784-1802, 1902-1904).                   *)
THEOREM JobsHeldOnce == Spec => []HeldOnce
<1>1. JobInv => HeldOnce BY DEF JobInv, HeldInv
<1> QED BY <1>1, JobInvariance, PTL

(* Two models on Metal never run together (jobs.ts:1436-1448).               *)
THEOREM MetalRunsAlone == Spec => []MetalAlone
<1>1. JobInv => MetalAlone
  <2> SUFFICES ASSUME JobInv PROVE MetalAlone OBVIOUS
  <2> DEFINE S == {j \in InSlots \cup lane : row[j].kind.model \in Metal}
  <2>1. \A i, j \in S : i = j BY DEF JobInv, MetalInv
  <2>2. CASE S = {} BY <2>2, FS_EmptySet DEF MetalAlone
  <2>3. ASSUME NEW j \in S PROVE MetalAlone
    <3>1. S = {j} BY <2>1
    <3> HIDE DEF S
    <3>2. Cardinality(S) = 1 BY <3>1, FS_Singleton
    <3> QED BY <3>2 DEF MetalAlone, S
  <2> QED BY <2>2, <2>3
<1> QED BY <1>1, JobInvariance, PTL

(* A job that waits, or is out on a remote, has a start left (jobs.ts:606-617). *)
THEOREM StartsLeft == Spec => []RestartsBounded
<1>1. JobInv => RestartsBounded BY DEF JobInv, StartsInv, RestartsBounded
<1> QED BY <1>1, JobInvariance, PTL

(* The uploads on disk are those of the jobs that need them, whatever        *)
(* crashes (jobs.ts:618-631, 1196-1200, 1711).                               *)
THEOREM UploadsStay == Spec => []UploadsKept
<1>1. JobInv => UploadsKept BY DEF JobInv, UploadsInv, UploadsKept, Tidy
<1> QED BY <1>1, JobInvariance, PTL

(* A delivery has at most one request out, is given up only after the whole  *)
(* schedule, and its count of tries never goes back (webhooks.ts:303,        *)
(* 331-341).                                                                 *)
THEOREM TriesAreCounted == Spec => []TriesCounted
<1>1. JobInv => TriesCounted
  <2> SUFFICES ASSUME JobInv, NEW j \in Jobs
               PROVE  /\ Cardinality(trying[j]) <= 1
                      /\ outbox[j].why = "tries" => outbox[j].tries >= MaxTries
                      /\ \A n \in trying[j] : n <= outbox[j].tries
                      /\ outbox[j].tries <= MaxTries + crashes
    BY DEF TriesCounted
  <2>1. DeliveryOK(outbox[j], trying[j], crashes) /\ crashes \in Nat BY OutboxOf DEF OutboxOK
  <2>2. Cardinality(trying[j]) <= 1
    <3>1. CASE trying[j] = {} BY <3>1, FS_EmptySet
    <3>2. CASE trying[j] # {}
      <4>1. PICK n : trying[j] = {n} BY <2>1, <3>2 DEF DeliveryOK
      <4>2. Cardinality(trying[j]) = 1 BY <4>1, FS_Singleton
      <4> QED BY <4>2
    <3> QED BY <3>1, <3>2
  <2>3. outbox[j].tries \in Nat BY <2>1 DEF DeliveryOK, Deliveries
  <2>4. outbox[j].state = "none" => outbox[j].tries = 0 BY <2>1 DEF DeliveryOK, NoDelivery
  <2> QED BY <2>1, <2>2, <2>3, <2>4 DEF DeliveryOK
<1> QED BY <1>1, JobInvariance, PTL

(* A delivery that is closed stays as it is: no late answer, no 410 of       *)
(* another delivery and no delete changes it (webhooks.ts:391,               *)
(* store.ts:955-976).                                                        *)
THEOREM ClosedForGood == Spec => ClosedStays
<1>1. JobInv /\ [Next]_vars
        => [\A j \in Jobs : Closed(outbox[j]) => outbox'[j] = outbox[j]]_deliveryVars
  <2> SUFFICES ASSUME JobInv, [Next]_vars, NEW j \in Jobs, Closed(outbox[j])
               PROVE  outbox'[j] = outbox[j]
    OBVIOUS
  <2>1. OutboxOK /\ NotToldYet /\ OutboxMoves BY OutboxOf, OutStep
  <2> QED BY <2>1, ClosedStep
<1> QED BY <1>1, JobInvariance, PTL DEF Spec, ClosedStays

-----------------------------------------------------------------------------
(* The service and JobLife.                                                  *)

(* At first no job is born.                                                  *)
LEMMA LifeInit == ASSUME Init PROVE Life!Init
<1>1. ASSUME NEW j \in Jobs PROVE LifeOf[j] = Life!Unborn
  BY DEF Init, StoreInit, OutboxInit, NoRow, NoDelivery, LifeOf, Held, In, Open, Over, Life!Unborn
<1>2. LifeOf = [j \in Jobs |-> LifeOf[j]] BY DEF LifeOf
<1> QED BY <1>1, <1>2 DEF Life!Init

(* A job as JobLife has it, from its fields.                                 *)
LifeOfJob(state, tells, said, delivery) ==
  [state |-> state, tells |-> tells, said |-> said, delivery |-> delivery]

(* The fields of such a job, and what writing one leaves of the others.      *)
LEMMA LifeOfJobFields ==
  ASSUME NEW a, NEW b, NEW c, NEW d, NEW x
  PROVE  /\ [LifeOfJob(a, b, c, d) EXCEPT !.state = x] = LifeOfJob(x, b, c, d)
         /\ [LifeOfJob(a, b, c, d) EXCEPT !.tells = x] = LifeOfJob(a, x, c, d)
         /\ [LifeOfJob(a, b, c, d) EXCEPT !.said = x] = LifeOfJob(a, b, x, d)
         /\ [LifeOfJob(a, b, c, d) EXCEPT !.delivery = x] = LifeOfJob(a, b, c, x)
         /\ LifeOfJob(a, b, c, d).state = a /\ LifeOfJob(a, b, c, d).tells = b
         /\ LifeOfJob(a, b, c, d).said = c /\ LifeOfJob(a, b, c, d).delivery = d
BY DEF LifeOfJob

(* What a deletion makes of each field.                                      *)
LEMMA DeletedFields ==
  ASSUME NEW state, NEW tells, NEW said, NEW delivery, NEW t,
         t = IF state = "open" /\ tells # "nothing" THEN <<"cancelled">> ELSE said,
         NEW l, l = LifeOfJob(state, tells, said, delivery)
  PROVE  Life!Deleted(l) = LifeOfJob("gone", "nothing", t, delivery)
<1>1. PICK no : no = FALSE OBVIOUS
<1>2. Life!Unborn = LifeOfJob("none", "nothing", <<>>, no) BY <1>1 DEF Life!Unborn, LifeOfJob
<1>3. l.state = state /\ l.tells = tells /\ l.said = said /\ l.delivery = delivery
  BY LifeOfJobFields
<1>4. Life!Deleted(l) = [Life!Unborn EXCEPT !.state = "gone", !.said = t, !.delivery = delivery]
  BY <1>3 DEF Life!Deleted
<1>5. [Life!Unborn EXCEPT !.state = "gone"] = LifeOfJob("gone", "nothing", <<>>, no)
  BY <1>2, LifeOfJobFields
<1>6. [LifeOfJob("gone", "nothing", <<>>, no) EXCEPT !.said = t] =
        LifeOfJob("gone", "nothing", t, no)
  BY LifeOfJobFields
<1>7. [LifeOfJob("gone", "nothing", t, no) EXCEPT !.delivery = delivery] =
        LifeOfJob("gone", "nothing", t, delivery)
  BY LifeOfJobFields
<1> QED BY <1>4, <1>5, <1>6, <1>7

(* What each of the four things that can happen to a job is in JobLife.      *)
LEMMA LifeMoves ==
  ASSUME row \in [Jobs -> Rows], feed \in [Jobs -> Seq({"completed", "failed", "cancelled"})],
         NotToldYet, NEW j \in Jobs
  PROVE  /\ Stays(j) => LifeOf'[j] = LifeOf[j]
         /\ Ends(j) => /\ LifeOf[j].state = "open"
                       /\ \E s \in {"done", "failed"} : LifeOf'[j] = Life!Ended(LifeOf[j], s)
         /\ Leaves(j) => /\ LifeOf[j].state \in {"open", "done", "failed"}
                         /\ LifeOf'[j] = Life!Deleted(LifeOf[j])
         /\ Comes(j) => /\ LifeOf[j].state = "none"
                        /\ \E tells \in {"nothing", "feed", "callback"} :
                             LifeOf'[j] = [LifeOf[j] EXCEPT !.state = "open", !.tells = tells]
<1>1. /\ LifeOf[j] =
           [state |-> IF row[j].status \in Open THEN "open" ELSE row[j].status,
            tells |-> IF row[j].status \in Open \cup Over THEN row[j].kind.tells ELSE "nothing",
            said |-> feed[j],
            delivery |-> Told(j)]
      /\ LifeOf'[j] =
           [state |-> IF row'[j].status \in Open THEN "open" ELSE row'[j].status,
            tells |-> IF row'[j].status \in Open \cup Over THEN row'[j].kind.tells ELSE "nothing",
            said |-> feed'[j],
            delivery |-> Told(j)']
  BY DEF LifeOf, Held, In, Told
<1>2. row[j].status \in Open \cup {"none"} => feed[j] = <<>> /\ Told(j) = FALSE
  BY DEF NotToldYet, Told, NoDelivery
<1>3. row[j].status \in Open \cup Over => row[j].kind.tells \in {"nothing", "feed", "callback"}
  BY JobRow DEF JobRows, KindSet
<1>4. Stays(j) => LifeOf'[j] = LifeOf[j] BY <1>1 DEF Stays
<1>5. ASSUME Ends(j)
      PROVE  /\ LifeOf[j].state = "open"
             /\ \E s \in {"done", "failed"} : LifeOf'[j] = Life!Ended(LifeOf[j], s)
  <2>1. /\ LifeOf[j] = [state |-> "open", tells |-> row[j].kind.tells, said |-> <<>>,
                        delivery |-> FALSE]
        /\ row'[j].status \in {"done", "failed"}
        /\ LifeOf'[j] = [state |-> row'[j].status, tells |-> row[j].kind.tells,
                         said |-> feed'[j], delivery |-> row[j].kind.tells = "callback"]
    <3>1. LifeOf[j] = [state |-> "open", tells |-> row[j].kind.tells, said |-> <<>>,
                       delivery |-> FALSE]
      BY <1>1, <1>2, <1>5 DEF Ends
    <3>2. row'[j].status \in {"done", "failed"} /\ row'[j].status \notin Open
      BY <1>5 DEF Ends, Over, Open
    <3>3. Told(j)' = (row[j].kind.tells = "callback") BY <1>2, <1>5 DEF Ends
    <3> QED BY <1>1, <1>5, <3>1, <3>2, <3>3 DEF Ends
  <2>2. feed'[j] = IF row[j].kind.tells = "nothing" THEN <<>>
                   ELSE IF row'[j].status = "done" THEN <<"completed">> ELSE <<"failed">>
    <3>1. feed[j] = <<>> BY <1>2, <1>5 DEF Ends
    <3>2. Append(feed[j], EventOf(row'[j].status)) = <<EventOf(row'[j].status)>> BY <3>1
    <3> QED BY <3>1, <3>2, <1>5 DEF Ends, EventOf
  <2> DEFINE l == LifeOf[j]
             m == LifeOf'[j]
             tells == row[j].kind.tells
             s == row'[j].status
             said == feed'[j]
             called == tells = "callback"
             open == "open"
             unsaid == <<>>
             no == FALSE
  <2> HIDE DEF l, m, tells, s, said, called, open, unsaid, no
  <2>3. l = LifeOfJob(open, tells, unsaid, no)
    BY <2>1 DEF l, tells, open, unsaid, no, LifeOfJob
  <2>4. m = LifeOfJob(s, tells, said, called) BY <2>1 DEF m, tells, s, said, called, LifeOfJob
  <2>5. said = IF tells = "nothing" THEN <<>>
               ELSE IF s = "done" THEN <<"completed">> ELSE <<"failed">>
    BY <2>2 DEF said, tells, s
  <2>6. called = (tells = "callback") BY DEF called
  <2>7. Life!Ended(l, s) = LifeOfJob(s, tells, said, called)
    <3>1. l.tells = tells BY <2>3, LifeOfJobFields
    <3>2. Life!Ended(l, s) = [l EXCEPT !.state = s, !.said = said, !.delivery = called]
      BY <2>5, <2>6, <3>1 DEF Life!Ended
    <3>3. [l EXCEPT !.state = s] = LifeOfJob(s, tells, unsaid, no) BY <2>3, LifeOfJobFields
    <3>4. [LifeOfJob(s, tells, unsaid, no) EXCEPT !.said = said] = LifeOfJob(s, tells, said, no)
      BY LifeOfJobFields
    <3>5. [LifeOfJob(s, tells, said, no) EXCEPT !.delivery = called] =
            LifeOfJob(s, tells, said, called)
      BY LifeOfJobFields
    <3> QED BY <3>2, <3>3, <3>4, <3>5
  <2>8. LifeOf'[j] = Life!Ended(LifeOf[j], row'[j].status) BY <2>4, <2>7 DEF l, m, s
  <2> QED BY <2>1, <2>8
<1>6. ASSUME Leaves(j)
      PROVE  /\ LifeOf[j].state \in {"open", "done", "failed"}
             /\ LifeOf'[j] = Life!Deleted(LifeOf[j])
  <2>1. LifeOf[j].state \in {"open", "done", "failed"}
    BY <1>1, <1>6 DEF Leaves, Open, Over
  <2>2. /\ LifeOf'[j] = [state |-> "gone", tells |-> "nothing", said |-> feed'[j],
                         delivery |-> Told(j)]
        /\ LifeOf[j].delivery = Told(j) /\ LifeOf[j].said = feed[j]
    BY <1>1, <1>6 DEF Leaves, GoneRow, Open, Over
  <2>3. feed'[j] = IF LifeOf[j].state = "open" /\ LifeOf[j].tells # "nothing"
                   THEN <<"cancelled">> ELSE LifeOf[j].said
    <3>1. CASE row[j].status \in Open
      <4>1. LifeOf[j].state = "open" /\ LifeOf[j].tells = row[j].kind.tells
        BY <1>1, <3>1
      <4>2. Append(feed[j], "cancelled") = <<"cancelled">>
        <5>1. feed[j] = <<>> BY <1>2, <3>1
        <5> QED BY <5>1
      <4> QED BY <4>1, <4>2, <1>6, <2>2, <3>1 DEF Leaves
    <3>2. CASE row[j].status \notin Open
      <4>1. LifeOf[j].state # "open" BY <1>1, <1>6, <3>2 DEF Leaves, Open, Over
      <4> QED BY <4>1, <1>6, <2>2, <3>2 DEF Leaves
    <3> QED BY <3>1, <3>2
  <2>4. LifeOf[j] = [state |-> LifeOf[j].state, tells |-> LifeOf[j].tells,
                     said |-> LifeOf[j].said, delivery |-> Told(j)]
    BY <1>1
  <2> DEFINE l == LifeOf[j]
             said == feed'[j]
  <2> HIDE DEF l, said
  <2>5. l = LifeOfJob(l.state, l.tells, l.said, Told(j)) BY <2>4 DEF l, LifeOfJob
  <2>7. said = IF l.state = "open" /\ l.tells # "nothing" THEN <<"cancelled">> ELSE l.said
    BY <2>3 DEF said, l
  <2>6. Life!Deleted(l) = LifeOfJob("gone", "nothing", said, Told(j))
    BY <2>7, <2>5, DeletedFields

  <2> QED BY <2>1, <2>2, <2>6 DEF l, said, LifeOfJob
<1>7. ASSUME Comes(j)
      PROVE  /\ LifeOf[j].state = "none"
             /\ \E tells \in {"nothing", "feed", "callback"} :
                  LifeOf'[j] = [LifeOf[j] EXCEPT !.state = "open", !.tells = tells]
  <2>1. /\ LifeOf[j].state = "none"
        /\ LifeOf[j] = [state |-> "none", tells |-> "nothing", said |-> feed[j],
                        delivery |-> Told(j)]
        /\ LifeOf'[j] = [state |-> "open", tells |-> row'[j].kind.tells, said |-> feed[j],
                         delivery |-> Told(j)]
    BY <1>1, <1>7 DEF Comes, Open, Over
  <2>2. row'[j].kind.tells \in {"nothing", "feed", "callback"}
    BY <1>7 DEF Comes, JobRows, KindSet
  <2> DEFINE l == LifeOf[j]
             said == feed[j]
             told == Told(j)
             tells == row'[j].kind.tells
             none == "none"
             nothing == "nothing"
  <2> HIDE DEF l, said, told, tells, none, nothing
  <2>3. l = LifeOfJob(none, nothing, said, told)
    BY <2>1 DEF l, said, told, none, nothing, LifeOfJob
  <2>4. [l EXCEPT !.state = "open", !.tells = tells] = LifeOfJob("open", tells, said, told)
    <3>1. [l EXCEPT !.state = "open"] = LifeOfJob("open", nothing, said, told)
      BY <2>3, LifeOfJobFields
    <3>2. [LifeOfJob("open", nothing, said, told) EXCEPT !.tells = tells] =
            LifeOfJob("open", tells, said, told)
      BY LifeOfJobFields
    <3> QED BY <3>1, <3>2
  <2>5. LifeOf'[j] = LifeOfJob("open", tells, said, told)
    BY <2>1 DEF said, told, tells, LifeOfJob
  <2>6. LifeOf'[j] = [l EXCEPT !.state = "open", !.tells = tells] BY <2>4, <2>5
  <2> QED BY <2>1, <2>2, <2>6 DEF l, tells
<1> QED BY <1>4, <1>5, <1>6, <1>7

(* Every step of the service is a step of JobLife, or none.                  *)
LEMMA LifeStep == ASSUME JobInv, [Next]_vars PROVE [Life!Next]_LifeOf
<1>1. /\ row \in [Jobs -> Rows] /\ NotToldYet /\ StoreMoves
      /\ feed \in [Jobs -> Seq({"completed", "failed", "cancelled"})]
  BY InvFacts, RowStep DEF JobInv, OutInv
<1>2. LifeOf' = [j \in Jobs |-> LifeOf'[j]] /\ LifeOf = [j \in Jobs |-> LifeOf[j]]
  BY DEF LifeOf
<1>3. CASE \A j \in Jobs : Stays(j) \/ Ends(j)
  <2>1. \A j \in Jobs :
          \/ LifeOf'[j] = LifeOf[j]
          \/ /\ LifeOf[j].state = "open"
             /\ LifeOf'[j] \in {Life!Ended(LifeOf[j], s) : s \in {"done", "failed"}}
    BY <1>1, <1>3, LifeMoves
  <2> QED BY <2>1, <1>2 DEF Life!Next, Life!End
<1>4. CASE \A j \in Jobs : Stays(j) \/ Leaves(j)
  <2>1. \A j \in Jobs :
          \/ LifeOf'[j] = LifeOf[j]
          \/ /\ LifeOf[j].state \in {"open", "done", "failed"}
             /\ LifeOf'[j] = Life!Deleted(LifeOf[j])
    BY <1>1, <1>4, LifeMoves
  <2> QED BY <2>1, <1>2 DEF Life!Next, Life!Delete
<1>5. ASSUME NEW j \in Jobs, Comes(j), \A i \in Jobs \ {j} : Stays(i) PROVE Life!Next
  <2>1. LifeOf[j].state = "none" BY <1>1, <1>5, LifeMoves
  <2>2. PICK tells \in {"nothing", "feed", "callback"} :
          LifeOf'[j] = [LifeOf[j] EXCEPT !.state = "open", !.tells = tells]
    BY <1>1, <1>5, LifeMoves
  <2>3. \A i \in Jobs \ {j} : LifeOf'[i] = LifeOf[i] BY <1>1, <1>5, LifeMoves
  <2>4. LifeOf' = [LifeOf EXCEPT ![j].state = "open", ![j].tells = tells]
    BY <1>2, <2>2, <2>3
  <2>5. Life!Submit(j, tells) BY <2>1, <2>4 DEF Life!Submit
  <2> QED BY <2>5 DEF Life!Next
<1> QED BY <1>1, <1>3, <1>4, <1>5 DEF StoreMoves

(* Every behaviour of the service is one of JobLife: each job ends at most   *)
(* once, and its end, the event of it and the delivery are one step, through *)
(* crashes, deletes and late answers (store.ts:703-728, 737-771).            *)
THEOREM JobLifeImplemented == Spec => LifeSpec
<1>1. Init => Life!Init BY LifeInit
<1>2. JobInv /\ [Next]_vars => [Life!Next]_LifeOf BY LifeStep
<1> QED BY <1>1, <1>2, JobInvariance, PTL DEF Spec, LifeSpec, Life!Spec

-----------------------------------------------------------------------------
(* Where a job may run.                                                      *)

(* The job is as it was, or its store has moved it to this server.           *)
RouteKept(j) ==
  row'[j].status \in Open =>
    /\ row[j].status \in Open /\ row'[j].kind = row[j].kind
    /\ row'[j].route \in {row[j].route, "local"}

(* Routes are kept that are not touched or become this server's.             *)
LEMMA RoutesKept == ASSUME RoutesInv, \A j \in Jobs : RouteKept(j) PROVE RoutesInv'
BY DEF RoutesInv, RouteKept, RouteFits, Configured

(* Moving jobs to a status keeps their routes.                               *)
LEMMA RoutesBecome ==
  ASSUME RoutesInv, NEW S, NEW status, Becomes(S, status) PROVE RoutesInv'
BY RoutesKept DEF Becomes, RouteKept

(* A step that leaves the table.                                             *)
LEMMA RoutesSame == ASSUME RoutesInv, row' = row PROVE RoutesInv'
BY DEF RoutesInv, RouteFits, Configured

(* Jobs that end, or that fail while they wait.                              *)
LEMMA RoutesEnd ==
  ASSUME JobInv, RoutesInv, NEW table, Edited(table), NEW S \in SUBSET Jobs, NEW status \in Over,
         Conclude(table, S, status)
  PROVE  RoutesInv'
BY FinishRow, RoutesBecome DEF Conclude

LEMMA RoutesWaiting == ASSUME JobInv, RoutesInv, WaitingFail PROVE RoutesInv'
<1>1. \A S \in SUBSET Queued : S \in SUBSET Jobs BY DEF Queued, In
<1>2. "failed" \in Over BY DEF Over
<1> QED BY <1>1, <1>2, EditedSelf, RoutesEnd, RoutesSame DEF WaitingFail

(* Jobs that are removed.                                                    *)
LEMMA RoutesDrop == ASSUME RoutesInv, NEW S, NEW loads, Drop(S, loads) PROVE RoutesInv'
<1>1. \A j \in Jobs : row'[j] = IF j \in S THEN GoneRow ELSE row[j] BY DEF Drop, RemoveJobs
<1>2. \A j \in Jobs : RouteKept(j) BY <1>1 DEF RouteKept, GoneRow, Open
<1> QED BY <1>2, RoutesKept

(* Every step keeps where the jobs may run.                                  *)
LEMMA RoutesStep == ASSUME JobInv, RoutesInv, [Next]_vars PROVE RoutesInv'
<1>1. CASE Start
  <2>1. PICK fails \in SUBSET In(row, Open) : Restarts(fails) BY <1>1, StartRow
  <2>2. \A j \in Jobs : RouteKept(j) BY <2>1 DEF Restarts, Edits, RouteKept, Open
  <2> QED BY <2>2, RoutesKept
<1>2. ASSUME NEW last \in {0} \cup Jobs, SweepAtStart(last) PROVE RoutesInv'
  BY <1>2, RoutesDrop DEF SweepAtStart
<1>3. CASE Crash
  BY <1>3, RoutesSame DEF Crash
<1>4. CASE CleanUp
  BY <1>4, RoutesSame DEF CleanUp
<1>5. CASE DispatchStep
  <2>1. CASE Sendable # {} BY <1>5, <2>1, DispatchRow, RoutesBecome
  <2>2. CASE Sendable = {} BY <1>5, <2>2, RoutesSame DEF DispatchStep
  <2> QED BY <2>1, <2>2
<1>6. CASE PumpStep /\ StartInLane
  BY <1>6, LaneRow, RoutesBecome
<1>7. CASE PumpStep /\ StartInSlot
  BY <1>7, SlotRow, RoutesBecome
<1>8. CASE PumpStep /\ PumpEnds
  BY <1>8, RoutesSame DEF PumpEnds
<1>9. ASSUME NEW kind \in Kinds, Submit(kind) PROVE RoutesInv'
  <2>1. PICK j \in Jobs : Arrives(j) BY <1>9, SubmitRow
  <2> QED BY <2>1 DEF Arrives, RoutesInv, RouteFits, Configured
<1>10. ASSUME NEW j \in Jobs, Delete(j) PROVE RoutesInv'
  BY <1>10, RoutesDrop DEF Delete
<1>11. ASSUME NEW j \in Jobs, Sweep(j) PROVE RoutesInv'
  BY <1>11, RoutesDrop DEF Sweep
<1>12. CASE Reroute
  BY <1>12, RerouteRow, RoutesWaiting
<1>13. ASSUME NEW j \in Jobs, NEW status \in Over, NEW loads \in BOOLEAN, RunEnds(j, status, loads)
      PROVE  RoutesInv'
  BY <1>13, EditedSelf, RoutesEnd DEF RunEnds
<1>14. ASSUME NEW i \in Places, WorkerReleased(i) PROVE RoutesInv'
  BY <1>14, RoutesSame DEF WorkerReleased
<1>15. ASSUME NEW m \in Models, ModelGoes(m) PROVE RoutesInv'
  BY <1>15, RoutesSame DEF ModelGoes
<1>16. ASSUME NEW m \in Models, NEW ok \in BOOLEAN, DownloadEnds(m, ok) PROVE RoutesInv'
  BY <1>16, DownloadRow, RoutesWaiting
<1>17. ASSUME NEW j \in Jobs, UploadTaken(j) PROVE RoutesInv'
  BY <1>17, UploadTakenRow, RoutesBecome
<1>18. ASSUME NEW j \in Jobs, RequestFails(j) PROVE RoutesInv'
  BY <1>18, BackRow, RoutesBecome
<1>19. ASSUME NEW j \in Jobs, JobLost(j) PROVE RoutesInv'
  BY <1>19, BackRow, RoutesBecome
<1>20. ASSUME NEW j \in Jobs, TurnedAway(j) PROVE RoutesInv'
  BY <1>20, BackRow, RoutesBecome
<1>21. ASSUME NEW j \in Jobs, Rejected(j) PROVE RoutesInv'
  <2>1. CASE Becomes({j}, "queued") BY <2>1, RoutesBecome
  <2>2. ASSUME NEW table, Edited(table), Conclude(table, {j}, "failed") PROVE RoutesInv'
    BY <2>2, RoutesEnd DEF Over
  <2> QED BY <1>21, <2>1, <2>2, RejectedRow
<1>22. ASSUME NEW j \in Jobs, Abandoned(j) PROVE RoutesInv'
  BY <1>22, RoutesSame DEF Abandoned
<1>23. ASSUME NEW j \in Jobs, HoldLapses(j) PROVE RoutesInv'
  BY <1>23, RoutesSame DEF HoldLapses
<1>24. ASSUME NEW j \in Jobs, NEW status \in Over, RemoteEnds(j, status) PROVE RoutesInv'
  BY <1>24, EditedSelf, RoutesEnd DEF RemoteEnds
<1>25. ASSUME NEW r \in RemoteSet, ProbeStarts(r) PROVE RoutesInv'
  BY <1>25, RoutesSame DEF ProbeStarts
<1>26. ASSUME NEW r \in RemoteSet, NEW found \in RemoteStates \ {"unknown"}, ProbeEnds(r, found)
      PROVE  RoutesInv'
  BY <1>26, ProbeRow, RoutesWaiting
<1>27. CASE Delivering
  BY <1>27, RoutesSame DEF Delivering
<1>28. CASE KeyRevoked
  BY <1>28, RoutesSame DEF KeyRevoked
<1>29. CASE UNCHANGED vars
  BY <1>29, RoutesSame DEF vars
<1> QED BY <1>1, <1>2, <1>3, <1>4, <1>5, <1>6, <1>7, <1>8, <1>9, <1>10, <1>11, <1>12, <1>13,
           <1>14, <1>15, <1>16, <1>17, <1>18, <1>19, <1>20, <1>21, <1>22, <1>23, <1>24, <1>25,
           <1>26, <1>27, <1>28, <1>29
  DEF Next, StartSweep, Clients, Here, There, PumpStep

-----------------------------------------------------------------------------
(* No job waits that could run.                                              *)

(* The jobs that wait waited, and stand as they did.                         *)
WaitedBefore == \A j \in Jobs : row'[j].status = "queued" => row'[j] = row[j]

(* What decides a route, apart from the job.                                 *)
SameRoutes == UNCHANGED <<engine, overflow, rstate, inFlight>>

(* The same job goes where it went.                                          *)
LEMMA RouteSame ==
  ASSUME SameRoutes, NEW j, row'[j] = row[j]
  PROVE  RouteOf(j)' = RouteOf(j)
BY DEF SameRoutes, RouteOf, Pick, Offers, Configured

(* dispatch() has nothing left to send, and no job comes to wait.            *)
LEMMA SendsNothing ==
  ASSUME NothingToSend, SameRoutes, WaitedBefore,
         \A j \in Jobs : row'[j].status = "queued" => held'[j] \in {held[j], "lapsed"}
  PROVE  NothingToSend'
<1> SUFFICES ASSUME NEW j \in Jobs, row'[j].status = "queued", held'[j] # "waiting",
                    RouteOf(j)' \in RemoteSet
             PROVE  held'[j] = "lapsed"
  BY DEF NothingToSend, Sendable, Queued, In
<1>1. row'[j] = row[j] BY DEF WaitedBefore
<1>2. RouteOf(j) \in RemoteSet BY <1>1, RouteSame
<1>3. CASE held'[j] = held[j]
  <2>1. j \in Sendable BY <1>1, <1>2, <1>3 DEF Sendable, Queued, In
  <2> QED BY <1>3, <2>1 DEF NothingToSend
<1> QED BY <1>3

(* What pump() would start, after a step that lets no job come to wait.      *)
LEMMA ReadyShrinks ==
  ASSUME SameRoutes, WaitedBefore, InSlots' = InSlots, lane' = lane,
         \A j \in InSlots \cup lane : row'[j].kind.model = row[j].kind.model,
         \A j \in ForLane \cup ForQueue : row[j].kind.model \in onDisk' <=> row[j].kind.model \in onDisk
  PROVE  /\ ForLane' \subseteq ForLane /\ LaneReady' \subseteq LaneReady
         /\ ForQueue' \subseteq ForQueue /\ QueueReady' \subseteq QueueReady
         /\ Missing(ForLane)' \subseteq Missing(ForLane)
         /\ Missing(ForQueue)' \subseteq Missing(ForQueue)
<1>1. ASSUME NEW j \in ForLane' PROVE j \in ForLane /\ row'[j] = row[j]
  BY <1>1 DEF ForLane, Queued, In, WaitedBefore
<1>2. ASSUME NEW j \in ForQueue' PROVE j \in ForQueue /\ row'[j] = row[j]
  <2>1. j \in Jobs /\ row'[j].status = "queued" /\ RouteOf(j)' = "local"
        /\ ~(LaneSize' > 0 /\ row'[j].kind.lane)
    BY <1>2 DEF ForQueue, Queued, In
  <2>2. row'[j] = row[j] BY <2>1 DEF WaitedBefore
  <2>3. RouteOf(j) = "local" BY <2>1, <2>2, RouteSame
  <2>4. LaneSize' = LaneSize BY DEF SameRoutes, LaneSize
  <2> QED BY <2>1, <2>2, <2>3, <2>4 DEF ForQueue, Queued, In
<1>3. MetalBusy' <=> MetalBusy BY DEF MetalBusy
<1>4. ASSUME NEW j \in ForLane \cup ForQueue, row'[j] = row[j], Ready(j)' PROVE Ready(j)
  BY <1>3, <1>4 DEF Ready
<1>5. LaneReady' \subseteq LaneReady /\ QueueReady' \subseteq QueueReady
  BY <1>1, <1>2, <1>4 DEF LaneReady, QueueReady
<1>6. Missing(ForLane)' \subseteq Missing(ForLane) BY <1>1 DEF Missing
<1>7. Missing(ForQueue)' \subseteq Missing(ForQueue) BY <1>2 DEF Missing
<1> QED BY <1>1, <1>2, <1>5, <1>6, <1>7

(* pump() has nothing left to start, and no place is freed.                  *)
LEMMA StartsNothing ==
  ASSUME NothingToStart, SameRoutes, WaitedBefore, InSlots' = InSlots, lane' = lane,
         \A j \in InSlots \cup lane : row'[j].kind.model = row[j].kind.model,
         \A j \in ForLane \cup ForQueue : row[j].kind.model \in onDisk' <=> row[j].kind.model \in onDisk,
         fetching' = fetching
  PROVE  NothingToStart'
<1>1. LaneHasRoom' = LaneHasRoom /\ QueueHasRoom' = QueueHasRoom
  BY DEF LaneHasRoom, QueueHasRoom, LaneSize, SameRoutes
<1>2. /\ LaneReady' \subseteq LaneReady /\ QueueReady' \subseteq QueueReady
      /\ Missing(ForLane)' \subseteq Missing(ForLane)
      /\ Missing(ForQueue)' \subseteq Missing(ForQueue)
  BY ReadyShrinks
<1> QED BY <1>1, <1>2 DEF NothingToStart

(* When pump() ends, what could not start is being fetched.                  *)
LEMMA PumpDone == ASSUME PumpStep, PumpEnds PROVE NothingToStart'
<1>1. UNCHANGED <<row, engine, overflow, rstate, inFlight, slots, lane, onDisk>>
  BY DEF PumpStep, PumpEnds
<1>2. /\ LaneReady' = LaneReady /\ QueueReady' = QueueReady
      /\ Missing(ForLane)' = Missing(ForLane) /\ Missing(ForQueue)' = Missing(ForQueue)
      /\ LaneHasRoom' = LaneHasRoom /\ QueueHasRoom' = QueueHasRoom
  <2> QED BY <1>1 DEF LaneReady, QueueReady, Missing, ForLane, ForQueue, Ready, MetalBusy, InSlots,
             Queued, In, LaneHasRoom, QueueHasRoom, LaneSize, RouteOf, Pick, Offers, Configured
<1>3. ~(LaneHasRoom /\ LaneReady # {}) /\ ~(QueueHasRoom /\ QueueReady # {}) BY DEF PumpEnds
<1>4. LaneHasRoom => Missing(ForLane) \subseteq fetching'
  <2> HAVE LaneHasRoom
  <2>1. LaneReady = {} BY <1>3
  <2>2. LaneFetches = Missing(ForLane) BY <2>1 DEF LaneFetches
  <2> QED BY <2>2 DEF PumpEnds
<1>5. QueueHasRoom => Missing(ForQueue) \subseteq fetching'
  <2> HAVE QueueHasRoom
  <2>1. QueueReady = {} BY <1>3
  <2>2. QueueFetches = Missing(ForQueue) BY <2>1 DEF QueueFetches
  <2> QED BY <2>2 DEF PumpEnds
<1> QED BY <1>2, <1>3, <1>4, <1>5 DEF NothingToStart

(* pick() gives a remote, or why there is none.                              *)
LEMMA PickIn ==
  ASSUME NEW kind, NEW first
  PROVE  Pick(kind, first) \in RemoteSet \cup {"pending", "busy", "nobody"}
<1> DEFINE asked == IF first /\ ~kind.listed THEN {} ELSE DOMAIN Remotes
           able  == {i \in asked : rstate[Remotes[i]] = "up"}
           free  == {i \in able : inFlight[Remotes[i]] < InFlight}
<1>1. free # {} => Remotes[Oldest(free)] \in RemoteSet
  <2> HAVE free # {}
  <2>1. free \subseteq DOMAIN Remotes /\ DOMAIN Remotes \subseteq Nat BY RemotesAssumption
  <2>2. \E i \in free : \A j \in free : i <= j BY <2>1, NatMin
  <2>3. Oldest(free) \in free BY <2>2 DEF Oldest
  <2> QED BY <2>1, <2>3 DEF RemoteSet
<1> QED BY <1>1 DEF Pick

(* What may start here is not for a remote alone.                            *)
LEMMA LocalRoute ==
  ASSUME JobInv, RoutesInv, NEW j \in ForLane \cup ForQueue PROVE row[j].route # "remote"
<1>1. j \in Jobs /\ row[j].status = "queued" BY DEF ForLane, ForQueue, Queued, In
<1>2. RouteFits(row[j]) BY <1>1 DEF RoutesInv, Open
<1>3. row[j].remote \in RemoteSet \cup {Nowhere}
  <2>1. row[j] \in JobRows BY <1>1, InvFacts, JobRow DEF Open
  <2> QED BY <2>1 DEF JobRows
<1>4. CASE row[j].kind.lane BY <1>2, <1>4 DEF RouteFits
<1>5. ASSUME row[j].route = "remote" PROVE RouteOf(j) # "local"
  <2> DEFINE picked == Pick(row[j].kind, FALSE)
  <2>1. Configured BY <1>2, <1>5 DEF RouteFits
  <2>2. (IF engine THEN row[j].route ELSE "remote") = "remote" BY <1>5
  <2>3. RouteOf(j) = IF row[j].remote # Nowhere /\ Offers(row[j].remote) THEN row[j].remote
                     ELSE IF picked \in {"busy", "pending"} THEN "wait"
                     ELSE IF picked # "nobody" THEN picked ELSE "wait"
    BY <1>5, <2>1, <2>2 DEF RouteOf
  <2>4. picked \in RemoteSet \cup {"pending", "busy", "nobody"} BY PickIn
  <2> HIDE DEF picked
  <2> QED BY <1>3, <2>3, <2>4, WordsAssumption
<1> QED BY <1>4, <1>5 DEF ForLane, ForQueue

(* A step that lets no job come to wait and frees no place, of which nothing *)
(* that waits learns.                                                        *)
LEMMA WorkKept ==
  ASSUME WorkInv, UNCHANGED <<up, turn, lane, fetching>>, SameRoutes, WaitedBefore,
         InSlots' = InSlots,
         \A j \in Jobs : row'[j].status = "queued" => held'[j] \in {held[j], "lapsed"},
         \A j \in InSlots \cup lane : row'[j].kind.model = row[j].kind.model,
         \A j \in ForLane \cup ForQueue : row[j].kind.model \in onDisk' <=> row[j].kind.model \in onDisk
  PROVE  WorkInv'
BY SendsNothing, StartsNothing DEF WorkInv

(* A step that leaves all this.                                              *)
LEMMA WorkSame ==
  ASSUME WorkInv, UNCHANGED <<up, turn, row, slots, lane, engine, overflow, rstate, inFlight, held,
                              onDisk, fetching>>
  PROVE  WorkInv'
<1>1. SameRoutes /\ WaitedBefore /\ InSlots' = InSlots BY DEF SameRoutes, WaitedBefore, InSlots
<1> QED BY <1>1, WorkKept

(* A step that lets no job come to wait, and pump() follows.                 *)
LEMMA WorkPumps ==
  ASSUME WorkInv, up, turn \in {"idle", "pump"}, turn' = "pump", SameRoutes, WaitedBefore,
         \A j \in Jobs : row'[j].status = "queued" => held'[j] \in {held[j], "lapsed"}
  PROVE  WorkInv'
BY SendsNothing DEF WorkInv

(* A step that dispatch() follows, or the end of the process.                *)
LEMMA WorkLater == ASSUME turn' \in {"sweep", "dispatch"} \/ ~up' PROVE WorkInv'
BY DEF WorkInv

(* The end of a job lets none come to wait.                                  *)
LEMMA WaitedEnd ==
  ASSUME JobInv, NEW S \in SUBSET Jobs, NEW status \in Over, Conclude(row, S, status)
  PROVE  WaitedBefore
<1>1. \A j \in Jobs : row'[j] = IF j \in Finishable(row, S, status)
                                THEN [row[j] EXCEPT !.status = status] ELSE row[j]
  BY DEF Conclude, Finish
<1>2. Becomes(Finishable(row, S, status), status) BY EditedSelf, FinishRow DEF Conclude
<1> QED BY <1>1, <1>2 DEF WaitedBefore, Becomes, Over

(* Nor does that of jobs that wait.                                          *)
LEMMA WaitedWaiting == ASSUME JobInv, WaitingFail PROVE WaitedBefore
<1>1. \A S \in SUBSET Queued : S \in SUBSET Jobs BY DEF Queued, In
<1>2. "failed" \in Over BY DEF Over
<1>3. row' = row => WaitedBefore BY DEF WaitedBefore
<1> QED BY <1>1, <1>2, <1>3, WaitedEnd DEF WaitingFail

(* Nor does a job that starts.                                               *)
LEMMA WaitedStart ==
  ASSUME NEW j, Becomes({j}, "running"), \A i \in Jobs \ {j} : row'[i] = row[i]
  PROVE  WaitedBefore
BY DEF WaitedBefore, Becomes

(* Jobs are removed: pump() follows if one of them ran here.                 *)
LEMMA WorkDrop ==
  ASSUME JobInv, WorkInv, Idle, NEW S \in SUBSET Held(row), NEW loads, Drop(S, loads),
         turn' = TurnAfterDrop(S)
  PROVE  WorkInv'
<1>1. S \in SUBSET Jobs BY DEF Held, In
<1>2. \A j \in Jobs : row'[j] = IF j \in S THEN GoneRow ELSE row[j] BY DEF Drop, RemoveJobs
<1>3. WaitedBefore BY <1>2 DEF WaitedBefore, GoneRow
<1>4. \A j \in Jobs : row'[j].status = "queued" => held'[j] \in {held[j], "lapsed"}
  BY <1>2 DEF Drop, GoneRow
<1>5. SameRoutes /\ UNCHANGED <<up, onDisk, fetching>> BY DEF Drop, SameRoutes
<1>6. up /\ turn = "idle" BY DEF Idle
<1>7. CASE S \cap (InSlots \cup lane) # {}
  <2>1. turn' = "pump" BY <1>7 DEF TurnAfterDrop
  <2> QED BY <2>1, <1>3, <1>4, <1>5, <1>6, WorkPumps
<1>8. CASE S \cap (InSlots \cup lane) = {}
  <2>1. turn' = turn BY <1>6, <1>8 DEF TurnAfterDrop
  <2>2. slots' = Vacated(S, loads) /\ lane' = lane \ S BY DEF Drop
  <2>3. InSlots' = InSlots \ S BY <1>1, <2>2, VacatedIn
  <2>4. InSlots' = InSlots /\ lane' = lane BY <1>8, <2>2, <2>3
  <2>5. \A j \in InSlots \cup lane : row'[j] = row[j] BY <1>2, <1>8, HeldOf
  <2> QED BY <2>1, <2>4, <2>5, <1>3, <1>4, <1>5, WorkKept
<1> QED BY <1>7, <1>8

(* Every step leaves no job waiting that could run, or goes on to find it.   *)
LEMMA WorkStep == ASSUME JobInv, RoutesInv, WorkInv, [Next]_vars PROVE WorkInv'
<1>1. CASE Start
  BY <1>1, WorkLater DEF Start
<1>2. ASSUME NEW last \in {0} \cup Jobs, SweepAtStart(last) PROVE WorkInv'
  BY <1>2, WorkLater DEF SweepAtStart
<1>3. CASE Crash
  BY <1>3, WorkLater DEF Crash
<1>4. CASE CleanUp
  BY <1>4, WorkSame DEF CleanUp
<1>5. CASE DispatchStep
  <2>1. CASE Sendable # {} BY <1>5, <2>1, WorkLater DEF DispatchStep
  <2>2. CASE Sendable = {}
    <3>1. turn' = "pump" /\ UNCHANGED <<row, held, inFlight, rstate, engine, overflow>>
      BY <1>5, <2>2 DEF DispatchStep
    <3>2. NothingToSend /\ SameRoutes /\ WaitedBefore
      BY <2>2, <3>1 DEF NothingToSend, SameRoutes, WaitedBefore
    <3>3. NothingToSend' BY <3>1, <3>2, SendsNothing
    <3> QED BY <3>1, <3>3 DEF WorkInv
  <2> QED BY <2>1, <2>2
<1>6. CASE PumpStep /\ StartInLane
  <2>1. WaitedBefore BY <1>6, LaneRow, WaitedStart
  <2>2. up /\ turn = "pump" /\ turn' = "pump" /\ SameRoutes /\ held' = held
    BY <1>6 DEF PumpStep, StartInLane, SameRoutes
  <2> QED BY <2>1, <2>2, WorkPumps
<1>7. CASE PumpStep /\ StartInSlot
  <2>1. WaitedBefore BY <1>7, SlotRow, WaitedStart
  <2>2. up /\ turn = "pump" /\ turn' = "pump" /\ SameRoutes /\ held' = held
    BY <1>7 DEF PumpStep, StartInSlot, SameRoutes
  <2> QED BY <2>1, <2>2, WorkPumps
<1>8. CASE PumpStep /\ PumpEnds
  <2>1. up /\ turn = "pump" /\ UNCHANGED <<row, held>> /\ SameRoutes
    BY <1>8 DEF PumpStep, PumpEnds, SameRoutes
  <2>2. NothingToSend' BY <2>1, SendsNothing DEF WorkInv, WaitedBefore
  <2> QED BY <1>8, <2>2, PumpDone DEF WorkInv
<1>9. ASSUME NEW kind \in Kinds, Submit(kind) PROVE WorkInv'
  BY <1>9, WorkLater DEF Submit
<1>10. ASSUME NEW j \in Jobs, Delete(j) PROVE WorkInv'
  <2>1. {j} \in SUBSET Held(row) /\ Idle BY <1>10 DEF Delete
  <2> QED BY <1>10, <2>1, WorkDrop DEF Delete
<1>11. ASSUME NEW j \in Jobs, Sweep(j) PROVE WorkInv'
  <2>1. Expired(j) \in SUBSET Held(row) /\ Idle BY <1>11 DEF Expired, Sweep
  <2> QED BY <1>11, <2>1, WorkDrop DEF Sweep
<1>12. CASE Reroute
  BY <1>12, WorkLater DEF Reroute
<1>13. ASSUME NEW j \in Jobs, NEW status \in Over, NEW loads \in BOOLEAN, RunEnds(j, status, loads)
      PROVE  WorkInv'
  <2>1. WaitedBefore
    <3>1. {j} \in SUBSET Jobs /\ Conclude(row, {j}, status) BY <1>13 DEF RunEnds
    <3> QED BY <3>1, WaitedEnd
  <2>2. up /\ turn = "idle" /\ turn' = "pump" /\ SameRoutes /\ held' = held
    BY <1>13 DEF RunEnds, Idle, SameRoutes
  <2> QED BY <2>1, <2>2, WorkPumps
<1>14. ASSUME NEW i \in Places, WorkerReleased(i) PROVE WorkInv'
  <2>1. UNCHANGED <<up, turn, row, lane, engine, overflow, rstate, inFlight, held, onDisk, fetching>>
    BY <1>14 DEF WorkerReleased
  <2>2. \A k \in Places : slots'[k].job = slots[k].job BY <1>14, HeldOf DEF WorkerReleased, NoWorker
  <2>3. InSlots' = InSlots BY <2>2 DEF InSlots
  <2>4. SameRoutes /\ WaitedBefore BY <2>1 DEF SameRoutes, WaitedBefore
  <2> QED BY <2>1, <2>3, <2>4, WorkKept
<1>15. ASSUME NEW m \in Models, ModelGoes(m) PROVE WorkInv'
  <2>1. UNCHANGED <<up, turn, row, slots, lane, engine, overflow, rstate, inFlight, held, fetching>>
    BY <1>15 DEF ModelGoes
  <2>2. InSlots' = InSlots /\ SameRoutes /\ WaitedBefore BY <2>1 DEF InSlots, SameRoutes, WaitedBefore
  <2>3. m \notin InUse /\ onDisk' = onDisk \ {m} BY <1>15 DEF ModelGoes
  <2>4. ASSUME NEW j \in ForLane \cup ForQueue
        PROVE  row[j].kind.model \in onDisk' <=> row[j].kind.model \in onDisk
    <3>1. row[j].route # "remote" BY LocalRoute
    <3>2. j \in In(row, Open) BY DEF ForLane, ForQueue, Queued, In, Open
    <3>3. row[j].kind.model \in InUse BY <3>1, <3>2 DEF InUse
    <3> QED BY <2>3, <3>3
  <2> QED BY <2>1, <2>2, <2>4, WorkKept
<1>16. ASSUME NEW m \in Models, NEW ok \in BOOLEAN, DownloadEnds(m, ok) PROVE WorkInv'
  <2>1. WaitedBefore BY <1>16, DownloadRow, WaitedWaiting
  <2>2. up /\ turn = "idle" /\ turn' = "pump" /\ SameRoutes /\ held' = held
    BY <1>16 DEF DownloadEnds, Idle, SameRoutes
  <2> QED BY <2>1, <2>2, WorkPumps
<1>17. ASSUME NEW j \in Jobs, UploadTaken(j) PROVE WorkInv'
  <2>1. /\ UNCHANGED <<up, turn, slots, lane, engine, overflow, rstate, inFlight, held, onDisk, fetching>>
        /\ row' = SetRemote(row, j, sent[j].to)
    BY <1>17 DEF UploadTaken
  <2>2. /\ Becomes({}, "queued") /\ row[j].status = "running"
    BY <1>17, UploadTakenRow, SentRuns
  <2>3. \A i \in Jobs \ {j} : row'[i] = row[i] BY <2>1 DEF SetRemote
  <2>4. InSlots' = InSlots /\ SameRoutes BY <2>1 DEF InSlots, SameRoutes
  <2>5. WaitedBefore BY <2>2, <2>3 DEF WaitedBefore, Becomes
  <2>6. \A i \in InSlots \cup lane : row'[i].kind.model = row[i].kind.model
    BY <2>2, HeldOf DEF Becomes
  <2> QED BY <2>1, <2>4, <2>5, <2>6, WorkKept
<1>18. ASSUME NEW j \in Jobs, RequestFails(j) PROVE WorkInv'
  BY <1>18, WorkLater DEF RequestFails, Unsent
<1>19. ASSUME NEW j \in Jobs, JobLost(j) PROVE WorkInv'
  BY <1>19, WorkLater DEF JobLost, Unsent
<1>20. ASSUME NEW j \in Jobs, TurnedAway(j) PROVE WorkInv'
  BY <1>20, WorkLater DEF TurnedAway, Unsent
<1>21. ASSUME NEW j \in Jobs, Rejected(j) PROVE WorkInv'
  BY <1>21, WorkLater DEF Rejected, Unsent
<1>22. ASSUME NEW j \in Jobs, Abandoned(j) PROVE WorkInv'
  BY <1>22, WorkLater DEF Abandoned, Unsent
<1>23. ASSUME NEW j \in Jobs, HoldLapses(j) PROVE WorkInv'
  <2>1. /\ UNCHANGED <<up, turn, row, slots, lane, engine, overflow, rstate, inFlight, onDisk, fetching>>
        /\ held' = [held EXCEPT ![j] = "lapsed"]
    BY <1>23 DEF HoldLapses
  <2>2. InSlots' = InSlots /\ SameRoutes /\ WaitedBefore BY <2>1 DEF InSlots, SameRoutes, WaitedBefore
  <2>3. \A i \in Jobs : held'[i] \in {held[i], "lapsed"}
    <3>1. held \in [Jobs -> {"no", "waiting", "lapsed"}] BY DEF JobInv, TypeOK
    <3> QED BY <2>1, <3>1
  <2> QED BY <2>1, <2>2, <2>3, WorkKept
<1>24. ASSUME NEW j \in Jobs, NEW status \in Over, RemoteEnds(j, status) PROVE WorkInv'
  BY <1>24, WorkLater DEF RemoteEnds, Unsent
<1>25. ASSUME NEW r \in RemoteSet, ProbeStarts(r) PROVE WorkInv'
  BY <1>25, WorkSame DEF ProbeStarts
<1>26. ASSUME NEW r \in RemoteSet, NEW found \in RemoteStates \ {"unknown"}, ProbeEnds(r, found)
      PROVE  WorkInv'
  <2>1. CASE Changed(r, found) BY <1>26, <2>1, WorkLater DEF ProbeEnds
  <2>2. CASE ~Changed(r, found)
    <3>1. rstate' = rstate
      <4>1. rstate \in [RemoteSet -> RemoteStates] BY DEF JobInv, TypeOK
      <4> QED BY <1>26, <2>2, <4>1 DEF ProbeEnds, Changed
    <3> QED BY <1>26, <2>2, <3>1, WorkSame DEF ProbeEnds
  <2> QED BY <2>1, <2>2
<1>27. CASE Delivering
  <2>1. up' = up BY <1>27 DEF Delivering, TimerFires, Due, Answer
  <2> QED BY <1>27, <2>1, WorkSame DEF Delivering
<1>28. CASE KeyRevoked
  BY <1>28, WorkSame DEF KeyRevoked, Revoke
<1>29. CASE UNCHANGED vars
  BY <1>29, WorkSame DEF vars
<1> QED BY <1>1, <1>2, <1>3, <1>4, <1>5, <1>6, <1>7, <1>8, <1>9, <1>10, <1>11, <1>12, <1>13,
           <1>14, <1>15, <1>16, <1>17, <1>18, <1>19, <1>20, <1>21, <1>22, <1>23, <1>24, <1>25,
           <1>26, <1>27, <1>28, <1>29
  DEF Next, StartSweep, Clients, Here, There, PumpStep

-----------------------------------------------------------------------------

(* RoutesInv and WorkInv are invariants beside JobInv: no path to idle       *)
(* forgets to dispatch and to pump.                                          *)
THEOREM WorkInvariance == Spec => [](RoutesInv /\ WorkInv)
<1>1. Init => RoutesInv /\ WorkInv
  BY DEF Init, StoreInit, RoutesInv, WorkInv, NoRow, Open
<1>2. JobInv /\ (RoutesInv /\ WorkInv) /\ [Next]_vars => (RoutesInv /\ WorkInv)'
  BY RoutesStep, WorkStep
<1> QED BY <1>1, <1>2, JobInvariance, PTL DEF Spec

(* Whenever the thread is idle, no job waits that a Worker here or a remote  *)
(* could take, whatever ended, was deleted, failed or was probed, and in     *)
(* whichever order.                                                          *)
THEOREM WorkIsDone == Spec => []WorkConserving
<1>1. WorkInv => WorkConserving
  BY DEF WorkInv, WorkConserving, NothingToSend, NothingToStart, Idle
<1> QED BY <1>1, WorkInvariance, PTL

(* A job that can run does, in one place.                                    *)
THEOREM JobsPlaced == Spec => []Placed
<1>1. HeldOnce /\ WorkConserving => Placed BY DEF Placed
<1> QED BY <1>1, JobsHeldOnce, WorkIsDone, PTL
=============================================================================
