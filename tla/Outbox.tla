------------------------------- MODULE Outbox -------------------------------
(***************************************************************************)
(* The webhook outbox of the job server: the outbox table                  *)
(* (src/main/server/store.ts) and the Deliverer that empties it            *)
(* (src/main/server/webhooks.ts).                                          *)
(*                                                                         *)
(* A job has at most one event that is delivered, its end, so a delivery   *)
(* goes by its job's number.  Time is abstract: a delivery's next_at       *)
(* passes at any moment (Due).  The table survives a crash; the tries that *)
(* are out and the timer do not.                                           *)
(*                                                                         *)
(* JobQueue, which owns the outbox, extends this module and says when.     *)
(*                                                                         *)
(* A definition introduced by "Mutant:" is no part of the specification.   *)
(***************************************************************************)
EXTENDS Naturals, FiniteSets

CONSTANTS
  MaxJobs,     \* bound: jobs in all, 1..MaxJobs in the order they are submitted
  MaxTries,    \* tries a delivery gets: RETRY_SCHEDULE_MS.length
  MaxCrashes,  \* bound: crashes of the server
  MayRevoke,   \* bound: whether a key may be revoked
  EndpointOf   \* the key and URL of each job's delivery

ASSUME TriesAssumption == MaxTries \in Nat \ {0}
ASSUME JobsAssumption == MaxJobs \in Nat \ {0} /\ MaxCrashes \in Nat /\ MayRevoke \in BOOLEAN
ASSUME EndpointAssumption == DOMAIN EndpointOf = 1..MaxJobs

Jobs == 1..MaxJobs

VARIABLES
  up,        \* whether the server process runs
  crashes,   \* how often it died so far
  outbox,    \* the outbox table
  trying,    \* per delivery, the number of each try whose answer is awaited
  timer,     \* whether the deliverer's timer is set
  owed,      \* an event was just written and kick() has not been called yet
  revoked    \* whether the key was revoked, so that it has no secret

outboxVars == <<outbox, trying, timer, owed>>
deliveryVars == <<up, crashes, outbox, trying, timer, owed, revoked>>

NoDelivery == [state |-> "none", tries |-> 0, due |-> FALSE, why |-> "none"]

(* last_error as far as a property tells it apart.                           *)
Whys == {"none", "deleted", "secret", "tries"}

Deliveries ==
  [state : {"none", "pending", "delivered", "failed", "disabled", "refused"},
   tries : 0..(MaxTries + MaxCrashes), due : BOOLEAN, why : Whys]

(* Only a pending delivery is due.                                           *)
OutboxTypeOK ==
  /\ outbox \in [Jobs -> Deliveries]
  /\ trying \in [Jobs -> SUBSET (1..(MaxTries + MaxCrashes))]
  /\ {up, timer, owed, revoked} \subseteq BOOLEAN
  /\ crashes \in 0..MaxCrashes
  /\ \A j \in Jobs : outbox[j].due => outbox[j].state = "pending"

OutboxInit ==
  /\ outbox = [j \in Jobs |-> NoDelivery]
  /\ trying = [j \in Jobs |-> {}]
  /\ timer = FALSE /\ owed = FALSE /\ revoked = FALSE

Pending(table) == {j \in Jobs : table[j].state = "pending"}

Closed(d) == d.state \notin {"none", "pending"}

-----------------------------------------------------------------------------
(* The table's statements.                                                   *)

(* append: the delivery of an event, written with it and due at once.        *)
Announced(table, S) ==
  [j \in Jobs |-> IF j \in S THEN [NoDelivery EXCEPT !.state = "pending", !.due = TRUE]
                             ELSE table[j]]

(* remove: what is still to be delivered of a deleted job is not.            *)
Withdrawn(table, S) ==
  [j \in Jobs |->
     IF j \in S \cap Pending(table)
     THEN [table[j] EXCEPT !.state = "failed", !.due = FALSE, !.why = "deleted"]
     ELSE table[j]]

(* Mutant: a try's outcome is written whatever became of the delivery.       *)
RecordedAlways(table, j, delivery) == [table EXCEPT ![j] = delivery]

(* recordAttempt writes a pending delivery only.                             *)
Recorded(table, j, delivery) ==
  IF table[j].state = "pending" THEN [table EXCEPT ![j] = delivery] ELSE table

(* disableEndpoint.                                                          *)
Disabled(table, endpoint) ==
  [j \in Jobs |->
     IF j \in Pending(table) /\ EndpointOf[j] = endpoint
     THEN [table[j] EXCEPT !.state = "disabled", !.due = FALSE]
     ELSE table[j]]

-----------------------------------------------------------------------------
(* The deliverer.                                                            *)

(* Mutant: kick does not look at inFlight.                                   *)
StartableAgain(table, out) == {j \in Pending(table) : table[j].due}

(* due(): with the tries that are out left aside (kick).                     *)
Startable(table, out) == {j \in Pending(table) : table[j].due /\ out[j] = {}}

(* Mutant: a try's end does not set the timer again.                         *)
ArmedByKick(table, out) == timer /\ \E j \in Pending(table) : out[j] = {}

(* arm: the timer is set when a delivery is pending and its try is not out.  *)
Armed(table, out) == \E j \in Pending(table) : out[j] = {}

(* attempt, up to the request: the try is on disk before it is made.  A key  *)
(* without a secret closes the delivery here.                                *)
BeforeTry(d) ==
  IF revoked
  THEN [d EXCEPT !.tries = @ + 1, !.due = FALSE, !.state = "failed", !.why = "secret"]
  ELSE [d EXCEPT !.tries = @ + 1, !.due = FALSE]

(* kick.                                                                     *)
Kick(table) ==
  LET S == Startable(table, trying)
      tried == [j \in Jobs |-> IF j \in S THEN BeforeTry(table[j]) ELSE table[j]]
      out == [j \in Jobs |-> IF j \in S /\ ~revoked THEN trying[j] \cup {tried[j].tries}
                                                   ELSE trying[j]]
  IN /\ outbox' = tried
     /\ trying' = out
     /\ timer' = Armed(tried, out)

(* What an answer makes of the delivery: the rest of attempt.                *)
AfterTry(d, n, answer) ==
  CASE answer = "taken"   -> [d EXCEPT !.tries = n, !.due = FALSE, !.state = "delivered"]
    [] answer = "gone"    -> [d EXCEPT !.tries = n, !.due = FALSE, !.state = "disabled"]
    [] answer = "refused" -> [d EXCEPT !.tries = n, !.due = FALSE, !.state = "refused"]
    [] answer = "failed"  -> IF n < MaxTries
                             THEN [d EXCEPT !.tries = n, !.due = FALSE]
                             ELSE [d EXCEPT !.tries = n, !.due = FALSE, !.state = "failed",
                                            !.why = "tries"]

Answers == {"taken", "gone", "refused", "failed"}

(* The receiver answers, or the request ends without an answer.              *)
Answer(j, n, answer) ==
  LET recorded == Recorded(outbox, j, AfterTry(outbox[j], n, answer))
      table == IF answer = "gone" THEN Disabled(recorded, EndpointOf[j]) ELSE recorded
      out == [trying EXCEPT ![j] = @ \ {n}]
  IN /\ up /\ n \in trying[j]
     /\ outbox' = table
     /\ trying' = out
     /\ timer' = Armed(table, out)
     /\ UNCHANGED <<up, crashes, owed, revoked>>

TimerFires ==
  /\ up /\ timer
  /\ Startable(outbox, trying) # {}
  /\ Kick(outbox)
  /\ UNCHANGED <<up, crashes, owed, revoked>>

(* next_at passes.                                                           *)
Due(j) ==
  /\ outbox[j].state = "pending" /\ ~outbox[j].due
  /\ outbox' = [outbox EXCEPT ![j].due = TRUE]
  /\ UNCHANGED <<up, crashes, trying, timer, owed, revoked>>

Revoke ==
  /\ up /\ ~revoked /\ MayRevoke
  /\ revoked' = TRUE
  /\ UNCHANGED <<up, crashes, outboxVars>>

(* What a crash, or the end of the process, leaves of the deliverer.         *)
DelivererDies ==
  /\ trying' = [j \in Jobs |-> {}]
  /\ timer' = FALSE
  /\ owed' = FALSE
  /\ UNCHANGED <<outbox, revoked>>

-----------------------------------------------------------------------------
(* A delivery has at most one request out - its due time passes while the    *)
(* receiver is slow, and kick must not start another - and is given up for   *)
(* its failed tries only after the whole schedule: no crash and no late      *)
(* answer makes the count of tries go back (webhooks.ts:303, 331-341).       *)
TriesCounted ==
  \A j \in Jobs :
    /\ Cardinality(trying[j]) <= 1
    /\ outbox[j].why = "tries" => outbox[j].tries >= MaxTries
    /\ \A n \in trying[j] : n <= outbox[j].tries
    /\ outbox[j].tries <= MaxTries + crashes

(* A delivery that is closed stays as it is: the answer of a try that was    *)
(* out when the job was deleted, or when another delivery to the receiver    *)
(* was answered 410, changes nothing (webhooks.ts:391, store.ts:955-976).    *)
ClosedStays ==
  [][\A j \in Jobs : Closed(outbox[j]) => outbox'[j] = outbox[j]]_deliveryVars

(* Every delivery is closed in the end: delivered, refused, withdrawn or     *)
(* given up.  No crash, slow answer or late event leaves one pending with    *)
(* nothing to wake the deliverer (webhooks.ts:300-324).                      *)
DeliveryEnds == \A j \in Jobs : outbox[j].state = "pending" ~> Closed(outbox[j])
=============================================================================
