---------------------------- MODULE CallManager ----------------------------
(***************************************************************************)
(* CallManager (src/main/call/manager.ts): one live call, one controller   *)
(* per call, and call folders that are made, moved, trashed and restored.  *)
(*                                                                         *)
(* Requests are the concurrent callers.  A controller is an object of its  *)
(* own, for a request can still hold one the manager has dropped; of what  *)
(* happens inside it only its phase is kept (CallPhases), which            *)
(* CallController is shown to respect (CallLife).                          *)
(*                                                                         *)
(* One action is what runs between two awaits.  A request that is due to   *)
(* continue without I/O ("go", "wait" when no folder stage is left,        *)
(* "loaded") continues before anything else happens (Quiet).               *)
(*                                                                         *)
(* A definition introduced by "Mutant:" is no part of the specification.   *)
(***************************************************************************)
EXTENDS CallPhases, Naturals, FiniteSets

CONSTANTS
  Requests,      \* callers, each of which asks once
  Nobody,        \* no request
  OldCalls,      \* calls on disk when the app starts: 1..OldCalls
  MaxCalls,      \* bound: calls in all
  Workspaces,
  MeetStarts     \* whether a restart and a start may be under way together

ASSUME NobodyAssumption == Nobody \notin Requests
ASSUME CallsAssumption == OldCalls \in Nat /\ MaxCalls \in Nat /\ OldCalls <= MaxCalls
ASSUME RequestsAssumption == IsFiniteSet(Requests)
ASSUME WorkspacesAssumption == "none" \notin Workspaces
ASSUME MeetAssumption == MeetStarts \in BOOLEAN

Calls == 1..MaxCalls

(* A request makes at most one controller.                                   *)
Ctls == 1..Cardinality(Requests)

NoCall == 0
NoCtl == 0

VARIABLES
  home,       \* the workspace a call is in, also while it is trashed
  trashed,    \* calls whose folder is in the trash
  index,      \* calls the index has; their entry is the folder where it is
  lock,       \* the controller whose writer made the lock in a call's folder
  known,      \* this.controllers
  ctl,        \* the controllers that were ever made
  loading,    \* this.loading: calls being read from disk
  stage,      \* this.folderStage: the start that is in it
  opening,    \* this.opening: the start or restart of a call that may be waited for
  pc, req     \* where each request is, and what it asks

vars == <<home, trashed, index, lock, known, ctl, loading, stage, opening, pc, req>>

Made == {c \in Calls : home[c] # "none"}

Dirs == Workspaces \X BOOLEAN

DirOf(c) == <<home[c], c \in trashed>>

Kinds == {"none", "start", "attach", "restart", "stop", "hold", "move", "trash", "restore"}

Controllers == [call : Calls, dir : Dirs, phase : Phases, holds : 0..Cardinality(Requests),
                writer : BOOLEAN]

Unused == [call |-> NoCall]

Steps == {"new", "wait", "go", "folder", "load", "loaded", "opening", "attaching", "ready",
          "holding", "reindex", "done", "attached"}

Blank == [kind |-> "none", call |-> NoCall, ctl |-> NoCtl, to |-> "none"]

TypeOK ==
  /\ home \in [Calls -> Workspaces \cup {"none"}]
  /\ trashed \subseteq Made /\ index \subseteq Made \ trashed /\ loading \subseteq index
  /\ lock \in [Calls -> Ctls \cup {NoCtl}]
  /\ known \in [Calls -> Ctls \cup {NoCtl}]
  /\ ctl \in [Ctls -> Controllers \cup {Unused}]
  /\ stage \in Requests \cup {Nobody}
  /\ opening \in [Calls -> Requests \cup {Nobody}]
  /\ pc \in [Requests -> Steps]
  /\ req \in [Requests -> [kind : Kinds, call : Calls \cup {NoCall}, ctl : Ctls \cup {NoCtl},
                           to : Workspaces \cup {"none"}]]
  /\ \A c \in Calls : known[c] # NoCtl => ctl[known[c]].call = c

Init ==
  /\ home \in [Calls -> Workspaces \cup {"none"}]
  /\ Made = 1..OldCalls
  /\ trashed = {} /\ index = Made /\ loading = {}
  /\ lock = [c \in Calls |-> NoCtl]
  /\ known = [c \in Calls |-> NoCtl]
  /\ ctl = [k \in Ctls |-> Unused]
  /\ stage = Nobody
  /\ opening = [c \in Calls |-> Nobody]
  /\ pc = [r \in Requests |-> "new"]
  /\ req = [r \in Requests |-> Blank]

folderVars == <<home, trashed, index>>
ctlVars == <<lock, ctl>>

-----------------------------------------------------------------------------
Used == {k \in Ctls : ctl[k] # Unused}

NextCtl == Cardinality(Used) + 1

Known(c) == known[c] # NoCtl

Live(k) == ctl[k].phase \in LivePhases

LiveCall(c) == Known(c) /\ Live(known[c])

(* live(): the call that starts or captures, among the known ones.           *)
LiveCtls == {known[c] : c \in {d \in Calls : LiveCall(d)}}

Asks(r, kinds) == req[r].kind \in kinds

Waiting(r) == pc[r] = "wait" /\ stage = Nobody

(* No request has a step to take before the next I/O event.                  *)
Quiet == \A r \in Requests : pc[r] \notin {"go", "loaded"} /\ ~Waiting(r)

Goto(r, step) == pc' = [pc EXCEPT ![r] = step]

(* A request is answered: "attached", or "done" whatever else it is told.    *)
Answer(r, what) ==
  /\ Goto(r, what)
  /\ req' = [req EXCEPT ![r] = Blank]

Refused(r) ==
  /\ Answer(r, "done")
  /\ UNCHANGED <<folderVars, ctlVars, known, loading, stage, opening>>

-----------------------------------------------------------------------------
(* Controllers.                                                              *)

(* The lock is released only where the writer was opened.                    *)
Unlocked(c, dir) == IF dir = DirOf(c) THEN [lock EXCEPT ![c] = NoCtl] ELSE lock

(* A controller's phase becomes q; it closes its writer when nothing needs   *)
(* it any more.                                                              *)
Becomes(k, q) ==
  LET me == ctl[k]
      closes == q = "over" /\ me.holds = 0
  IN
  /\ ctl' = [ctl EXCEPT ![k].phase = q, ![k].writer = me.writer /\ ~closes]
  /\ lock' = IF closes /\ me.writer THEN Unlocked(me.call, me.dir) ELSE lock

(* Mutant: the lock is not looked at.                                        *)
CanWriteAnyway(k) == ctl[k].writer \/ ctl[k].dir = DirOf(ctl[k].call)

(* The open of a writer succeeds where the folder is and no lock is.         *)
CanWrite(k) == ctl[k].writer \/ (ctl[k].dir = DirOf(ctl[k].call) /\ lock[ctl[k].call] = NoCtl)

Locked(k) == [lock EXCEPT ![ctl[k].call] = IF ctl[k].writer THEN @ ELSE k]

-----------------------------------------------------------------------------
(* A request arrives.  Those that look at the live call wait for a start's   *)
(* folder stage first.                                                       *)

StageAware == {"start", "attach", "restart", "stop", "move", "trash"}

Restarting == \E r \in Requests : Asks(r, {"restart"}) /\ pc[r] \in {"wait", "load"}

StartsWait == \E r \in Requests : Asks(r, {"start", "attach"}) /\ pc[r] = "wait"

Interrupting(c) == Known(c) /\ ctl[known[c]].phase = "interrupting"

Arrive(r, kind, c, ws) ==
  /\ Quiet
  /\ pc[r] = "new"
  /\ kind \in Kinds \ {"none"}
  /\ IF kind \in {"start", "attach"} THEN c = NoCall ELSE c \in Made
  /\ IF kind \in {"start", "attach", "move"} THEN ws \in Workspaces ELSE ws = "none"
  /\ ~MeetStarts /\ kind \in {"start", "attach"} => ~Restarting
  /\ kind = "restart" => ~Interrupting(c) /\ (MeetStarts \/ ~StartsWait)
  /\ Goto(r, IF kind \in StageAware /\ stage # Nobody THEN "wait" ELSE "go")
  /\ req' = [req EXCEPT ![r].kind = kind, ![r].call = c, ![r].to = ws]
  /\ UNCHANGED <<folderVars, ctlVars, known, loading, stage, opening>>

(* folderSettled: the caller goes on one promise later than it looked, after *)
(* every other one that waited has looked too.                               *)
Settled(r) ==
  /\ Waiting(r) /\ ~Asks(r, {"start", "attach"})
  /\ Goto(r, "go")
  /\ UNCHANGED <<folderVars, ctlVars, known, loading, stage, opening, req>>

(* It is r's turn.                                                           *)
Goes(r, kinds) ==
  /\ Asks(r, kinds)
  /\ pc[r] = "go"
  /\ \A s \in Requests : ~Waiting(s)

-----------------------------------------------------------------------------
(* start.                                                                    *)

(* Mutant: another start's folder stage does not count.                      *)
MayLookAnyway(r) == pc[r] \in {"wait", "go"}

(* From the last look at the stage to its reservation nothing awaits.        *)
MayLook(r) == pc[r] \in {"wait", "go"} /\ stage = Nobody

StartRefused(r) ==
  /\ Asks(r, {"start"}) /\ MayLook(r)
  /\ LiveCtls # {}
  /\ Refused(r)

(* With attach the live call is handed back, once it opened.                 *)
Attach(r) ==
  /\ Asks(r, {"attach"}) /\ MayLook(r)
  /\ \E k \in LiveCtls :
       LET c == ctl[k].call IN
       IF ctl[k].phase = "starting" /\ opening[c] # Nobody
       THEN /\ Goto(r, "attaching")
            /\ req' = [req EXCEPT ![r].call = c]
       ELSE Answer(r, "attached")
  /\ UNCHANGED <<folderVars, ctlVars, known, loading, stage, opening>>

Reserve(r) ==
  /\ Asks(r, {"start", "attach"}) /\ MayLook(r)
  /\ LiveCtls = {}
  /\ stage' = r
  /\ Goto(r, "folder")
  /\ UNCHANGED <<folderVars, ctlVars, known, loading, opening, req>>

(* The folder, the lock and call.created are on disk: the call is known and  *)
(* begins in one run.                                                        *)
FolderMade(r) ==
  /\ Quiet
  /\ pc[r] = "folder"
  /\ \E c \in Calls \ Made :
       /\ \A d \in Calls \ Made : c <= d
       /\ home' = [home EXCEPT ![c] = req[r].to]
       /\ index' = index \cup {c}
       /\ lock' = [lock EXCEPT ![c] = NextCtl]
       /\ known' = [known EXCEPT ![c] = NextCtl]
       /\ ctl' = [ctl EXCEPT ![NextCtl] =
            [call |-> c, dir |-> <<req[r].to, FALSE>>, phase |-> "starting", holds |-> 0,
             writer |-> TRUE]]
       /\ opening' = [opening EXCEPT ![c] = r]
       /\ req' = [req EXCEPT ![r].call = c]
  /\ stage' = Nobody
  /\ Goto(r, "opening")
  /\ UNCHANGED <<trashed, loading>>

FolderFails(r) ==
  /\ Quiet
  /\ pc[r] = "folder"
  /\ stage' = Nobody
  /\ Answer(r, "done")
  /\ UNCHANGED <<folderVars, ctlVars, known, loading, opening>>

-----------------------------------------------------------------------------
(* A call's own steps.                                                       *)

(* Its start or reopen resolves: who asked for it is answered, and so is     *)
(* every attach that waits for it.                                           *)
Resolve(c, ok) ==
  LET asked == {r \in Requests : req[r].call = c /\ pc[r] \in {"opening", "attaching"}} IN
  /\ pc' = [r \in Requests |-> IF r \notin asked THEN pc[r]
                               ELSE IF ok /\ pc[r] = "attaching" THEN "attached" ELSE "done"]
  /\ req' = [r \in Requests |-> IF r \in asked THEN Blank ELSE req[r]]
  /\ opening' = [opening EXCEPT ![c] = Nobody]

CallSteps(k) ==
  /\ Quiet
  /\ k \in Used
  /\ \E s \in OwnSteps :
       /\ ctl[k].phase = s[1]
       /\ Becomes(k, s[2])
       /\ IF s[1] = "starting" THEN Resolve(ctl[k].call, s[2] = "taking")
          ELSE UNCHANGED <<pc, req, opening>>
  /\ UNCHANGED <<folderVars, known, loading, stage>>

-----------------------------------------------------------------------------
(* open and restart.                                                         *)

(* restart() of the controller k: one that captures gets a new part, one     *)
(* that is over is reopened, any other refuses.                              *)
RestartCall(r, k) ==
  LET c == ctl[k].call IN
  IF ctl[k].phase = "over" /\ CanWrite(k)
  THEN /\ ctl' = [ctl EXCEPT ![k].phase = "starting", ![k].writer = TRUE]
       /\ lock' = Locked(k)
       /\ opening' = [opening EXCEPT ![c] = r]
       /\ Goto(r, "opening")
       /\ UNCHANGED req
  ELSE (* track() forgets the opening it finds, whatever restart() answers.  *)
       /\ Answer(r, "done")
       /\ opening' = [opening EXCEPT ![c] = Nobody]
       /\ UNCHANGED ctlVars

OtherLive(c) == \E k \in LiveCtls : ctl[k].call # c

RestartRefused(r) ==
  LET c == req[r].call IN
  /\ Goes(r, {"restart"})
  /\ \/ ~Known(c) /\ c \notin index
     \/ ~LiveCall(c) /\ OtherLive(c)
  /\ Refused(r)

RestartKnown(r) ==
  LET c == req[r].call IN
  /\ Goes(r, {"restart"})
  /\ Known(c)
  /\ LiveCall(c) \/ ~OtherLive(c)
  /\ RestartCall(r, known[c])
  /\ UNCHANGED <<folderVars, known, loading, stage>>

(* Concurrent opens of one call share one load.                              *)
Open(r) ==
  LET c == req[r].call IN
  /\ ~Known(c) /\ c \in index
  /\ loading' = loading \cup {c}
  /\ Goto(r, "load")
  /\ UNCHANGED <<folderVars, ctlVars, known, stage, opening, req>>

RestartOpens(r) ==
  /\ Goes(r, {"restart"})
  /\ ~OtherLive(req[r].call)
  /\ Open(r)

Sharers(c) == {r \in Requests : pc[r] = "load" /\ req[r].call = c}

LoadDone(c) ==
  /\ Quiet
  /\ c \in loading
  /\ known' = [known EXCEPT ![c] = NextCtl]
  /\ ctl' = [ctl EXCEPT ![NextCtl] =
       [call |-> c, dir |-> DirOf(c), phase |-> "over", holds |-> 0, writer |-> FALSE]]
  /\ pc' = [r \in Requests |-> IF r \in Sharers(c) THEN "loaded" ELSE pc[r]]
  /\ loading' = loading \ {c}
  /\ UNCHANGED <<folderVars, lock, stage, opening, req>>

(* The next open reads the call again.                                       *)
LoadFails(c) ==
  /\ Quiet
  /\ c \in loading
  /\ pc' = [r \in Requests |-> IF r \in Sharers(c) THEN "done" ELSE pc[r]]
  /\ req' = [r \in Requests |-> IF r \in Sharers(c) THEN Blank ELSE req[r]]
  /\ loading' = loading \ {c}
  /\ UNCHANGED <<folderVars, ctlVars, known, stage, opening>>

(* The live call is looked for again after the load.                         *)
RestartLoaded(r) ==
  LET c == req[r].call IN
  /\ Asks(r, {"restart"}) /\ pc[r] = "loaded"
  /\ IF OtherLive(c) THEN Answer(r, "done") /\ UNCHANGED <<ctlVars, opening>>
     ELSE RestartCall(r, known[c])
  /\ UNCHANGED <<folderVars, known, loading, stage>>

-----------------------------------------------------------------------------
(* What writes to a call that may be over: a note, a name, a final pass.     *)

HoldRefused(r) ==
  /\ Goes(r, {"hold"})
  /\ ~Known(req[r].call) /\ req[r].call \notin index
  /\ Refused(r)

HoldOpens(r) == Goes(r, {"hold"}) /\ Open(r)

(* It has the controller, and waits for the vocabulary before it uses it.    *)
HoldKnows(r) ==
  /\ Asks(r, {"hold"})
  /\ pc[r] = "loaded" \/ (Goes(r, {"hold"}) /\ Known(req[r].call))
  /\ req' = [req EXCEPT ![r].ctl = known[req[r].call]]
  /\ Goto(r, "ready")
  /\ UNCHANGED <<folderVars, ctlVars, known, loading, stage, opening>>

Hold(r) ==
  LET k == req[r].ctl IN
  /\ Quiet
  /\ pc[r] = "ready"
  /\ IF CanWrite(k)
     THEN /\ ctl' = [ctl EXCEPT ![k].holds = @ + 1, ![k].writer = TRUE]
          /\ lock' = Locked(k)
          /\ Goto(r, "holding")
          /\ UNCHANGED req
     ELSE Answer(r, "done") /\ UNCHANGED ctlVars
  /\ UNCHANGED <<folderVars, known, loading, stage, opening>>

(* Not in the wait of an interruption.                                       *)
Release(r) ==
  LET k == req[r].ctl
      closes == ctl[k].holds = 1 /\ ctl[k].phase = "over"
  IN
  /\ Quiet
  /\ pc[r] = "holding" /\ ctl[k].phase # "interrupting"
  /\ ctl' = [ctl EXCEPT ![k].holds = @ - 1, ![k].writer = ~closes]
  /\ lock' = IF closes THEN Unlocked(ctl[k].call, ctl[k].dir) ELSE lock
  /\ Answer(r, "done")
  /\ UNCHANGED <<folderVars, known, loading, stage, opening>>

-----------------------------------------------------------------------------
(* Controls.                                                                 *)

ControlRefused(r) ==
  /\ Goes(r, {"stop"})
  /\ ~LiveCall(req[r].call)
  /\ Refused(r)

(* A start that is stopped is answered as cancelled.                         *)
Stop(r) ==
  LET c == req[r].call
      told == {s \in Requests : s = r \/ (req[s].call = c /\ pc[s] \in {"opening", "attaching"})}
  IN
  /\ Goes(r, {"stop"})
  /\ LiveCall(c)
  /\ Becomes(known[c], "draining")
  /\ opening' = [opening EXCEPT ![c] = Nobody]
  /\ pc' = [s \in Requests |-> IF s \in told THEN "done" ELSE pc[s]]
  /\ req' = [s \in Requests |-> IF s \in told THEN Blank ELSE req[s]]
  /\ UNCHANGED <<folderVars, known, loading, stage>>

-----------------------------------------------------------------------------
(* Moves, the trash and its way back.                                        *)

(* busy(): a stop that waits for nothing but the recognizer is not seen.     *)
Busy(k) == ctl[k].phase \in LivePhases \cup {"draining", "interrupting"} \/ ctl[k].holds > 0

(* Mutant: the folder of a call that works is moved too.                     *)
RelocatableAnyway(c) == c \in index

Relocatable(c) == c \in index /\ (Known(c) => ~Busy(known[c])) /\ c \notin loading

(* The disk may refuse too: nothing has changed then.                        *)
RelocateRefused(r) == Goes(r, {"move", "trash"}) /\ Refused(r)

(* Mutant: the controller in memory is kept.                                 *)
KeepController(c) == known

Forget(c) == [known EXCEPT ![c] = NoCtl]

Relocate(r) ==
  LET c == req[r].call
      stays == Asks(r, {"move"}) /\ home[c] = req[r].to
  IN
  /\ Goes(r, {"move", "trash"})
  /\ Relocatable(c)
  /\ IF Asks(r, {"move"})
     THEN home' = [home EXCEPT ![c] = req[r].to] /\ UNCHANGED <<trashed, index>>
     ELSE trashed' = trashed \cup {c} /\ index' = index \ {c} /\ UNCHANGED home
  /\ known' = IF stays THEN known ELSE Forget(c)      \* dropped: the next open reads it
  /\ Answer(r, "done")
  /\ UNCHANGED <<ctlVars, loading, stage, opening>>

RestoreRefused(r) == Goes(r, {"restore"}) /\ Refused(r)

(* The folder is back; the index has it once its log was read.               *)
Restore(r) ==
  /\ Goes(r, {"restore"})
  /\ req[r].call \in trashed \ index
  /\ trashed' = trashed \ {req[r].call}
  /\ Goto(r, "reindex")
  /\ UNCHANGED <<home, index, ctlVars, known, loading, stage, opening, req>>

Reindexed(r) ==
  /\ Quiet
  /\ pc[r] = "reindex"
  /\ index' = index \cup {req[r].call}
  /\ Answer(r, "done")
  /\ UNCHANGED <<home, trashed, ctlVars, known, loading, stage, opening>>

-----------------------------------------------------------------------------
Arrivals ==
  \E r \in Requests, kind \in Kinds, c \in Calls \cup {NoCall}, ws \in Workspaces \cup {"none"} :
    Arrive(r, kind, c, ws)

(* What a request does without I/O.                                          *)
Continues(r) ==
  \/ Settled(r)
  \/ StartRefused(r) \/ Attach(r) \/ Reserve(r)
  \/ RestartRefused(r) \/ RestartKnown(r) \/ RestartOpens(r) \/ RestartLoaded(r)
  \/ HoldRefused(r) \/ HoldOpens(r) \/ HoldKnows(r)
  \/ ControlRefused(r) \/ Stop(r)
  \/ RelocateRefused(r) \/ Relocate(r) \/ RestoreRefused(r) \/ Restore(r)

(* What the disk answers.                                                    *)
DiskAnswers(r) == FolderMade(r) \/ FolderFails(r) \/ Hold(r) \/ Reindexed(r)

(* Every request was answered: nothing has to happen any more.               *)
Answered == (\A r \in Requests : pc[r] \in {"done", "attached"}) /\ UNCHANGED vars

Next ==
  \/ Arrivals
  \/ \E r \in Requests : Continues(r) \/ DiskAnswers(r) \/ Release(r)
  \/ \E c \in Calls : LoadDone(c) \/ LoadFails(c)
  \/ \E k \in Ctls : CallSteps(k)
  \/ Answered

Spec == Init /\ [][Next]_vars

-----------------------------------------------------------------------------
(* One call at a time (calls.ts:169): whatever starts and restarts meet, at  *)
(* most one call starts or captures.                                         *)
OneLive == Cardinality({k \in Used : Live(k)}) <= 1

(* A call's log has one writer, also when a request still holds a controller *)
(* the manager dropped.                                                      *)
OneWriter == \A c \in Calls : Cardinality({k \in Used : ctl[k].call = c /\ ctl[k].writer}) <= 1

(* What the manager knows is what there is, through loads, failed starts and  *)
(* restarts, moves, the trash and its way back: a live call is the one the   *)
(* controls reach and the list has, and a controller that is handed out      *)
(* points at the call's folder as it is (manager.ts:522, 612, 673).          *)
KnownIsReal ==
  /\ \A k \in Used : Live(k) => known[ctl[k].call] = k /\ ctl[k].call \in index
  /\ \A c \in Calls : Known(c) => ctl[known[c]].dir = DirOf(c)
=============================================================================
