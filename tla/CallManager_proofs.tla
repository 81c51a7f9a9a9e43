------------------------- MODULE CallManager_proofs -------------------------
(***************************************************************************)
(* Proofs about CallManager, for any number of requests, calls and         *)
(* workspaces: ManagerInv (ManagerInvariant) is inductive, and OneLiveInv  *)
(* where restarts and starts do not meet.                                  *)
(***************************************************************************)
EXTENDS ManagerInvariant, FiniteSetTheorems, TLAPS

-----------------------------------------------------------------------------
(* Types and counting.                                                       *)

RequestTypes == [kind : Kinds, call : Calls \cup {NoCall}, ctl : Ctls \cup {NoCtl},
                 to : Workspaces \cup {"none"}]

(* What the assumptions on the constants give.                               *)
LEMMA ConstantTypes ==
  /\ Cardinality(Requests) \in Nat /\ IsFiniteSet(Requests)
  /\ Calls \subseteq Nat \ {0} /\ Ctls \subseteq Nat \ {0}
  /\ NoCall \notin Calls /\ NoCtl \notin Ctls
<1>1. Cardinality(Requests) \in Nat BY RequestsAssumption, FS_CardinalityType
<1> QED BY <1>1, RequestsAssumption, CallsAssumption DEF Calls, Ctls, NoCall, NoCtl

(* A controller that was made has all its fields, and the others have none.  *)
LEMMA UsedAre ==
  ASSUME ctl \in [Ctls -> Controllers \cup {Unused}]
  PROVE  /\ Used \subseteq Ctls
         /\ \A k \in Ctls : k \in Used <=> ctl[k] \in Controllers
         /\ \A k \in Used : /\ ctl[k].call \in Calls /\ ctl[k].dir \in Dirs
                            /\ ctl[k].phase \in Phases /\ ctl[k].writer \in BOOLEAN
                            /\ ctl[k].holds \in 0..Cardinality(Requests)
<1>1. Unused \notin Controllers
  <2> SUFFICES ASSUME Unused \in Controllers PROVE FALSE OBVIOUS
  <2>1. Unused.call \in Calls BY DEF Controllers
  <2> QED BY <2>1, ConstantTypes DEF Unused
<1> QED BY <1>1 DEF Used, Controllers

(* A step changes one controller: its phase, its holds and its writer.       *)
CtlNow(k, q, h, w) ==
  /\ ctl' \in [Ctls -> Controllers \cup {Unused}]
  /\ Used' = Used /\ k \in Used
  /\ \A j \in Used : j # k => ctl'[j] = ctl[j]
  /\ ctl'[k].call = ctl[k].call /\ ctl'[k].dir = ctl[k].dir
  /\ ctl'[k].phase = q /\ ctl'[k].holds = h /\ ctl'[k].writer = w

(* A step makes one, the next.                                               *)
CtlMade(k, c, d, q, w) ==
  /\ ctl' \in [Ctls -> Controllers \cup {Unused}]
  /\ Used' = Used \cup {k} /\ k \in Ctls \ Used /\ k = Cardinality(Used) + 1
  /\ \A j \in Used : ctl'[j] = ctl[j]
  /\ ctl'[k].call = c /\ ctl'[k].dir = d
  /\ ctl'[k].phase = q /\ ctl'[k].holds = 0 /\ ctl'[k].writer = w

(* A controller that is replaced by another record of the same call.         *)
LEMMA CtlSet ==
  ASSUME ctl \in [Ctls -> Controllers \cup {Unused}], NEW k \in Used,
         NEW x, x \in Controllers, x.call = ctl[k].call, x.dir = ctl[k].dir,
         ctl' = [ctl EXCEPT ![k] = x]
  PROVE  CtlNow(k, x.phase, x.holds, x.writer)
<1>0. /\ Used \subseteq Ctls /\ \A j \in Ctls : j \in Used <=> ctl[j] \in Controllers
  BY UsedAre
<1>1. ctl' \in [Ctls -> Controllers \cup {Unused}] BY <1>0
<1>2. \A j \in Ctls : j \in Used' <=> ctl'[j] \in Controllers
  <2> DEFINE f == ctl'
  <2>1. f \in [Ctls -> Controllers \cup {Unused}] BY <1>1
  <2>2. Unused \notin Controllers
    <3> SUFFICES ASSUME Unused \in Controllers PROVE FALSE OBVIOUS
    <3>1. Unused.call \in Calls BY DEF Controllers
    <3> QED BY <3>1, ConstantTypes DEF Unused
  <2> QED BY <2>1, <2>2 DEF Used
<1>3. ctl'[k] = x /\ \A j \in Ctls : j # k => ctl'[j] = ctl[j] BY <1>0
<1>4. Used' \subseteq Ctls BY DEF Used
<1>5. Used' = Used BY <1>0, <1>2, <1>3, <1>4
<1> QED BY <1>0, <1>1, <1>3, <1>5 DEF CtlNow

(* The next controller, put at its number.                                   *)
LEMMA CtlAdd ==
  ASSUME ctl \in [Ctls -> Controllers \cup {Unused}], Cardinality(Used) + 1 \in Ctls \ Used,
         NEW x, x \in Controllers, x.holds = 0,
         ctl' = [ctl EXCEPT ![NextCtl] = x]
  PROVE  CtlMade(NextCtl, x.call, x.dir, x.phase, x.writer)
<1> DEFINE k == Cardinality(Used) + 1
<1>0. /\ Used \subseteq Ctls /\ \A j \in Ctls : j \in Used <=> ctl[j] \in Controllers
  BY UsedAre
<1>c. ctl' = [ctl EXCEPT ![k] = x] /\ k \in Ctls \ Used /\ NextCtl = k BY DEF NextCtl
<1>d. k = Cardinality(Used) + 1 OBVIOUS
<1> HIDE DEF k
<1>1. ctl' \in [Ctls -> Controllers \cup {Unused}] BY <1>c
<1>2. \A j \in Ctls : j \in Used' <=> ctl'[j] \in Controllers
  <2> DEFINE f == ctl'
  <2>1. f \in [Ctls -> Controllers \cup {Unused}] BY <1>1
  <2>2. Unused \notin Controllers
    <3> SUFFICES ASSUME Unused \in Controllers PROVE FALSE OBVIOUS
    <3>1. Unused.call \in Calls BY DEF Controllers
    <3> QED BY <3>1, ConstantTypes DEF Unused
  <2> QED BY <2>1, <2>2 DEF Used
<1>3. ctl'[k] = x /\ \A j \in Ctls : j # k => ctl'[j] = ctl[j] BY <1>c
<1>4. Used' \subseteq Ctls BY DEF Used
<1>5. Used' = Used \cup {k} BY <1>0, <1>2, <1>3, <1>4, <1>c
<1>6. \A j \in Used : ctl'[j] = ctl[j] BY <1>0, <1>3, <1>c
<1> QED BY <1>1, <1>3, <1>5, <1>6, <1>c, <1>d DEF CtlMade

(* A request that has made no controller yet leaves room for one.            *)
LEMMA RoomForOne ==
  ASSUME OneEach, ctl \in [Ctls -> Controllers \cup {Unused}], NEW r \in Requests, r \notin Past
  PROVE  Cardinality(Used) + 1 \in Ctls \ Used /\ Cardinality(Used) \in Nat
<1>1. Past \in SUBSET Requests /\ Past \cup {r} \in SUBSET Requests BY DEF Past
<1>2. IsFiniteSet(Past) /\ Cardinality(Past) \in Nat
  BY <1>1, RequestsAssumption, FS_Subset, FS_CardinalityType
<1>3. Cardinality(Past \cup {r}) = Cardinality(Past) + 1 BY <1>2, FS_AddElement
<1>4. Cardinality(Past) + 1 <= Cardinality(Requests)
  BY <1>1, <1>3, RequestsAssumption, FS_Subset
<1>5. Cardinality(Used) \in Nat
  <2>1. Cardinality(Requests) \in Nat BY ConstantTypes
  <2>2. IsFiniteSet(1..Cardinality(Requests)) BY <2>1, FS_Interval
  <2>3. Used \in SUBSET (1..Cardinality(Requests)) BY DEF Used, Ctls
  <2> QED BY <2>2, <2>3, FS_Subset, FS_CardinalityType
<1>6. Used = 1..Cardinality(Used) /\ Cardinality(Used) <= Cardinality(Past) BY DEF OneEach
<1>7. Cardinality(Used) + 1 \notin Used BY <1>5, <1>6
<1>8. Cardinality(Used) + 1 \in Ctls BY <1>2, <1>4, <1>5, <1>6, ConstantTypes DEF Ctls
<1> QED BY <1>5, <1>7, <1>8

-----------------------------------------------------------------------------
(* What each action does, request by request and controller by controller.   *)

Stay(S) ==
  /\ pc' \in [Requests -> Steps] /\ req' \in [Requests -> RequestTypes]
  /\ \A s \in Requests : s \notin S => pc'[s] = pc[s] /\ req'[s] = req[s]

(* The requests of S are answered.                                           *)
Ends(S) ==
  /\ Stay(S)
  /\ \A s \in S : pc'[s] \in {"done", "attached"} /\ req'[s] = Blank

(* A request goes on to a step; it still asks the same, of a call, with a    *)
(* controller.                                                               *)
Moves(r, step, c, k) ==
  /\ Stay({r}) /\ pc'[r] = step
  /\ req'[r].kind = req[r].kind /\ req'[r].to = req[r].to
  /\ req'[r].call = c /\ req'[r].ctl = k

MovesOn(r, step) == Stay({r}) /\ pc'[r] = step /\ req'[r] = req[r]

(* A request that goes on without I/O.                                       *)
Free(r) == pc[r] = "go" \/ Waiting(r)

othersAsIs == UNCHANGED <<home, trashed, index, lock, ctl, known, loading, stage>>

RefuseStep(r) ==
  /\ Free(r) \/ pc[r] = "loaded" \/ (pc[r] = "ready" /\ Quiet)
  /\ Ends({r}) /\ othersAsIs

ArriveStep(r) ==
  /\ Quiet /\ pc[r] = "new"
  /\ Stay({r}) /\ pc'[r] \in {"wait", "go"}
  /\ req'[r].kind \in {"start", "attach", "move"} => req'[r].to \in Workspaces
  /\ req'[r].kind \notin {"start", "attach"} => req'[r].call \in Made
  /\ pc'[r] = "wait" => stage # Nobody
  /\ pc'[r] = "go" /\ req'[r].kind \in {"start", "attach", "restart"} => stage = Nobody
  /\ ~MeetStarts /\ req'[r].kind \in {"start", "attach"} => ~Restarting
  /\ ~MeetStarts /\ req'[r].kind = "restart" => ~StartsWait
  /\ othersAsIs

SettleStep(r) ==
  /\ Waiting(r) /\ req[r].kind \notin {"start", "attach"}
  /\ MovesOn(r, "go") /\ othersAsIs

AttachStep(r) ==
  /\ Free(r) /\ req[r].kind = "attach"
  /\ \E c \in Calls : Moves(r, "attaching", c, req[r].ctl)
  /\ othersAsIs

ReserveStep(r) ==
  /\ Free(r) /\ stage = Nobody /\ req[r].kind \in {"start", "attach"} /\ LiveCtls = {}
  /\ MovesOn(r, "folder") /\ stage' = r
  /\ UNCHANGED <<home, trashed, index, lock, ctl, known, loading>>

FolderStep(r, c) ==
  /\ Quiet /\ pc[r] = "folder" /\ c \in Calls \ Made
  /\ Moves(r, "opening", c, req[r].ctl)
  /\ home' = [home EXCEPT ![c] = req[r].to] /\ index' = index \cup {c} /\ UNCHANGED trashed
  /\ CtlMade(NextCtl, c, <<req[r].to, FALSE>>, "starting", TRUE)
  /\ lock' = [lock EXCEPT ![c] = NextCtl] /\ known' = [known EXCEPT ![c] = NextCtl]
  /\ stage' = Nobody /\ UNCHANGED loading

FolderFailStep(r) ==
  /\ Quiet /\ pc[r] = "folder" /\ Ends({r}) /\ stage' = Nobody
  /\ UNCHANGED <<home, trashed, index, lock, ctl, known, loading>>

(* Whether a controller whose phase becomes q closes its writer.             *)
Closing(k, q) == q = "over" /\ ctl[k].holds = 0

TurnStep(k, q, S) ==
  /\ k \in Used /\ <<ctl[k].phase, q>> \in OwnSteps \cup Stops
  /\ Quiet \/ \E r \in Requests : pc[r] = "go"
  /\ S \in SUBSET Requests /\ \A s \in S : pc[s] \in {"opening", "attaching", "go"}
  /\ Ends(S)
  /\ CtlNow(k, q, ctl[k].holds, ctl[k].writer /\ ~Closing(k, q))
  /\ lock' = IF Closing(k, q) /\ ctl[k].writer THEN Unlocked(ctl[k].call, ctl[k].dir) ELSE lock
  /\ UNCHANGED <<home, trashed, index, known, loading, stage>>

RestartStep(r, k) ==
  /\ pc[r] \in {"go", "loaded"} /\ req[r].kind = "restart" /\ k \in Used
  /\ k = known[req[r].call] /\ ctl[k].phase = "over" /\ CanWrite(k) /\ ~OtherLive(req[r].call)
  /\ MovesOn(r, "opening")
  /\ CtlNow(k, "starting", ctl[k].holds, TRUE) /\ lock' = Locked(k)
  /\ UNCHANGED <<home, trashed, index, known, loading, stage>>

OpenStep(r) ==
  /\ pc[r] = "go" /\ req[r].kind \in {"restart", "hold"}
  /\ ~Known(req[r].call) /\ req[r].call \in index
  /\ MovesOn(r, "load") /\ loading' = loading \cup {req[r].call}
  /\ UNCHANGED <<home, trashed, index, lock, ctl, known, stage>>

LoadStep(c) ==
  /\ Quiet /\ c \in loading
  /\ Stay(Sharers(c)) /\ \A s \in Sharers(c) : pc'[s] = "loaded" /\ req'[s] = req[s]
  /\ CtlMade(NextCtl, c, DirOf(c), "over", FALSE)
  /\ known' = [known EXCEPT ![c] = NextCtl] /\ loading' = loading \ {c}
  /\ UNCHANGED <<home, trashed, index, lock, stage>>

LoadFailStep(c) ==
  /\ Quiet /\ c \in loading /\ Ends(Sharers(c)) /\ loading' = loading \ {c}
  /\ UNCHANGED <<home, trashed, index, lock, ctl, known, stage>>

KnowStep(r) ==
  /\ pc[r] \in {"go", "loaded"} /\ req[r].kind = "hold" /\ Known(req[r].call)
  /\ Moves(r, "ready", req[r].call, known[req[r].call])
  /\ othersAsIs

HoldStep(r, k) ==
  /\ Quiet /\ pc[r] = "ready" /\ k = req[r].ctl /\ k \in Used /\ CanWrite(k)
  /\ MovesOn(r, "holding")
  /\ CtlNow(k, ctl[k].phase, ctl[k].holds + 1, TRUE) /\ lock' = Locked(k)
  /\ UNCHANGED <<home, trashed, index, known, loading, stage>>

(* Whether a release closes the writer.                                      *)
LastHold(k) == ctl[k].holds = 1 /\ ctl[k].phase = "over"

ReleaseStep(r, k) ==
  /\ Quiet /\ pc[r] = "holding" /\ k = req[r].ctl /\ k \in Used
  /\ Ends({r})
  /\ CtlNow(k, ctl[k].phase, ctl[k].holds - 1, ~LastHold(k))
  /\ lock' = IF LastHold(k) THEN Unlocked(ctl[k].call, ctl[k].dir) ELSE lock
  /\ UNCHANGED <<home, trashed, index, known, loading, stage>>

MoveStep(r, c) ==
  /\ pc[r] = "go" /\ c = req[r].call /\ Relocatable(c) /\ Ends({r})
  /\ req[r].to \in Workspaces /\ home' = [home EXCEPT ![c] = req[r].to]
  /\ (known' = known /\ home' = home) \/ known' = Forget(c)
  /\ UNCHANGED <<trashed, index, lock, ctl, loading, stage>>

TrashStep(r, c) ==
  /\ pc[r] = "go" /\ c = req[r].call /\ Relocatable(c) /\ Ends({r})
  /\ trashed' = trashed \cup {c} /\ index' = index \ {c} /\ known' = Forget(c)
  /\ UNCHANGED <<home, lock, ctl, loading, stage>>

RestoreStep(r, c) ==
  /\ pc[r] = "go" /\ c = req[r].call /\ c \in trashed \ index
  /\ trashed' = trashed \ {c} /\ MovesOn(r, "reindex")
  /\ UNCHANGED <<home, index, lock, ctl, known, loading, stage>>

ReindexStep(r, c) ==
  /\ Quiet /\ pc[r] = "reindex" /\ c = req[r].call
  /\ index' = index \cup {c} /\ Ends({r})
  /\ UNCHANGED <<home, trashed, lock, ctl, known, loading, stage>>

AnyStep ==
  \/ \E r \in Requests :
       \/ RefuseStep(r) \/ ArriveStep(r) \/ SettleStep(r) \/ AttachStep(r) \/ ReserveStep(r)
       \/ FolderFailStep(r) \/ OpenStep(r) \/ KnowStep(r)
       \/ \E c \in Calls : \/ FolderStep(r, c) \/ MoveStep(r, c) \/ TrashStep(r, c)
                           \/ RestoreStep(r, c) \/ ReindexStep(r, c)
       \/ \E k \in Ctls : RestartStep(r, k) \/ HoldStep(r, k) \/ ReleaseStep(r, k)
  \/ \E c \in Calls : LoadStep(c) \/ LoadFailStep(c)
  \/ \E k \in Ctls, q \in Phases, S \in SUBSET Requests : TurnStep(k, q, S)
  \/ UNCHANGED <<pc, req>> /\ othersAsIs

-----------------------------------------------------------------------------
(* Every step is one of these.                                               *)

(* The types, function by function.                                          *)
Types ==
  /\ home \in [Calls -> Workspaces \cup {"none"}]
  /\ trashed \subseteq Made /\ index \subseteq Made \ trashed /\ loading \subseteq index
  /\ lock \in [Calls -> Ctls \cup {NoCtl}] /\ known \in [Calls -> Ctls \cup {NoCtl}]
  /\ ctl \in [Ctls -> Controllers \cup {Unused}]
  /\ stage \in Requests \cup {Nobody} /\ opening \in [Calls -> Requests \cup {Nobody}]
  /\ pc \in [Requests -> Steps] /\ req \in [Requests -> RequestTypes]
  /\ \A c \in Calls : known[c] # NoCtl => ctl[known[c]].call = c

(* TypeOK with the record set of the requests named.                         *)
LEMMA TypesAre == TypeOK <=> Types
BY DEF TypeOK, Types, RequestTypes

(* A controller that is known was made for the call.                         *)
LEMMA KnownAre ==
  ASSUME Types, NEW c \in Calls, Known(c)
  PROVE  known[c] \in Used /\ known[c] \in Ctls /\ ctl[known[c]].call = c
<1>1. known[c] \in Ctls BY DEF Types, Known
<1>2. ctl[known[c]].call = c BY DEF Types, Known
<1>3. c # NoCall BY ConstantTypes
<1>4. ctl[known[c]] # Unused BY <1>2, <1>3 DEF Unused
<1> QED BY <1>1, <1>2, <1>4 DEF Used

(* A request that asks nothing is a request.                                 *)
LEMMA BlankTyped == Blank \in RequestTypes
BY DEF Blank, RequestTypes, Kinds

(* Answers.                                                                  *)
LEMMA AnswerEnds ==
  ASSUME Types, NEW r \in Requests, NEW what \in {"done", "attached"}, Answer(r, what)
  PROVE  Ends({r})
<1>1. pc' = [pc EXCEPT ![r] = what] /\ req' = [req EXCEPT ![r] = Blank] BY DEF Answer, Goto
<1>2. what \in Steps BY DEF Steps
<1>3. pc \in [Requests -> Steps] /\ req \in [Requests -> RequestTypes] BY DEF Types
<1>4. pc' \in [Requests -> Steps] /\ req' \in [Requests -> RequestTypes]
  BY <1>1, <1>2, <1>3, BlankTyped
<1> QED BY <1>1, <1>3, <1>4 DEF Ends, Stay

(* A refusal answers the request and changes nothing else.                   *)
LEMMA RefusedEnds ==
  ASSUME Types, NEW r \in Requests, Refused(r)
  PROVE  Ends({r}) /\ othersAsIs
<1>1. Answer(r, "done") BY DEF Refused
<1>2. Ends({r}) BY <1>1, AnswerEnds
<1> QED BY <1>2 DEF Refused, folderVars, ctlVars, othersAsIs

(* A request that goes on and asks the same.                                 *)
LEMMA GotoMoves ==
  ASSUME Types, NEW r \in Requests, NEW step \in Steps, Goto(r, step), UNCHANGED req
  PROVE  MovesOn(r, step)
<1>1. pc' = [pc EXCEPT ![r] = step] /\ req' = req BY DEF Goto
<1>2. pc \in [Requests -> Steps] /\ req \in [Requests -> RequestTypes] BY DEF Types
<1> QED BY <1>1, <1>2 DEF MovesOn, Stay

(* A request whose turn it is, and one that may look for the live call.      *)
LEMMA GoesFree ==
  ASSUME NEW r \in Requests, NEW kinds
  PROVE  /\ Goes(r, kinds) => pc[r] = "go" /\ Free(r) /\ req[r].kind \in kinds
         /\ MayLook(r) => Free(r) /\ stage = Nobody
BY DEF Goes, Asks, Free, MayLook, Waiting

(* Every refusal is a RefuseStep.                                            *)
LEMMA RefusalsAre ==
  ASSUME Types, NEW r \in Requests,
         \/ StartRefused(r) \/ RestartRefused(r) \/ HoldRefused(r) \/ ControlRefused(r)
         \/ RelocateRefused(r) \/ RestoreRefused(r)
  PROVE  RefuseStep(r)
<1>1. Refused(r)
  BY DEF StartRefused, RestartRefused, HoldRefused, ControlRefused, RelocateRefused, RestoreRefused
<1>2. MayLook(r) \/ pc[r] = "go"
  BY DEF StartRefused, RestartRefused, HoldRefused, ControlRefused, RelocateRefused, RestoreRefused, Goes
<1>3. Free(r) BY <1>2, GoesFree DEF Free
<1> QED BY <1>1, <1>3, RefusedEnds DEF RefuseStep

(* What an arriving request asks, and when it need not wait for the stage.   *)
LEMMA ArriveIs ==
  ASSUME Types, NEW r \in Requests, NEW kind \in Kinds, NEW c \in Calls \cup {NoCall},
         NEW ws \in Workspaces \cup {"none"}, Arrive(r, kind, c, ws)
  PROVE  ArriveStep(r)
<1>1. pc \in [Requests -> Steps] /\ req \in [Requests -> RequestTypes] BY DEF Types
<1> DEFINE step == IF kind \in StageAware /\ stage # Nobody THEN "wait" ELSE "go"
           q == [req[r] EXCEPT !.kind = kind, !.call = c, !.to = ws]
<1>2. /\ Quiet /\ pc[r] = "new" /\ othersAsIs
      /\ pc' = [pc EXCEPT ![r] = step]
      /\ req' = [req EXCEPT ![r] = q]
  BY <1>1 DEF Arrive, Goto, folderVars, ctlVars, othersAsIs
<1>3. /\ IF kind \in {"start", "attach"} THEN c = NoCall ELSE c \in Made
      /\ IF kind \in {"start", "attach", "move"} THEN ws \in Workspaces ELSE ws = "none"
      /\ ~MeetStarts /\ kind \in {"start", "attach"} => ~Restarting
      /\ kind = "restart" => MeetStarts \/ ~StartsWait
  BY DEF Arrive
<1>4. q \in RequestTypes /\ q.kind = kind /\ q.call = c /\ q.to = ws BY <1>1 DEF RequestTypes
<1>5. step \in {"wait", "go"} /\ step \in Steps BY DEF Steps
<1>6. step = "wait" => stage # Nobody OBVIOUS
<1>7. step = "go" /\ kind \in {"start", "attach", "restart"} => stage = Nobody BY DEF StageAware
<1> HIDE DEF step, q
<1>8. pc' \in [Requests -> Steps] /\ pc'[r] = step /\ \A s \in Requests : s # r => pc'[s] = pc[s]
  BY <1>1, <1>2, <1>5
<1>9. req' \in [Requests -> RequestTypes] /\ req'[r] = q /\ \A s \in Requests : s # r => req'[s] = req[s]
  BY <1>1, <1>2, <1>4
<1>10. Stay({r}) BY <1>8, <1>9 DEF Stay
<1> QED BY <1>2, <1>3, <1>4, <1>5, <1>6, <1>7, <1>8, <1>9, <1>10 DEF ArriveStep

(* A caller of folderSettled goes on.                                        *)
LEMMA SettledIs ==
  ASSUME Types, NEW r \in Requests, Settled(r)
  PROVE  SettleStep(r)
<1>1. Goto(r, "go") /\ UNCHANGED req /\ "go" \in Steps BY DEF Settled, Steps
<1>2. MovesOn(r, "go") BY <1>1, GotoMoves
<1> QED BY <1>2 DEF Settled, SettleStep, Asks, othersAsIs, folderVars, ctlVars

(* An attach is answered, or waits for the call that opens.                  *)
LEMMA AttachIs ==
  ASSUME Types, NEW r \in Requests, Attach(r)
  PROVE  RefuseStep(r) \/ AttachStep(r)
<1>0. Free(r) /\ req[r].kind = "attach" /\ othersAsIs
  BY GoesFree DEF Attach, Asks, othersAsIs, folderVars, ctlVars
<1>1. PICK k \in LiveCtls :
        LET c == ctl[k].call IN
        IF ctl[k].phase = "starting" /\ opening[c] # Nobody
        THEN Goto(r, "attaching") /\ req' = [req EXCEPT ![r].call = c]
        ELSE Answer(r, "attached")
  BY DEF Attach
<1>2. k \in Used /\ ctl[k].call \in Calls
  <2>1. PICK c \in Calls : LiveCall(c) /\ k = known[c] BY DEF LiveCtls
  <2> QED BY <2>1, KnownAre DEF LiveCall
<1>3. CASE Answer(r, "attached")
  <2>1. Ends({r}) BY <1>3, AnswerEnds
  <2> QED BY <2>1, <1>0 DEF RefuseStep
<1>4. CASE Goto(r, "attaching") /\ req' = [req EXCEPT ![r].call = ctl[k].call]
  <2> DEFINE c == ctl[k].call
             q == [req[r] EXCEPT !.call = c]
  <2>1. pc \in [Requests -> Steps] /\ req \in [Requests -> RequestTypes] BY DEF Types
  <2>2. pc' = [pc EXCEPT ![r] = "attaching"] /\ req' = [req EXCEPT ![r] = q] BY <1>4, <2>1 DEF Goto
  <2>3. "attaching" \in Steps BY DEF Steps
  <2>4. /\ q \in RequestTypes /\ q.kind = req[r].kind /\ q.to = req[r].to /\ q.call = c
        /\ q.ctl = req[r].ctl
    BY <2>1, <1>2 DEF RequestTypes
  <2> HIDE DEF q
  <2>5. Stay({r}) /\ pc'[r] = "attaching" /\ req'[r] = q BY <2>1, <2>2, <2>3, <2>4 DEF Stay
  <2>6. Moves(r, "attaching", c, req[r].ctl) BY <2>4, <2>5 DEF Moves
  <2> QED BY <2>6, <1>0, <1>2 DEF AttachStep
<1> QED BY <1>1, <1>3, <1>4

(* A start reserves the stage when no call is live.                          *)
LEMMA ReserveIs ==
  ASSUME Types, NEW r \in Requests, Reserve(r)
  PROVE  ReserveStep(r)
<1>1. Goto(r, "folder") /\ UNCHANGED req /\ "folder" \in Steps BY DEF Reserve, Steps
<1>2. MovesOn(r, "folder") BY <1>1, GotoMoves
<1> QED BY <1>2, GoesFree DEF Reserve, ReserveStep, Asks, folderVars, ctlVars

(* A start whose folder could not be made is answered.                       *)
LEMMA FolderFailsIs ==
  ASSUME Types, NEW r \in Requests, FolderFails(r)
  PROVE  FolderFailStep(r)
<1>1. Ends({r}) BY AnswerEnds DEF FolderFails
<1> QED BY <1>1 DEF FolderFails, FolderFailStep, folderVars, ctlVars

(* A start whose folder is made has the next controller, and its call is known. *)
LEMMA FolderMadeIs ==
  ASSUME Types, Asked, OneEach, NEW r \in Requests, FolderMade(r)
  PROVE  \E c \in Calls : FolderStep(r, c)
<1>1. PICK c \in Calls \ Made :
       /\ home' = [home EXCEPT ![c] = req[r].to]
       /\ index' = index \cup {c}
       /\ lock' = [lock EXCEPT ![c] = NextCtl]
       /\ known' = [known EXCEPT ![c] = NextCtl]
       /\ ctl' = [ctl EXCEPT ![NextCtl] =
            [call |-> c, dir |-> <<req[r].to, FALSE>>, phase |-> "starting", holds |-> 0,
             writer |-> TRUE]]
       /\ req' = [req EXCEPT ![r].call = c]
  BY DEF FolderMade
<1>2. Quiet /\ pc[r] = "folder" /\ stage' = Nobody /\ Goto(r, "opening") /\ UNCHANGED <<trashed, loading>>
  BY DEF FolderMade
<1>3. pc \in [Requests -> Steps] /\ req \in [Requests -> RequestTypes]
      /\ ctl \in [Ctls -> Controllers \cup {Unused}]
  BY DEF Types
<1>4. req[r].to \in Workspaces BY <1>2 DEF Asked, AskedOf
<1>5. CtlMade(NextCtl, c, <<req[r].to, FALSE>>, "starting", TRUE)
  <2>1. r \notin Past BY <1>2 DEF Past
  <2>2. Cardinality(Used) + 1 \in Ctls \ Used BY <2>1, <1>3, RoomForOne
  <2> DEFINE x == [call |-> c, dir |-> <<req[r].to, FALSE>>, phase |-> "starting", holds |-> 0,
                   writer |-> TRUE]
  <2>3. x \in Controllers
    <3>1. <<req[r].to, FALSE>> \in Dirs BY <1>4 DEF Dirs
    <3>2. 0 \in 0..Cardinality(Requests) BY ConstantTypes
    <3>3. "starting" \in Phases /\ TRUE \in BOOLEAN BY DEF Phases
    <3>4. c \in Calls OBVIOUS
    <3> QED BY ONLY <3>1, <3>2, <3>3, <3>4 DEF Controllers
  <2>4. /\ x.call = c /\ x.dir = <<req[r].to, FALSE>> /\ x.phase = "starting" /\ x.holds = 0
        /\ x.writer = TRUE
    OBVIOUS
  <2>5. ctl' = [ctl EXCEPT ![NextCtl] = x] BY <1>1
  <2> HIDE DEF x
  <2>6. CtlMade(NextCtl, x.call, x.dir, x.phase, x.writer) BY <2>2, <2>3, <2>4, <2>5, <1>3, CtlAdd
  <2> QED BY <2>4, <2>6
<1>6. Moves(r, "opening", c, req[r].ctl)
  <2> DEFINE q == [req[r] EXCEPT !.call = c]
  <2>2. pc' = [pc EXCEPT ![r] = "opening"] /\ req' = [req EXCEPT ![r] = q] BY <1>1, <1>2, <1>3 DEF Goto
  <2>3. "opening" \in Steps BY DEF Steps
  <2>4. /\ q \in RequestTypes /\ q.kind = req[r].kind /\ q.to = req[r].to /\ q.call = c
        /\ q.ctl = req[r].ctl
    BY <1>3 DEF RequestTypes
  <2> HIDE DEF q
  <2>5. Stay({r}) /\ pc'[r] = "opening" /\ req'[r] = q BY <1>3, <2>2, <2>3, <2>4 DEF Stay
  <2> QED BY <2>4, <2>5 DEF Moves
<1> QED BY <1>1, <1>2, <1>5, <1>6 DEF FolderStep

(* Two fields of one controller at once.                                     *)
LEMMA TwoFields ==
  ASSUME ctl \in [Ctls -> Controllers \cup {Unused}], NEW k \in Used, NEW a, NEW b
  PROVE  /\ [ctl EXCEPT ![k].phase = a, ![k].writer = b]
              = [ctl EXCEPT ![k] = [ctl[k] EXCEPT !.phase = a, !.writer = b]]
         /\ [ctl EXCEPT ![k].holds = a, ![k].writer = b]
              = [ctl EXCEPT ![k] = [ctl[k] EXCEPT !.holds = a, !.writer = b]]
<1>1. k \in Ctls BY DEF Used
<1> QED BY <1>1

(* A controller with a phase or holds, and a writer, of its own.             *)
LEMMA PhaseSet ==
  ASSUME ctl \in [Ctls -> Controllers \cup {Unused}], NEW k \in Used, NEW q \in Phases,
         NEW w \in BOOLEAN, ctl' = [ctl EXCEPT ![k].phase = q, ![k].writer = w]
  PROVE  CtlNow(k, q, ctl[k].holds, w)
<1> DEFINE x == [ctl[k] EXCEPT !.phase = q, !.writer = w]
<1>1. ctl[k] \in Controllers BY UsedAre
<1>2. /\ x \in Controllers /\ x.call = ctl[k].call /\ x.dir = ctl[k].dir /\ x.phase = q
      /\ x.holds = ctl[k].holds /\ x.writer = w
  BY <1>1 DEF Controllers
<1>3. ctl' = [ctl EXCEPT ![k] = x] BY TwoFields
<1> HIDE DEF x
<1>4. CtlNow(k, x.phase, x.holds, x.writer) BY <1>2, <1>3, CtlSet
<1> QED BY <1>2, <1>4

(* The same with holds in place of the phase.                                *)
LEMMA HoldsSet ==
  ASSUME ctl \in [Ctls -> Controllers \cup {Unused}], NEW k \in Used,
         NEW h \in 0..Cardinality(Requests),
         NEW w \in BOOLEAN, ctl' = [ctl EXCEPT ![k].holds = h, ![k].writer = w]
  PROVE  CtlNow(k, ctl[k].phase, h, w)
<1> DEFINE x == [ctl[k] EXCEPT !.holds = h, !.writer = w]
<1>1. ctl[k] \in Controllers BY UsedAre
<1>2. /\ x \in Controllers /\ x.call = ctl[k].call /\ x.dir = ctl[k].dir /\ x.holds = h
      /\ x.phase = ctl[k].phase /\ x.writer = w
  BY <1>1 DEF Controllers
<1>3. ctl' = [ctl EXCEPT ![k] = x] BY TwoFields
<1> HIDE DEF x
<1>4. CtlNow(k, x.phase, x.holds, x.writer) BY <1>2, <1>3, CtlSet
<1> QED BY <1>2, <1>4

(* A phase that changes, and the writer that it closes.                      *)
LEMMA BecomesIs ==
  ASSUME Types, NEW k \in Used, NEW q \in Phases, Becomes(k, q)
  PROVE  /\ CtlNow(k, q, ctl[k].holds, ctl[k].writer /\ ~Closing(k, q))
         /\ lock' = IF Closing(k, q) /\ ctl[k].writer THEN Unlocked(ctl[k].call, ctl[k].dir) ELSE lock
<1> DEFINE w == ctl[k].writer /\ ~Closing(k, q)
<1>1. /\ ctl' = [ctl EXCEPT ![k].phase = q, ![k].writer = w]
      /\ lock' = IF Closing(k, q) /\ ctl[k].writer THEN Unlocked(ctl[k].call, ctl[k].dir) ELSE lock
  BY DEF Becomes, Closing
<1>2. w \in BOOLEAN OBVIOUS
<1>3. ctl \in [Ctls -> Controllers \cup {Unused}] BY DEF Types
<1> HIDE DEF w
<1>4. CtlNow(k, q, ctl[k].holds, w) BY <1>1, <1>2, <1>3, PhaseSet
<1> QED BY <1>1, <1>4 DEF w

(* A start that is answered, and all that wait for it.                       *)
LEMMA ResolveEnds ==
  ASSUME Types, NEW c \in Calls, NEW ok \in BOOLEAN, Resolve(c, ok)
  PROVE  \E S \in SUBSET {r \in Requests : pc[r] \in {"opening", "attaching"}} : Ends(S)
<1> DEFINE S == {r \in Requests : req[r].call = c /\ pc[r] \in {"opening", "attaching"}}
<1>1. /\ pc' = [r \in Requests |-> IF r \notin S THEN pc[r]
                                   ELSE IF ok /\ pc[r] = "attaching" THEN "attached" ELSE "done"]
      /\ req' = [r \in Requests |-> IF r \in S THEN Blank ELSE req[r]]
  BY DEF Resolve
<1>2. pc \in [Requests -> Steps] /\ req \in [Requests -> RequestTypes] BY DEF Types
<1>3. "attached" \in Steps /\ "done" \in Steps BY DEF Steps
<1>4. S \in SUBSET {r \in Requests : pc[r] \in {"opening", "attaching"}} OBVIOUS
<1>5. \A s \in S : s \in Requests OBVIOUS
<1> HIDE DEF S
<1>6. Ends(S) BY <1>1, <1>2, <1>3, <1>5, BlankTyped DEF Ends, Stay
<1> QED BY <1>4, <1>6

(* A call's own step.                                                        *)
LEMMA CallStepsIs ==
  ASSUME Types, NEW k \in Ctls, CallSteps(k)
  PROVE  \E q \in Phases, S \in SUBSET Requests : TurnStep(k, q, S)
<1>1. PICK s \in OwnSteps :
        /\ ctl[k].phase = s[1]
        /\ Becomes(k, s[2])
        /\ IF s[1] = "starting" THEN Resolve(ctl[k].call, s[2] = "taking")
           ELSE UNCHANGED <<pc, req, opening>>
  BY DEF CallSteps
<1> DEFINE q == s[2]
<1>2. k \in Used /\ Quiet /\ UNCHANGED <<home, trashed, index, known, loading, stage>>
  BY DEF CallSteps, folderVars
<1>3. q \in Phases /\ <<ctl[k].phase, q>> \in OwnSteps BY <1>1 DEF OwnSteps, Phases
<1>4. /\ CtlNow(k, q, ctl[k].holds, ctl[k].writer /\ ~Closing(k, q))
      /\ lock' = IF Closing(k, q) /\ ctl[k].writer THEN Unlocked(ctl[k].call, ctl[k].dir) ELSE lock
  BY <1>1, <1>2, <1>3, BecomesIs
<1>5. \E S \in SUBSET {r \in Requests : pc[r] \in {"opening", "attaching"}} : Ends(S)
  <2>1. CASE s[1] = "starting"
    <3>1. ctl[k].call \in Calls BY <1>2, UsedAre DEF Types
    <3> DEFINE ok == s[2] = "taking"
    <3>2. ok \in BOOLEAN /\ Resolve(ctl[k].call, ok) BY <2>1, <1>1
    <3> HIDE DEF ok
    <3> QED BY <3>1, <3>2, ResolveEnds
  <2>2. CASE s[1] # "starting"
    <3>1. UNCHANGED <<pc, req>> BY <2>2, <1>1
    <3>2. Ends({}) BY <3>1 DEF Ends, Stay, Types
    <3> QED BY <3>2
  <2> QED BY <2>1, <2>2
<1> HIDE DEF q
<1>6. PICK S \in SUBSET {r \in Requests : pc[r] \in {"opening", "attaching"}} : Ends(S) BY <1>5
<1>7. S \in SUBSET Requests /\ \A r \in S : pc[r] \in {"opening", "attaching", "go"} OBVIOUS
<1>8. TurnStep(k, q, S) BY <1>2, <1>3, <1>4, <1>6, <1>7 DEF TurnStep
<1> QED BY <1>3, <1>7, <1>8

(* The call of a request that goes on is one that was made.                  *)
LEMMA AskedCall ==
  ASSUME Asked, NEW r \in Requests, pc[r] = "go", req[r].kind \notin {"start", "attach"}
  PROVE  req[r].call \in Made /\ req[r].call \in Calls
BY DEF Asked, AskedOf, Made

(* A stop, which answers whoever waits for the opening too.                  *)
LEMMA StopIs ==
  ASSUME Types, Asked, NEW r \in Requests, Stop(r)
  PROVE  \E k \in Ctls, q \in Phases, S \in SUBSET Requests : TurnStep(k, q, S)
<1> DEFINE c == req[r].call
           k == known[c]
           q == "draining"
           S == {s \in Requests : s = r \/ (req[s].call = c /\ pc[s] \in {"opening", "attaching"})}
<1>1. /\ pc[r] = "go" /\ req[r].kind = "stop" /\ LiveCall(c) /\ Becomes(k, "draining")
      /\ pc' = [s \in Requests |-> IF s \in S THEN "done" ELSE pc[s]]
      /\ req' = [s \in Requests |-> IF s \in S THEN Blank ELSE req[s]]
      /\ UNCHANGED <<home, trashed, index, known, loading, stage>>
  BY DEF Stop, Goes, Asks, folderVars
<1>2. pc \in [Requests -> Steps] /\ req \in [Requests -> RequestTypes] BY DEF Types
<1>3. c \in Calls BY <1>1, AskedCall
<1>4. k \in Used /\ k \in Ctls /\ Live(k) BY <1>1, <1>3, KnownAre DEF LiveCall
<1>5. q \in Phases /\ <<ctl[k].phase, q>> \in OwnSteps \cup Stops BY <1>4 DEF Live, Stops, Phases
<1>6. /\ CtlNow(k, q, ctl[k].holds, ctl[k].writer /\ ~Closing(k, q))
      /\ lock' = IF Closing(k, q) /\ ctl[k].writer THEN Unlocked(ctl[k].call, ctl[k].dir) ELSE lock
  <2>1. Becomes(k, q) BY <1>1
  <2> HIDE DEF k, q
  <2> QED BY <2>1, <1>4, <1>5, BecomesIs
<1>7. S \in SUBSET Requests /\ \A s \in S : pc[s] \in {"opening", "attaching", "go"} BY <1>1
<1>8. Ends(S)
  <2>1. "done" \in Steps BY DEF Steps
  <2> HIDE DEF S, c, k
  <2> QED BY <2>1, <1>1, <1>2, <1>7, BlankTyped DEF Ends, Stay
<1>9. TurnStep(k, q, S)
  <2> HIDE DEF S, k, q
  <2> QED BY <1>1, <1>4, <1>5, <1>6, <1>7, <1>8 DEF TurnStep
<1> QED BY <1>4, <1>5, <1>7, <1>9

(* restart() of a controller.                                                *)
LEMMA RestartCallIs ==
  ASSUME Types, NEW r \in Requests, NEW k \in Used, k = known[req[r].call], ctl[k].call = req[r].call,
         req[r].kind = "restart", pc[r] \in {"go", "loaded"}, RestartCall(r, k),
         ~LiveCall(req[r].call) => ~OtherLive(req[r].call),
         UNCHANGED <<home, trashed, index, known, loading, stage>>,
         pc[r] = "go" => Free(r)
  PROVE  RefuseStep(r) \/ RestartStep(r, k)
<1>1. CASE ctl[k].phase = "over" /\ CanWrite(k)
  <2>1. /\ ctl' = [ctl EXCEPT ![k].phase = "starting", ![k].writer = TRUE]
        /\ lock' = Locked(k) /\ Goto(r, "opening") /\ UNCHANGED req
    BY <1>1 DEF RestartCall
  <2> DEFINE q == "starting"
             w == TRUE
  <2>2. q \in Phases /\ w \in BOOLEAN /\ ctl' = [ctl EXCEPT ![k].phase = q, ![k].writer = w]
        /\ ctl \in [Ctls -> Controllers \cup {Unused}]
    BY <2>1 DEF Phases, Types
  <2> HIDE DEF q, w
  <2>3. CtlNow(k, q, ctl[k].holds, w) BY <2>2, PhaseSet
  <2>4. MovesOn(r, "opening")
    <3>1. "opening" \in Steps BY DEF Steps
    <3> QED BY <3>1, <2>1, GotoMoves
  <2>5. ~LiveCall(req[r].call) BY <1>1 DEF LiveCall, Live, LivePhases
  <2> QED BY <1>1, <2>1, <2>3, <2>4, <2>5 DEF RestartStep, q, w
<1>2. CASE ~(ctl[k].phase = "over" /\ CanWrite(k))
  <2>1. Answer(r, "done") /\ UNCHANGED ctlVars BY <1>2 DEF RestartCall
  <2>2. Ends({r}) BY <2>1, AnswerEnds
  <2> QED BY <2>1, <2>2 DEF RefuseStep, othersAsIs, ctlVars
<1> QED BY <1>1, <1>2

(* A restart of a known call, or of one that was loaded for it.              *)
LEMMA RestartsAre ==
  ASSUME Types, Asked, Loads, NEW r \in Requests, RestartKnown(r) \/ RestartLoaded(r)
  PROVE  RefuseStep(r) \/ \E k \in Ctls : RestartStep(r, k)
<1> DEFINE c == req[r].call
           k == known[c]
<1>1. CASE RestartKnown(r)
  <2>1. /\ pc[r] = "go" /\ req[r].kind = "restart" /\ Known(c)
        /\ LiveCall(c) \/ ~OtherLive(c)
    BY <1>1 DEF RestartKnown, Goes, Asks
  <2>2. /\ pc[r] = "go" /\ req[r].kind = "restart" /\ Known(c) /\ RestartCall(r, k)
        /\ ~LiveCall(c) => ~OtherLive(c)
        /\ UNCHANGED <<home, trashed, index, known, loading, stage>>
    BY <1>1 DEF RestartKnown, Goes, Asks, folderVars
  <2>3. c \in Calls BY <2>2, AskedCall
  <2>4. k \in Used /\ k \in Ctls /\ ctl[k].call = c BY <2>2, <2>3, KnownAre
  <2>5. Free(r) BY <2>2 DEF Free
  <2> QED BY <2>2, <2>4, <2>5, RestartCallIs
<1>2. CASE RestartLoaded(r)
  <2>1. /\ pc[r] = "loaded" /\ req[r].kind = "restart"
        /\ IF OtherLive(c) THEN Answer(r, "done") /\ UNCHANGED <<ctlVars, opening>>
           ELSE RestartCall(r, k)
        /\ UNCHANGED <<home, trashed, index, known, loading, stage>>
    BY <1>2 DEF RestartLoaded, Asks, folderVars
  <2>2. Known(c) /\ c \in Calls BY <2>1 DEF Loads, Asked, AskedOf, Made
  <2>3. k \in Used /\ k \in Ctls /\ ctl[k].call = c BY <2>2, KnownAre
  <2>4. CASE OtherLive(c)
    <3>1. Ends({r}) BY <2>1, <2>4, AnswerEnds
    <3> QED BY <3>1, <2>1, <2>4 DEF RefuseStep, othersAsIs, ctlVars
  <2>5. CASE ~OtherLive(c)
    <3>1. RestartCall(r, k) BY <2>1, <2>5
    <3> QED BY <3>1, <2>1, <2>3, <2>5, RestartCallIs
  <2> QED BY <2>4, <2>5
<1> QED BY <1>1, <1>2

(* An open joins the load of its call, or begins it.                         *)
LEMMA OpensAre ==
  ASSUME Types, NEW r \in Requests, RestartOpens(r) \/ HoldOpens(r)
  PROVE  OpenStep(r)
<1>1. pc[r] = "go" /\ req[r].kind \in {"restart", "hold"} /\ Open(r)
  BY DEF RestartOpens, HoldOpens, Goes, Asks
<1>2. Goto(r, "load") /\ UNCHANGED req /\ "load" \in Steps BY <1>1 DEF Open, Steps
<1>3. MovesOn(r, "load") BY <1>2, GotoMoves
<1> QED BY <1>1, <1>3 DEF Open, OpenStep, folderVars, ctlVars

(* A load makes the next controller; who waited for it goes on.              *)
LEMMA LoadDoneIs ==
  ASSUME Types, Loads, OneEach, NEW c \in Calls, LoadDone(c)
  PROVE  LoadStep(c)
<1>1. /\ Quiet /\ c \in loading
      /\ known' = [known EXCEPT ![c] = NextCtl]
      /\ ctl' = [ctl EXCEPT ![NextCtl] =
           [call |-> c, dir |-> DirOf(c), phase |-> "over", holds |-> 0, writer |-> FALSE]]
      /\ pc' = [r \in Requests |-> IF r \in Sharers(c) THEN "loaded" ELSE pc[r]]
      /\ loading' = loading \ {c}
      /\ UNCHANGED <<home, trashed, index, lock, stage, req>>
  BY DEF LoadDone, folderVars
<1>2. /\ pc \in [Requests -> Steps] /\ req \in [Requests -> RequestTypes]
      /\ ctl \in [Ctls -> Controllers \cup {Unused}]
  BY DEF Types
<1>3. home[c] \in Workspaces
  <2>1. c \in Made BY <1>1 DEF Types
  <2> QED BY <2>1 DEF Made, Types
<1>4. CtlMade(NextCtl, c, DirOf(c), "over", FALSE)
  <2>1. PICK r \in Requests : pc[r] = "load" BY <1>1 DEF Loads, Sharers
  <2>2. r \notin Past BY <2>1 DEF Past
  <2>3. Cardinality(Used) + 1 \in Ctls \ Used BY <2>2, <1>2, RoomForOne
  <2> DEFINE x == [call |-> c, dir |-> DirOf(c), phase |-> "over", holds |-> 0, writer |-> FALSE]
  <2>4. x \in Controllers
    <3>1. DirOf(c) \in Dirs
      <4> DEFINE b == c \in trashed
      <4>1. b \in BOOLEAN OBVIOUS
      <4>2. DirOf(c) = <<home[c], b>> BY DEF DirOf
      <4> HIDE DEF b
      <4> QED BY <4>1, <4>2, <1>3 DEF Dirs
    <3>2. 0 \in 0..Cardinality(Requests) BY ConstantTypes
    <3>3. "over" \in Phases /\ FALSE \in BOOLEAN BY DEF Phases
    <3>4. c \in Calls OBVIOUS
    <3> QED BY ONLY <3>1, <3>2, <3>3, <3>4 DEF Controllers
  <2>5. /\ x.call = c /\ x.dir = DirOf(c) /\ x.phase = "over" /\ x.holds = 0 /\ x.writer = FALSE
    OBVIOUS
  <2>6. ctl' = [ctl EXCEPT ![NextCtl] = x] BY <1>1
  <2> HIDE DEF x
  <2>7. CtlMade(NextCtl, x.call, x.dir, x.phase, x.writer) BY <2>3, <2>4, <2>5, <2>6, <1>2, CtlAdd
  <2> QED BY <2>5, <2>7
<1>5. Stay(Sharers(c)) /\ \A s \in Sharers(c) : pc'[s] = "loaded" /\ req'[s] = req[s]
  <2>1. "loaded" \in Steps BY DEF Steps
  <2>2. \A s \in Sharers(c) : s \in Requests BY DEF Sharers
  <2> QED BY <2>1, <2>2, <1>1, <1>2 DEF Stay
<1> QED BY <1>1, <1>4, <1>5 DEF LoadStep

(* A load that fails answers who waited for it.                              *)
LEMMA LoadFailsIs ==
  ASSUME Types, NEW c \in Calls, LoadFails(c)
  PROVE  LoadFailStep(c)
<1>1. /\ Quiet /\ c \in loading
      /\ pc' = [r \in Requests |-> IF r \in Sharers(c) THEN "done" ELSE pc[r]]
      /\ req' = [r \in Requests |-> IF r \in Sharers(c) THEN Blank ELSE req[r]]
      /\ loading' = loading \ {c}
      /\ UNCHANGED <<home, trashed, index, lock, ctl, known, stage>>
  BY DEF LoadFails, folderVars, ctlVars
<1>2. pc \in [Requests -> Steps] /\ req \in [Requests -> RequestTypes] BY DEF Types
<1>3. "done" \in Steps /\ \A s \in Sharers(c) : s \in Requests BY DEF Steps, Sharers
<1>4. Ends(Sharers(c)) BY <1>1, <1>2, <1>3, BlankTyped DEF Ends, Stay
<1> QED BY <1>1, <1>4 DEF LoadFailStep

(* A request that writes has the known controller.                           *)
LEMMA HoldKnowsIs ==
  ASSUME Types, Asked, Loads, NEW r \in Requests, HoldKnows(r)
  PROVE  KnowStep(r)
<1> DEFINE k == known[req[r].call]
           q == [req[r] EXCEPT !.ctl = k]
<1>1. /\ pc[r] \in {"go", "loaded"} /\ req[r].kind = "hold" /\ pc[r] = "go" => Known(req[r].call)
  BY DEF HoldKnows, Goes, Asks
<1>2. pc[r] \in {"go", "loaded"} /\ req[r].kind = "hold" /\ Known(req[r].call) /\ othersAsIs
  BY DEF HoldKnows, Goes, Asks, Loads, folderVars, ctlVars, othersAsIs
<1>3. pc \in [Requests -> Steps] /\ req \in [Requests -> RequestTypes] BY DEF Types
<1>4. pc' = [pc EXCEPT ![r] = "ready"] /\ req' = [req EXCEPT ![r] = q] BY <1>3 DEF HoldKnows, Goto
<1>5. req[r].call \in Calls BY <1>2 DEF Asked, AskedOf, Made
<1>6. k \in Ctls BY <1>2, <1>5, KnownAre
<1> HIDE DEF k
<1>7. /\ q \in RequestTypes /\ q.kind = req[r].kind /\ q.to = req[r].to /\ q.call = req[r].call
      /\ q.ctl = k
  BY <1>3, <1>6 DEF RequestTypes
<1> HIDE DEF q
<1>8. "ready" \in Steps BY DEF Steps
<1>9. Stay({r}) /\ pc'[r] = "ready" /\ req'[r] = q BY <1>3, <1>4, <1>7, <1>8 DEF Stay
<1>10. Moves(r, "ready", req[r].call, k) BY <1>7, <1>9 DEF Moves
<1> QED BY <1>2, <1>10 DEF KnowStep, k

(* A controller has room for the hold of a request that does not hold it.    *)
LEMMA HoldRoom ==
  ASSUME HoldsCounted, NEW k \in Used, NEW r \in Requests
  PROVE  /\ Holders(k) \in SUBSET Requests /\ IsFiniteSet(Holders(k))
         /\ ctl[k].holds = Cardinality(Holders(k)) /\ ctl[k].holds \in Nat
         /\ r \notin Holders(k) => ctl[k].holds + 1 \in 0..Cardinality(Requests)
         /\ r \in Holders(k) => /\ ctl[k].holds > 0 /\ ctl[k].holds - 1 \in 0..Cardinality(Requests)
                                /\ ctl[k].writer
<1>1. Holders(k) \in SUBSET Requests BY DEF Holders
<1>2. /\ IsFiniteSet(Holders(k)) /\ Cardinality(Holders(k)) \in Nat
      /\ Cardinality(Holders(k)) <= Cardinality(Requests)
  BY <1>1, RequestsAssumption, FS_Subset, FS_CardinalityType
<1>3. ctl[k].holds = Cardinality(Holders(k)) /\ (ctl[k].holds > 0 => ctl[k].writer) BY DEF HoldsCounted
<1>4. Cardinality(Requests) \in Nat BY ConstantTypes
<1>5. ASSUME r \notin Holders(k) PROVE ctl[k].holds + 1 \in 0..Cardinality(Requests)
  <2>1. Cardinality(Holders(k) \cup {r}) = Cardinality(Holders(k)) + 1 BY <1>2, <1>5, FS_AddElement
  <2>2. Holders(k) \cup {r} \in SUBSET Requests BY <1>1
  <2>3. Cardinality(Holders(k) \cup {r}) <= Cardinality(Requests)
    BY <2>2, RequestsAssumption, FS_Subset
  <2> QED BY <2>1, <2>3, <1>2, <1>3, <1>4
<1>6. ASSUME r \in Holders(k)
      PROVE  ctl[k].holds > 0 /\ ctl[k].holds - 1 \in 0..Cardinality(Requests) /\ ctl[k].writer
  <2>1. Cardinality(Holders(k)) # 0 BY <1>2, <1>6, FS_EmptySet
  <2> QED BY <2>1, <1>2, <1>3, <1>4
<1> QED BY <1>1, <1>2, <1>3, <1>5, <1>6

(* A request that holds its controller, or finds it cannot write.            *)
LEMMA HoldIs ==
  ASSUME Types, Asked, HoldsCounted, NEW r \in Requests, Hold(r)
  PROVE  RefuseStep(r) \/ \E k \in Ctls : HoldStep(r, k)
<1> DEFINE k == req[r].ctl
<1>1. Quiet /\ pc[r] = "ready" /\ UNCHANGED <<home, trashed, index, known, loading, stage>>
  BY DEF Hold, folderVars
<1>2. k \in Used /\ k \in Ctls BY <1>1 DEF Asked, AskedOf, Used
<1>3. CASE CanWrite(k)
  <2> DEFINE h == ctl[k].holds + 1
             w == TRUE
  <2>1. /\ ctl' = [ctl EXCEPT ![k].holds = h, ![k].writer = w]
        /\ lock' = Locked(k) /\ Goto(r, "holding") /\ UNCHANGED req
    BY <1>3 DEF Hold
  <2>2. r \notin Holders(k) BY <1>1 DEF Holders
  <2>3. h \in 0..Cardinality(Requests) /\ w \in BOOLEAN BY <1>2, <2>2, HoldRoom
  <2>4. ctl \in [Ctls -> Controllers \cup {Unused}] BY DEF Types
  <2> HIDE DEF h, w, k
  <2>5. CtlNow(k, ctl[k].phase, h, w) BY <1>2, <2>1, <2>3, <2>4, HoldsSet
  <2>6. MovesOn(r, "holding")
    <3>1. "holding" \in Steps BY DEF Steps
    <3> QED BY <3>1, <2>1, GotoMoves
  <2>7. HoldStep(r, k) BY <1>1, <1>2, <1>3, <2>1, <2>5, <2>6 DEF HoldStep, h, w, k
  <2> QED BY <2>7, <1>2
<1>4. CASE ~CanWrite(k)
  <2>1. Answer(r, "done") /\ UNCHANGED ctlVars BY <1>4 DEF Hold
  <2>2. Ends({r}) BY <2>1, AnswerEnds
  <2> QED BY <1>1, <2>1, <2>2 DEF RefuseStep, othersAsIs, ctlVars
<1> QED BY <1>3, <1>4

(* A request that lets its controller go.                                    *)
LEMMA ReleaseIs ==
  ASSUME Types, Asked, HoldsCounted, NEW r \in Requests, Release(r)
  PROVE  \E k \in Ctls : ReleaseStep(r, k)
<1> DEFINE k == req[r].ctl
           h == ctl[k].holds - 1
           w == ~LastHold(k)
<1>1. /\ Quiet /\ pc[r] = "holding" /\ Answer(r, "done")
      /\ UNCHANGED <<home, trashed, index, known, loading, stage>>
      /\ ctl' = [ctl EXCEPT ![k].holds = h, ![k].writer = w]
      /\ lock' = IF LastHold(k) THEN Unlocked(ctl[k].call, ctl[k].dir) ELSE lock
  BY DEF Release, folderVars, LastHold
<1>2. k \in Used /\ k \in Ctls BY <1>1 DEF Asked, AskedOf, Used
<1>3. r \in Holders(k) BY <1>1 DEF Holders
<1>4. h \in 0..Cardinality(Requests) BY <1>2, <1>3, HoldRoom
<1>5. w \in BOOLEAN OBVIOUS
<1>6. ctl \in [Ctls -> Controllers \cup {Unused}] BY DEF Types
<1> HIDE DEF h, w, k
<1>7. CtlNow(k, ctl[k].phase, h, w) BY <1>1, <1>2, <1>4, <1>5, <1>6, HoldsSet
<1>8. Ends({r}) BY <1>1, AnswerEnds
<1>9. ReleaseStep(r, k) BY <1>1, <1>2, <1>7, <1>8 DEF ReleaseStep, h, w, k
<1> QED BY <1>9, <1>2

(* A move, or a trash.                                                       *)
LEMMA RelocateIs ==
  ASSUME Types, Asked, NEW r \in Requests, Relocate(r)
  PROVE  \E c \in Calls : MoveStep(r, c) \/ TrashStep(r, c)
<1> DEFINE c == req[r].call
           stays == Asks(r, {"move"}) /\ home[c] = req[r].to
<1>1. /\ pc[r] = "go" /\ req[r].kind \in {"move", "trash"} /\ Relocatable(c) /\ Answer(r, "done")
      /\ IF Asks(r, {"move"})
         THEN home' = [home EXCEPT ![c] = req[r].to] /\ UNCHANGED <<trashed, index>>
         ELSE trashed' = trashed \cup {c} /\ index' = index \ {c} /\ UNCHANGED home
      /\ known' = IF stays THEN known ELSE Forget(c)
      /\ UNCHANGED <<lock, ctl, loading, stage>>
  BY DEF Relocate, Goes, Asks, ctlVars
<1>2. Ends({r}) BY <1>1, AnswerEnds
<1>3. c \in Calls BY <1>1, AskedCall
<1>4. CASE Asks(r, {"move"})
  <2>1. req[r].to \in Workspaces BY <1>1, <1>4 DEF Asked, AskedOf, Asks
  <2>2. (known' = known /\ home' = home) \/ known' = Forget(c)
    <3>1. CASE stays
      <4>1. home \in [Calls -> Workspaces \cup {"none"}] BY DEF Types
      <4>2. home' = home BY <4>1, <3>1, <1>1, <1>4
      <4> QED BY <4>2, <3>1, <1>1
    <3>2. CASE ~stays BY <3>2, <1>1
    <3> QED BY <3>1, <3>2
  <2>3. MoveStep(r, c) BY <1>1, <1>2, <1>4, <2>1, <2>2 DEF MoveStep
  <2> QED BY <2>3, <1>3
<1>5. CASE ~Asks(r, {"move"})
  <2>1. known' = Forget(c) BY <1>1, <1>5
  <2>2. TrashStep(r, c) BY <1>1, <1>2, <1>5, <2>1 DEF TrashStep
  <2> QED BY <2>2, <1>3
<1> QED BY <1>4, <1>5

(* A restore, and the index entry that follows it.                           *)
LEMMA RestoresAre ==
  ASSUME Types, Asked, NEW r \in Requests, Restore(r) \/ Reindexed(r)
  PROVE  \E c \in Calls : RestoreStep(r, c) \/ ReindexStep(r, c)
<1> DEFINE c == req[r].call
<1>1. CASE Restore(r)
  <2>1. c \in Calls BY <1>1 DEF Restore, Types, Made
  <2>2. Goto(r, "reindex") /\ UNCHANGED req /\ "reindex" \in Steps BY <1>1 DEF Restore, Steps
  <2>3. MovesOn(r, "reindex") BY <2>2, GotoMoves
  <2>4. RestoreStep(r, c) BY <1>1, <2>3 DEF Restore, RestoreStep, Goes, ctlVars
  <2> QED BY <2>1, <2>4
<1>2. CASE Reindexed(r)
  <2>1. c \in Calls BY <1>2 DEF Reindexed, Asked, AskedOf, Made
  <2>2. Ends({r}) BY <1>2, AnswerEnds DEF Reindexed
  <2>3. ReindexStep(r, c) BY <1>2, <2>2 DEF Reindexed, ReindexStep, ctlVars
  <2> QED BY <2>1, <2>3
<1> QED BY <1>1, <1>2

(* Every step of the manager is one of the steps above.                      *)
LEMMA StepsAre ==
  ASSUME Types, Asked, Loads, OneEach, HoldsCounted, [Next]_vars
  PROVE  AnyStep
<1>1. ASSUME NEW r \in Requests, Continues(r) PROVE AnyStep
  <2>1. CASE \/ StartRefused(r) \/ RestartRefused(r) \/ HoldRefused(r) \/ ControlRefused(r)
             \/ RelocateRefused(r) \/ RestoreRefused(r)
    BY <2>1, RefusalsAre DEF AnyStep
  <2>2. CASE Settled(r) BY <2>2, SettledIs DEF AnyStep
  <2>3. CASE Attach(r) BY <2>3, AttachIs DEF AnyStep
  <2>4. CASE Reserve(r) BY <2>4, ReserveIs DEF AnyStep
  <2>5. CASE RestartKnown(r) \/ RestartLoaded(r) BY <2>5, RestartsAre DEF AnyStep
  <2>6. CASE RestartOpens(r) \/ HoldOpens(r) BY <2>6, OpensAre DEF AnyStep
  <2>7. CASE HoldKnows(r) BY <2>7, HoldKnowsIs DEF AnyStep
  <2>8. CASE Stop(r) BY <2>8, StopIs DEF AnyStep
  <2>9. CASE Relocate(r) BY <2>9, RelocateIs DEF AnyStep
  <2>10. CASE Restore(r) BY <2>10, RestoresAre DEF AnyStep
  <2> QED BY <1>1, <2>1, <2>2, <2>3, <2>4, <2>5, <2>6, <2>7, <2>8, <2>9, <2>10 DEF Continues
<1>2. ASSUME NEW r \in Requests, DiskAnswers(r) \/ Release(r) PROVE AnyStep
  <2>1. CASE FolderMade(r) BY <2>1, FolderMadeIs DEF AnyStep
  <2>2. CASE FolderFails(r) BY <2>2, FolderFailsIs DEF AnyStep
  <2>3. CASE Hold(r) BY <2>3, HoldIs DEF AnyStep
  <2>4. CASE Reindexed(r) BY <2>4, RestoresAre DEF AnyStep
  <2>5. CASE Release(r) BY <2>5, ReleaseIs DEF AnyStep
  <2> QED BY <1>2, <2>1, <2>2, <2>3, <2>4, <2>5 DEF DiskAnswers
<1>3. ASSUME NEW c \in Calls, LoadDone(c) \/ LoadFails(c) PROVE AnyStep
  BY <1>3, LoadDoneIs, LoadFailsIs DEF AnyStep
<1>4. ASSUME NEW k \in Ctls, CallSteps(k) PROVE AnyStep
  BY <1>4, CallStepsIs DEF AnyStep
<1>5. CASE Arrivals
  <2>1. PICK r \in Requests, kind \in Kinds, c \in Calls \cup {NoCall}, ws \in Workspaces \cup {"none"} :
          Arrive(r, kind, c, ws)
    BY <1>5 DEF Arrivals
  <2>2. ArriveStep(r) BY <2>1, ArriveIs
  <2> QED BY <2>2 DEF AnyStep
<1>6. CASE Answered \/ UNCHANGED vars BY <1>6 DEF Answered, vars, AnyStep, othersAsIs
<1> QED BY <1>1, <1>2, <1>3, <1>4, <1>5, <1>6 DEF Next

-----------------------------------------------------------------------------
(* Types.                                                                    *)

(* The promise of a call's opening is a request's, or there is none.         *)
LEMMA OpeningTyped ==
  ASSUME Types, [Next]_vars
  PROVE  opening' \in [Calls -> Requests \cup {Nobody}]
<1>0. opening \in [Calls -> Requests \cup {Nobody}] BY DEF Types
<1>1. ASSUME NEW r \in Requests, NEW c, opening' = [opening EXCEPT ![c] = r]
      PROVE  opening' \in [Calls -> Requests \cup {Nobody}]
  BY <1>0, <1>1
<1>2. ASSUME NEW c, opening' = [opening EXCEPT ![c] = Nobody]
      PROVE  opening' \in [Calls -> Requests \cup {Nobody}]
  BY <1>0, <1>2
<1>3. ASSUME NEW r \in Requests, NEW k, RestartCall(r, k)
      PROVE  opening' \in [Calls -> Requests \cup {Nobody}]
  BY <1>3, <1>1, <1>2 DEF RestartCall
<1>4. ASSUME NEW r \in Requests, Continues(r)
      PROVE  opening' \in [Calls -> Requests \cup {Nobody}]
  <2>1. CASE RestartKnown(r) BY <2>1, <1>3 DEF RestartKnown
  <2>2. CASE RestartLoaded(r) BY <2>2, <1>0, <1>3 DEF RestartLoaded
  <2>3. CASE Stop(r) BY <2>3, <1>2 DEF Stop
  <2>4. CASE ~(RestartKnown(r) \/ RestartLoaded(r) \/ Stop(r))
    BY <2>4, <1>4, <1>0 DEF Continues, Settled, StartRefused, Attach, Reserve, RestartRefused,
       RestartOpens, HoldRefused, HoldOpens, HoldKnows, ControlRefused, RelocateRefused, Relocate,
       RestoreRefused, Restore, Refused, Open
  <2> QED BY <2>1, <2>2, <2>3, <2>4
<1>5. ASSUME NEW r \in Requests, DiskAnswers(r) \/ Release(r)
      PROVE  opening' \in [Calls -> Requests \cup {Nobody}]
  <2>1. CASE FolderMade(r) BY <2>1, <1>1 DEF FolderMade
  <2>2. CASE FolderFails(r) \/ Hold(r) \/ Reindexed(r) \/ Release(r)
    BY <2>2, <1>0 DEF FolderFails, Hold, Reindexed, Release
  <2> QED BY <1>5, <2>1, <2>2 DEF DiskAnswers
<1>6. ASSUME NEW c \in Calls, LoadDone(c) \/ LoadFails(c) PROVE opening' = opening
  BY <1>6 DEF LoadDone, LoadFails
<1>7. ASSUME NEW k \in Ctls, CallSteps(k) PROVE opening' \in [Calls -> Requests \cup {Nobody}]
  BY <1>7, <1>0, <1>2 DEF CallSteps, Resolve
<1>8. CASE Arrivals \/ Answered \/ UNCHANGED vars
  <2>1. CASE Arrivals
    <3>1. PICK r \in Requests, kind \in Kinds, c \in Calls \cup {NoCall}, ws \in Workspaces \cup {"none"} :
            Arrive(r, kind, c, ws)
      BY <2>1 DEF Arrivals
    <3>2. opening' = opening BY <3>1 DEF Arrive
    <3> QED BY <3>2, <1>0
  <2>2. CASE Answered BY <2>2, <1>0 DEF Answered, vars
  <2>3. CASE UNCHANGED vars BY <2>3, <1>0 DEF vars
  <2> QED BY <1>8, <2>1, <2>2, <2>3
<1> QED BY <1>0, <1>4, <1>5, <1>6, <1>7, <1>8 DEF Next

(* What was made stays made, and a controller stays the one of its call.     *)
Grows ==
  /\ home' \in [Calls -> Workspaces \cup {"none"}] /\ Made \subseteq Made'
  /\ ctl' \in [Ctls -> Controllers \cup {Unused}] /\ Used \subseteq Used'
  /\ \A j \in Used : ctl'[j].call = ctl[j].call /\ ctl'[j].dir = ctl[j].dir
  /\ pc' \in [Requests -> Steps] /\ req' \in [Requests -> RequestTypes]

(* A call that gets a workspace is made.                                     *)
LEMMA HomeSet ==
  ASSUME home \in [Calls -> Workspaces \cup {"none"}], NEW c \in Calls, NEW w \in Workspaces,
         home' = [home EXCEPT ![c] = w]
  PROVE  home' \in [Calls -> Workspaces \cup {"none"}] /\ Made' = Made \cup {c}
<1>1. w # "none" BY WorkspacesAssumption
<1> QED BY <1>1 DEF Made

(* No step takes back what was made.                                         *)
LEMMA StepsGrow ==
  ASSUME Types, Asked, AnyStep
  PROVE  Grows
<1>0. /\ home \in [Calls -> Workspaces \cup {"none"}] /\ ctl \in [Ctls -> Controllers \cup {Unused}]
      /\ pc \in [Requests -> Steps] /\ req \in [Requests -> RequestTypes]
  BY DEF Types
<1> DEFINE Reqs == pc' \in [Requests -> Steps] /\ req' \in [Requests -> RequestTypes]
           Ctlsd == /\ ctl' \in [Ctls -> Controllers \cup {Unused}] /\ Used \subseteq Used'
                    /\ \A j \in Used : ctl'[j].call = ctl[j].call /\ ctl'[j].dir = ctl[j].dir
<1>1. ASSUME NEW S, Stay(S) PROVE Reqs BY <1>1 DEF Stay
<1>2. ASSUME UNCHANGED ctl PROVE Ctlsd BY <1>0, <1>2 DEF Used
<1>3. ASSUME NEW k, NEW q, NEW h, NEW w, CtlNow(k, q, h, w) PROVE Ctlsd BY <1>3 DEF CtlNow
<1>4. ASSUME NEW k, NEW c, NEW d, NEW q, NEW w, CtlMade(k, c, d, q, w) PROVE Ctlsd
  BY <1>4 DEF CtlMade
<1>5. UNCHANGED home => home' \in [Calls -> Workspaces \cup {"none"}] /\ Made \subseteq Made'
  BY <1>0 DEF Made
<1> HIDE DEF Reqs, Ctlsd
<1>6. ASSUME NEW r \in Requests,
             \/ RefuseStep(r) \/ ArriveStep(r) \/ SettleStep(r) \/ AttachStep(r) \/ ReserveStep(r)
             \/ FolderFailStep(r) \/ OpenStep(r) \/ KnowStep(r)
      PROVE  Reqs /\ UNCHANGED <<home, ctl>>
  <2>1. UNCHANGED <<home, ctl>>
    BY <1>6 DEF RefuseStep, ArriveStep, SettleStep, AttachStep, ReserveStep, FolderFailStep, OpenStep,
      KnowStep, othersAsIs
  <2>2. Stay({r})
    BY <1>6 DEF RefuseStep, ArriveStep, SettleStep, AttachStep, ReserveStep, FolderFailStep, OpenStep,
      KnowStep, Ends, Moves, MovesOn
  <2> QED BY <2>1, <2>2, <1>1
<1>7. ASSUME NEW r \in Requests, NEW c \in Calls,
             \/ FolderStep(r, c) \/ MoveStep(r, c) \/ TrashStep(r, c)
             \/ RestoreStep(r, c) \/ ReindexStep(r, c)
      PROVE  Grows
  <2>1. Stay({r})
    BY <1>7 DEF FolderStep, MoveStep, TrashStep, RestoreStep, ReindexStep, Ends, Moves, MovesOn
  <2>2. Ctlsd BY <1>2, <1>4, <1>7 DEF FolderStep, MoveStep, TrashStep, RestoreStep, ReindexStep
  <2>3. home' \in [Calls -> Workspaces \cup {"none"}] /\ Made \subseteq Made'
    <3>1. CASE FolderStep(r, c) \/ MoveStep(r, c)
      <4>1. home' = [home EXCEPT ![c] = req[r].to] /\ req[r].to \in Workspaces
        BY <3>1 DEF FolderStep, MoveStep, Asked, AskedOf
      <4> QED BY <4>1, <1>0, HomeSet
    <3>2. CASE TrashStep(r, c) \/ RestoreStep(r, c) \/ ReindexStep(r, c)
      BY <3>2, <1>5 DEF TrashStep, RestoreStep, ReindexStep
    <3> QED BY <1>7, <3>1, <3>2
  <2> QED BY <2>1, <2>2, <2>3, <1>1 DEF Grows, Reqs, Ctlsd
<1>8. ASSUME NEW r \in Requests, NEW k \in Ctls, RestartStep(r, k) \/ HoldStep(r, k) \/ ReleaseStep(r, k)
      PROVE  Reqs /\ Ctlsd /\ UNCHANGED home
  <2>1. Stay({r}) /\ UNCHANGED home BY <1>8 DEF RestartStep, HoldStep, ReleaseStep, Ends, MovesOn
  <2>2. Ctlsd BY <1>8, <1>3 DEF RestartStep, HoldStep, ReleaseStep
  <2> QED BY <2>1, <2>2, <1>1
<1>9. ASSUME NEW c \in Calls, LoadStep(c) \/ LoadFailStep(c) PROVE Reqs /\ Ctlsd /\ UNCHANGED home
  <2>1. Stay(Sharers(c)) /\ UNCHANGED home BY <1>9 DEF LoadStep, LoadFailStep, Ends
  <2>2. Ctlsd BY <1>9, <1>2, <1>4 DEF LoadStep, LoadFailStep
  <2> QED BY <2>1, <2>2, <1>1
<1>10. ASSUME NEW k \in Ctls, NEW q \in Phases, NEW S \in SUBSET Requests, TurnStep(k, q, S)
       PROVE  Reqs /\ Ctlsd /\ UNCHANGED home
  <2>1. Stay(S) /\ UNCHANGED home BY <1>10 DEF TurnStep, Ends
  <2>2. Ctlsd BY <1>10, <1>3 DEF TurnStep
  <2> QED BY <2>1, <2>2, <1>1
<1>11. ASSUME UNCHANGED <<pc, req>>, othersAsIs PROVE Reqs /\ UNCHANGED <<home, ctl>>
  BY <1>11, <1>0 DEF othersAsIs, Reqs
<1>12. ASSUME Reqs, Ctlsd, UNCHANGED home PROVE Grows BY <1>12, <1>5 DEF Grows, Reqs, Ctlsd
<1>13. ASSUME Reqs, UNCHANGED <<home, ctl>> PROVE Grows BY <1>13, <1>2, <1>12
<1> QED
  <2>1. ASSUME NEW r \in Requests,
             \/ RefuseStep(r) \/ ArriveStep(r) \/ SettleStep(r) \/ AttachStep(r) \/ ReserveStep(r)
             \/ FolderFailStep(r) \/ OpenStep(r) \/ KnowStep(r)
        PROVE Grows
    BY <2>1, <1>6, <1>13
  <2>2. ASSUME NEW r \in Requests, NEW k \in Ctls,
               RestartStep(r, k) \/ HoldStep(r, k) \/ ReleaseStep(r, k)
        PROVE  Grows
    BY <2>2, <1>8, <1>12
  <2>3. ASSUME NEW c \in Calls, LoadStep(c) \/ LoadFailStep(c) PROVE Grows BY <2>3, <1>9, <1>12
  <2>4. ASSUME NEW k \in Ctls, NEW q \in Phases, NEW S \in SUBSET Requests, TurnStep(k, q, S)
        PROVE  Grows
    BY <2>4, <1>10, <1>12
  <2>5. ASSUME UNCHANGED <<pc, req>>, othersAsIs PROVE Grows BY <2>5, <1>11, <1>13
  <2> QED BY <1>7, <2>1, <2>2, <2>3, <2>4, <2>5 DEF AnyStep

(* The folders of a step that changes them, one by one.                      *)
Folders ==
  /\ trashed \subseteq Made /\ index \subseteq Made \ trashed /\ loading \subseteq index

(* Trash, index and loads stay what TypeOK says, through every step.         *)
LEMMA FoldersKept ==
  ASSUME Types, Asked, Restored, AnyStep
  PROVE  Folders'
<1>0. /\ home \in [Calls -> Workspaces \cup {"none"}] /\ Made \subseteq Calls /\ Folders
  BY DEF Types, Folders, Made
<1>1. Made \subseteq Made' BY StepsGrow DEF Grows
<1>2. UNCHANGED <<trashed, index, loading>> => Folders' BY <1>0, <1>1 DEF Folders
<1>3. ASSUME NEW r \in Requests,
             \/ RefuseStep(r) \/ ArriveStep(r) \/ SettleStep(r) \/ AttachStep(r) \/ ReserveStep(r)
             \/ FolderFailStep(r) \/ KnowStep(r)
      PROVE  Folders'
  BY <1>2, <1>3 DEF RefuseStep, ArriveStep, SettleStep, AttachStep, ReserveStep, FolderFailStep,
     KnowStep, othersAsIs
<1>4. ASSUME NEW r \in Requests, OpenStep(r) PROVE Folders'
  BY <1>0, <1>1, <1>4 DEF OpenStep, Folders
<1>5. ASSUME NEW r \in Requests, NEW c \in Calls, FolderStep(r, c) PROVE Folders'
  <2>1. req[r].to \in Workspaces BY <1>5 DEF FolderStep, Asked, AskedOf
  <2>2. Made' = Made \cup {c} BY <1>0, <2>1, <1>5, HomeSet DEF FolderStep
  <2> QED BY <1>0, <1>5, <2>2 DEF FolderStep, Folders
<1>6. ASSUME NEW r \in Requests, NEW c \in Calls, MoveStep(r, c) PROVE Folders'
  BY <1>2, <1>6 DEF MoveStep
<1>7. ASSUME NEW r \in Requests, NEW c \in Calls, TrashStep(r, c) PROVE Folders'
  BY <1>0, <1>1, <1>7 DEF TrashStep, Relocatable, Folders
<1>8. ASSUME NEW r \in Requests, NEW c \in Calls, RestoreStep(r, c) PROVE Folders'
  BY <1>0, <1>1, <1>8 DEF RestoreStep, Folders
<1>9. ASSUME NEW r \in Requests, NEW c \in Calls, ReindexStep(r, c) PROVE Folders'
  <2>1. c \in Made /\ c \notin trashed BY <1>9 DEF ReindexStep, Asked, AskedOf, Restored
  <2> QED BY <1>0, <1>1, <1>9, <2>1 DEF ReindexStep, Folders
<1>10. ASSUME NEW r \in Requests, NEW k \in Ctls, RestartStep(r, k) \/ HoldStep(r, k) \/ ReleaseStep(r, k)
       PROVE  Folders'
  BY <1>2, <1>10 DEF RestartStep, HoldStep, ReleaseStep
<1>11. ASSUME NEW c \in Calls, LoadStep(c) \/ LoadFailStep(c) PROVE Folders'
  BY <1>0, <1>1, <1>11 DEF LoadStep, LoadFailStep, Folders
<1>12. ASSUME NEW k \in Ctls, NEW q \in Phases, NEW S \in SUBSET Requests, TurnStep(k, q, S)
       PROVE  Folders'
  BY <1>2, <1>12 DEF TurnStep
<1>13. ASSUME othersAsIs PROVE Folders' BY <1>2, <1>13 DEF othersAsIs
<1> QED
  BY <1>3, <1>4, <1>5, <1>6, <1>7, <1>8, <1>9, <1>10, <1>11, <1>12, <1>13 DEF AnyStep

(* A map of the calls that gets a controller, or none, for one of them.      *)
LEMMA MapSet ==
  ASSUME NEW f \in [Calls -> Ctls \cup {NoCtl}], NEW c, NEW k \in Ctls \cup {NoCtl}
  PROVE  [f EXCEPT ![c] = k] \in [Calls -> Ctls \cup {NoCtl}]
OBVIOUS

(* Both ways to write the lock keep its type.                                *)
LEMMA LocksSet ==
  ASSUME Types, NEW k \in Ctls, NEW dir
  PROVE  /\ Locked(k) \in [Calls -> Ctls \cup {NoCtl}]
         /\ Unlocked(ctl[k].call, dir) \in [Calls -> Ctls \cup {NoCtl}]
<1>1. lock \in [Calls -> Ctls \cup {NoCtl}] BY DEF Types
<1>2. Locked(k) = lock \/ Locked(k) = [lock EXCEPT ![ctl[k].call] = k]
  <2>1. CASE ctl[k].writer BY <1>1, <2>1 DEF Locked
  <2>2. CASE ~ctl[k].writer BY <2>2 DEF Locked
  <2> QED BY <2>1, <2>2
<1> QED BY <1>1, <1>2, MapSet DEF Unlocked

(* So does every step.                                                       *)
LEMMA LocksKept ==
  ASSUME Types, AnyStep
  PROVE  lock' \in [Calls -> Ctls \cup {NoCtl}]
<1>0. lock \in [Calls -> Ctls \cup {NoCtl}] BY DEF Types
<1> DEFINE P == lock' \in [Calls -> Ctls \cup {NoCtl}]
<1>1. lock' = lock => P BY <1>0
<1> HIDE DEF P
<1>2. ASSUME NEW r \in Requests,
             \/ RefuseStep(r) \/ ArriveStep(r) \/ SettleStep(r) \/ AttachStep(r) \/ ReserveStep(r)
             \/ FolderFailStep(r) \/ OpenStep(r) \/ KnowStep(r)
      PROVE  P
  BY <1>1, <1>2 DEF RefuseStep, ArriveStep, SettleStep, AttachStep, ReserveStep, FolderFailStep,
     OpenStep, KnowStep, othersAsIs
<1>3. ASSUME NEW r \in Requests, NEW c \in Calls, FolderStep(r, c) PROVE P
  <2>1. NextCtl \in Ctls /\ lock' = [lock EXCEPT ![c] = NextCtl] BY <1>3 DEF FolderStep, CtlMade
  <2> QED BY <1>0, <2>1, MapSet DEF P
<1>4. ASSUME NEW r \in Requests, NEW c \in Calls,
             MoveStep(r, c) \/ TrashStep(r, c) \/ RestoreStep(r, c) \/ ReindexStep(r, c)
      PROVE  P
  BY <1>1, <1>4 DEF MoveStep, TrashStep, RestoreStep, ReindexStep
<1>5. ASSUME NEW r \in Requests, NEW k \in Ctls, RestartStep(r, k) \/ HoldStep(r, k) \/ ReleaseStep(r, k)
      PROVE  P
  <2>1. lock' = Locked(k) \/ lock' = lock \/ lock' = Unlocked(ctl[k].call, ctl[k].dir)
    BY <1>5 DEF RestartStep, HoldStep, ReleaseStep
  <2>2. /\ Locked(k) \in [Calls -> Ctls \cup {NoCtl}]
        /\ Unlocked(ctl[k].call, ctl[k].dir) \in [Calls -> Ctls \cup {NoCtl}]
    BY LocksSet
  <2> QED BY <2>1, <2>2, <1>0 DEF P
<1>6. ASSUME NEW c \in Calls, LoadStep(c) \/ LoadFailStep(c) PROVE P
  BY <1>1, <1>6 DEF LoadStep, LoadFailStep
<1>7. ASSUME NEW k \in Ctls, NEW q \in Phases, NEW S \in SUBSET Requests, TurnStep(k, q, S)
      PROVE  P
  <2>1. lock' = lock \/ lock' = Unlocked(ctl[k].call, ctl[k].dir) BY <1>7 DEF TurnStep
  <2>2. Unlocked(ctl[k].call, ctl[k].dir) \in [Calls -> Ctls \cup {NoCtl}] BY LocksSet
  <2> QED BY <2>1, <2>2, <1>0 DEF P
<1>8. ASSUME othersAsIs PROVE P
  <2>1. lock' = lock BY <1>8 DEF othersAsIs
  <2> QED BY <1>1, <2>1
<1>9. P BY <1>2, <1>3, <1>4, <1>5, <1>6, <1>7, <1>8 DEF AnyStep
<1> QED BY <1>9 DEF P

(* A known controller was made for its call.                                 *)
KnownTyped ==
  /\ known \in [Calls -> Ctls \cup {NoCtl}]
  /\ \A c \in Calls : known[c] # NoCtl => known[c] \in Used /\ ctl[known[c]].call = c

(* TypeOK says so of the known ones.                                         *)
LEMMA KnownTypedIs == ASSUME Types PROVE KnownTyped
<1>1. \A c \in Calls : known[c] # NoCtl => known[c] \in Used /\ ctl[known[c]].call = c
  BY KnownAre DEF Known
<1> QED BY <1>1 DEF KnownTyped, Types

(* Every step keeps the known controllers those of their calls.              *)
LEMMA KnownKept ==
  ASSUME Types, Asked, AnyStep
  PROVE  KnownTyped'
<1>0. KnownTyped BY KnownTypedIs
<1>1. /\ Used \subseteq Used' /\ \A j \in Used : ctl'[j].call = ctl[j].call
  BY StepsGrow DEF Grows
<1>2. known' = known => KnownTyped' BY <1>0, <1>1 DEF KnownTyped
<1>3. ASSUME NEW r \in Requests,
             \/ RefuseStep(r) \/ ArriveStep(r) \/ SettleStep(r) \/ AttachStep(r) \/ ReserveStep(r)
             \/ FolderFailStep(r) \/ OpenStep(r) \/ KnowStep(r)
      PROVE  KnownTyped'
  BY <1>2, <1>3 DEF RefuseStep, ArriveStep, SettleStep, AttachStep, ReserveStep, FolderFailStep,
     OpenStep, KnowStep, othersAsIs
<1>4. ASSUME NEW c \in Calls, NEW d, NEW q, NEW w, CtlMade(NextCtl, c, d, q, w),
             known' = [known EXCEPT ![c] = NextCtl]
      PROVE  KnownTyped'
  <2>1. NextCtl \in Ctls /\ NextCtl \in Used' /\ ctl'[NextCtl].call = c BY <1>4 DEF CtlMade
  <2>2. known' \in [Calls -> Ctls \cup {NoCtl}] BY <2>1, <1>0, <1>4, MapSet DEF KnownTyped
  <2>3. known'[c] = NextCtl /\ \A d2 \in Calls : d2 # c => known'[d2] = known[d2]
    BY <1>0, <1>4 DEF KnownTyped
  <2> QED BY <2>1, <2>2, <2>3, <1>0, <1>1 DEF KnownTyped
<1>5. ASSUME NEW c \in Calls, known' = Forget(c) PROVE KnownTyped'
  <2>1. known' = [known EXCEPT ![c] = NoCtl] BY <1>5 DEF Forget
  <2>2. known' \in [Calls -> Ctls \cup {NoCtl}] BY <2>1, <1>0, MapSet DEF KnownTyped
  <2>3. known'[c] = NoCtl /\ \A d2 \in Calls : d2 # c => known'[d2] = known[d2]
    BY <1>0, <2>1 DEF KnownTyped
  <2> QED BY <2>2, <2>3, <1>0, <1>1 DEF KnownTyped
<1>6. ASSUME NEW r \in Requests, NEW c \in Calls,
             \/ FolderStep(r, c) \/ MoveStep(r, c) \/ TrashStep(r, c)
             \/ RestoreStep(r, c) \/ ReindexStep(r, c)
      PROVE  KnownTyped'
  <2>1. CASE FolderStep(r, c) BY <2>1, <1>4 DEF FolderStep
  <2>2. CASE MoveStep(r, c) BY <2>2, <1>2, <1>5 DEF MoveStep
  <2>3. CASE TrashStep(r, c) BY <2>3, <1>5 DEF TrashStep
  <2>4. CASE RestoreStep(r, c) \/ ReindexStep(r, c) BY <2>4, <1>2 DEF RestoreStep, ReindexStep
  <2> QED BY <1>6, <2>1, <2>2, <2>3, <2>4
<1>7. ASSUME NEW r \in Requests, NEW k \in Ctls, RestartStep(r, k) \/ HoldStep(r, k) \/ ReleaseStep(r, k)
      PROVE  KnownTyped'
  BY <1>2, <1>7 DEF RestartStep, HoldStep, ReleaseStep
<1>8. ASSUME NEW c \in Calls, LoadStep(c) \/ LoadFailStep(c) PROVE KnownTyped'
  <2>1. CASE LoadStep(c) BY <2>1, <1>4 DEF LoadStep
  <2>2. CASE LoadFailStep(c) BY <2>2, <1>2 DEF LoadFailStep
  <2> QED BY <1>8, <2>1, <2>2
<1>9. ASSUME NEW k \in Ctls, NEW q \in Phases, NEW S \in SUBSET Requests, TurnStep(k, q, S)
      PROVE  KnownTyped'
  BY <1>2, <1>9 DEF TurnStep
<1>10. ASSUME othersAsIs PROVE KnownTyped' BY <1>2, <1>10 DEF othersAsIs
<1> QED BY <1>3, <1>6, <1>7, <1>8, <1>9, <1>10 DEF AnyStep

(* The stage is a request's or nobody's, after every step.                   *)
LEMMA StageKept ==
  ASSUME Types, AnyStep
  PROVE  stage' \in Requests \cup {Nobody}
<1>1. stage \in Requests \cup {Nobody} BY DEF Types
<1> DEFINE P == stage' \in Requests \cup {Nobody}
<1>2. stage' \in {stage, Nobody} => P BY <1>1
<1>3. \A r \in Requests : stage' = r => P OBVIOUS
<1> HIDE DEF P
<1>4. ASSUME NEW r \in Requests,
             \/ RefuseStep(r) \/ ArriveStep(r) \/ SettleStep(r) \/ AttachStep(r) \/ ReserveStep(r)
             \/ FolderFailStep(r) \/ OpenStep(r) \/ KnowStep(r)
      PROVE  P
  BY <1>2, <1>3, <1>4 DEF RefuseStep, ArriveStep, SettleStep, AttachStep, ReserveStep,
     FolderFailStep, OpenStep, KnowStep, othersAsIs
<1>5. ASSUME NEW r \in Requests, NEW c \in Calls,
             \/ FolderStep(r, c) \/ MoveStep(r, c) \/ TrashStep(r, c)
             \/ RestoreStep(r, c) \/ ReindexStep(r, c)
      PROVE  P
  BY <1>2, <1>5 DEF FolderStep, MoveStep, TrashStep, RestoreStep, ReindexStep
<1>6. ASSUME NEW r \in Requests, NEW k \in Ctls, RestartStep(r, k) \/ HoldStep(r, k) \/ ReleaseStep(r, k)
      PROVE  P
  BY <1>2, <1>6 DEF RestartStep, HoldStep, ReleaseStep
<1>7. ASSUME NEW c \in Calls, LoadStep(c) \/ LoadFailStep(c) PROVE P
  BY <1>2, <1>7 DEF LoadStep, LoadFailStep
<1>8. ASSUME NEW k \in Ctls, NEW q \in Phases, NEW S \in SUBSET Requests, TurnStep(k, q, S)
      PROVE  P
  BY <1>2, <1>8 DEF TurnStep
<1>9. ASSUME othersAsIs PROVE P BY <1>2, <1>9 DEF othersAsIs
<1>10. P BY <1>4, <1>5, <1>6, <1>7, <1>8, <1>9 DEF AnyStep
<1> QED BY <1>10 DEF P

(* Every step keeps all types.                                               *)
LEMMA TypesKept ==
  ASSUME Types, Asked, Restored, AnyStep, [Next]_vars
  PROVE  Types'
<1>1. Grows BY StepsGrow
<1>2. Folders' BY FoldersKept
<1>3. KnownTyped' BY KnownKept
<1>4. /\ lock' \in [Calls -> Ctls \cup {NoCtl}] /\ stage' \in Requests \cup {Nobody}
      /\ opening' \in [Calls -> Requests \cup {Nobody}]
  BY LocksKept, StageKept, OpeningTyped
<1> QED BY <1>1, <1>2, <1>3, <1>4 DEF Types, Grows, Folders, KnownTyped

-----------------------------------------------------------------------------
(* Requests.                                                                 *)

(* What a step leaves of the requests it does not name.                      *)
LEMMA Others ==
  ASSUME NEW S, Stay(S), NEW s \in Requests, s \notin S
  PROVE  pc'[s] = pc[s] /\ req'[s] = req[s]
BY DEF Stay

(* A step that names one request leaves every other as it is.                *)
OneMoves(r) ==
  /\ \/ RefuseStep(r) \/ ArriveStep(r) \/ SettleStep(r) \/ AttachStep(r) \/ ReserveStep(r)
     \/ FolderFailStep(r) \/ OpenStep(r) \/ KnowStep(r)
     \/ \E c \in Calls : \/ FolderStep(r, c) \/ MoveStep(r, c) \/ TrashStep(r, c)
                         \/ RestoreStep(r, c) \/ ReindexStep(r, c)
     \/ \E k \in Ctls : RestartStep(r, k) \/ HoldStep(r, k) \/ ReleaseStep(r, k)

SomeMove ==
  \/ \E c \in Calls : LoadStep(c) \/ LoadFailStep(c)
  \/ \E k \in Ctls, q \in Phases, S \in SUBSET Requests : TurnStep(k, q, S)

(* Every step is one request's, or one of a call and who waits for it.       *)
LEMMA StepsSplit ==
  ASSUME AnyStep
  PROVE  \/ \E r \in Requests : OneMoves(r)
         \/ SomeMove
         \/ UNCHANGED <<pc, req>> /\ othersAsIs
BY DEF AnyStep, OneMoves, SomeMove

(* A request's step leaves the others as they are.                           *)
LEMMA OneStays ==
  ASSUME NEW r \in Requests, OneMoves(r)
  PROVE  Stay({r})
BY DEF OneMoves, RefuseStep, ArriveStep, SettleStep, AttachStep, ReserveStep, FolderFailStep,
   OpenStep, KnowStep, FolderStep, MoveStep, TrashStep, RestoreStep, ReindexStep, RestartStep,
   HoldStep, ReleaseStep, Ends, Moves, MovesOn

(* An answered request asks nothing, after every step.                       *)
LEMMA BlanksKept ==
  ASSUME Types, Blanks, AnyStep
  PROVE  Blanks'
<1> DEFINE P(s) == pc'[s] \in {"new", "done", "attached"} => req'[s] = Blank
<1>1. ASSUME NEW s \in Requests, pc'[s] = pc[s], req'[s] = req[s] PROVE P(s) BY <1>1 DEF Blanks
<1>2. ASSUME NEW S \in SUBSET Requests, Ends(S) PROVE \A s \in Requests : P(s)
  <2>1. \A s \in S : P(s) BY <1>2 DEF Ends
  <2>2. \A s \in Requests \ S : P(s) BY <1>1, <1>2, Others DEF Ends
  <2> QED BY <2>1, <2>2
<1>3. ASSUME NEW r \in Requests, OneMoves(r) PROVE \A s \in Requests : P(s)
  <2>1. Stay({r}) BY <1>3, OneStays
  <2>2. P(r)
    BY <1>3 DEF OneMoves, RefuseStep, ArriveStep, SettleStep, AttachStep, ReserveStep, FolderFailStep,
      OpenStep, KnowStep, FolderStep, MoveStep, TrashStep, RestoreStep, ReindexStep, RestartStep,
      HoldStep, ReleaseStep, Ends, Moves, MovesOn
  <2>3. \A s \in Requests \ {r} : P(s) BY <1>1, <2>1, Others
  <2> QED BY <2>2, <2>3
<1>4. ASSUME SomeMove PROVE \A s \in Requests : P(s)
  <2>1. ASSUME NEW c \in Calls, LoadStep(c) PROVE \A s \in Requests : P(s)
    <3>1. Stay(Sharers(c)) /\ \A s \in Sharers(c) : P(s) BY <2>1 DEF LoadStep
    <3>2. \A s \in Requests \ Sharers(c) : P(s) BY <1>1, <3>1, Others
    <3> QED BY <3>1, <3>2
  <2>2. ASSUME NEW c \in Calls, LoadFailStep(c) PROVE \A s \in Requests : P(s)
    <3>1. Ends(Sharers(c)) /\ Sharers(c) \in SUBSET Requests BY <2>2 DEF LoadFailStep, Sharers
    <3> QED BY <3>1, <1>2
  <2>3. ASSUME NEW k, NEW q, NEW S \in SUBSET Requests, TurnStep(k, q, S)
        PROVE  \A s \in Requests : P(s)
    BY <2>3, <1>2 DEF TurnStep
  <2> QED BY <1>4, <2>1, <2>2, <2>3 DEF SomeMove
<1>5. ASSUME UNCHANGED <<pc, req>> PROVE \A s \in Requests : P(s) BY <1>1, <1>5
<1>6. \A s \in Requests : P(s) BY <1>3, <1>4, <1>5, StepsSplit
<1> QED BY <1>6 DEF Blanks

(* What a request's step is for, after every step.                           *)
LEMMA AskedKept ==
  ASSUME Types, Asked, AnyStep
  PROVE  Asked'
<1>0. Made \subseteq Made' /\ Used \subseteq Used' BY StepsGrow DEF Grows
<1> DEFINE P(s) ==
      /\ pc'[s] \in {"wait", "go", "folder"} /\ req'[s].kind \in {"start", "attach", "move"} =>
           req'[s].to \in Workspaces
      /\ pc'[s] \in {"wait", "go"} /\ req'[s].kind \notin {"start", "attach"} => req'[s].call \in Made'
      /\ pc'[s] = "folder" => req'[s].kind \in {"start", "attach"}
      /\ pc'[s] \in {"load", "loaded"} => req'[s].kind \in {"restart", "hold"} /\ req'[s].call \in Made'
      /\ pc'[s] \in {"ready", "holding"} => req'[s].ctl \in Used'
      /\ pc'[s] = "reindex" => req'[s].call \in Made'
<1>1. ASSUME NEW s \in Requests, pc'[s] = pc[s], req'[s] = req[s] PROVE P(s)
  BY <1>0, <1>1 DEF Asked, AskedOf
<1>2. ASSUME NEW S \in SUBSET Requests, Ends(S) PROVE \A s \in Requests : P(s)
  <2>1. \A s \in S : P(s) BY <1>2 DEF Ends
  <2>2. \A s \in Requests \ S : P(s) BY <1>1, <1>2, Others DEF Ends
  <2> QED BY <2>1, <2>2
<1>3. ASSUME NEW r \in Requests, OneMoves(r) PROVE \A s \in Requests : P(s)
  <2>1. Stay({r}) BY <1>3, OneStays
  <2>r. AskedOf(r) BY DEF Asked
  <2>2. P(r)
    <3>1. CASE RefuseStep(r) \/ FolderFailStep(r) BY <3>1 DEF RefuseStep, FolderFailStep, Ends
    <3>2. CASE ArriveStep(r) BY <3>2, <1>0 DEF ArriveStep
    <3>3. CASE SettleStep(r) BY <3>3, <2>r, <1>0 DEF SettleStep, MovesOn, Waiting, AskedOf
    <3>4. CASE AttachStep(r) BY <3>4 DEF AttachStep, Moves
    <3>5. CASE ReserveStep(r) BY <3>5, <2>r DEF ReserveStep, MovesOn, Free, Waiting, AskedOf
    <3>6. CASE OpenStep(r) BY <3>6, <2>r, <1>0 DEF OpenStep, MovesOn, AskedOf
    <3>7. CASE KnowStep(r)
      <4>1. req[r].call \in Made BY <3>7, <2>r DEF KnowStep, AskedOf
      <4>2. known[req[r].call] \in Used BY <4>1, <3>7, KnownAre DEF KnowStep, Made
      <4> QED BY <4>2, <3>7, <1>0 DEF KnowStep, Moves
    <3>8. ASSUME NEW c \in Calls, FolderStep(r, c) PROVE P(r) BY <3>8 DEF FolderStep, Moves
    <3>9. ASSUME NEW c \in Calls, MoveStep(r, c) \/ TrashStep(r, c) \/ ReindexStep(r, c) PROVE P(r)
      BY <3>9 DEF MoveStep, TrashStep, ReindexStep, Ends
    <3>10. ASSUME NEW c \in Calls, RestoreStep(r, c) PROVE P(r)
      BY <3>10, <1>0 DEF RestoreStep, MovesOn, Types
    <3>11. ASSUME NEW k \in Ctls, RestartStep(r, k) \/ HoldStep(r, k) \/ ReleaseStep(r, k) PROVE P(r)
      BY <3>11, <1>0 DEF RestartStep, HoldStep, ReleaseStep, MovesOn, Ends
    <3> HIDE DEF P
    <3> QED BY <1>3, <3>1, <3>2, <3>3, <3>4, <3>5, <3>6, <3>7, <3>8, <3>9, <3>10, <3>11 DEF OneMoves
  <2>3. \A s \in Requests \ {r} : P(s) BY <1>1, <2>1, Others
  <2> QED BY <2>2, <2>3
<1>4. ASSUME SomeMove PROVE \A s \in Requests : P(s)
  <2>1. ASSUME NEW c \in Calls, LoadStep(c) PROVE \A s \in Requests : P(s)
    <3>1. Stay(Sharers(c)) BY <2>1 DEF LoadStep
    <3>2. ASSUME NEW s \in Sharers(c) PROVE P(s)
      <4>1. s \in Requests /\ pc[s] = "load" BY DEF Sharers
      <4> QED BY <4>1, <2>1, <1>0 DEF LoadStep, Asked, AskedOf
    <3>3. \A s \in Requests \ Sharers(c) : P(s) BY <1>1, <3>1, Others
    <3> QED BY <3>2, <3>3
  <2>2. ASSUME NEW c \in Calls, LoadFailStep(c) PROVE \A s \in Requests : P(s)
    <3>1. Ends(Sharers(c)) /\ Sharers(c) \in SUBSET Requests BY <2>2 DEF LoadFailStep, Sharers
    <3> QED BY <3>1, <1>2
  <2>3. ASSUME NEW k, NEW q, NEW S \in SUBSET Requests, TurnStep(k, q, S)
        PROVE  \A s \in Requests : P(s)
    BY <2>3, <1>2 DEF TurnStep
  <2> QED BY <1>4, <2>1, <2>2, <2>3 DEF SomeMove
<1>5. ASSUME UNCHANGED <<pc, req>> PROVE \A s \in Requests : P(s) BY <1>1, <1>5
<1>6. \A s \in Requests : P(s) BY <1>3, <1>4, <1>5, StepsSplit
<1> QED BY <1>6 DEF Asked, AskedOf

(* The stage is that of the start that is in it, after every step.           *)
LEMMA StageHeldKept ==
  ASSUME Types, StageHeld, AnyStep
  PROVE  StageHeld'
<1> DEFINE P(s) == pc'[s] = "folder" <=> stage' = s
<1>1. ASSUME NEW S \in SUBSET Requests, Stay(S), UNCHANGED stage,
             \A s \in S : pc[s] # "folder" /\ pc'[s] # "folder"
      PROVE  \A s \in Requests : P(s)
  <2>1. \A s \in S : P(s) BY <1>1 DEF StageHeld
  <2>2. \A s \in Requests \ S : P(s) BY <1>1, Others DEF StageHeld
  <2> QED BY <2>1, <2>2
<1>2. ASSUME NEW r \in Requests, OneMoves(r) PROVE \A s \in Requests : P(s)
  <2>1. Stay({r}) BY <1>2, OneStays
  <2>2. CASE ReserveStep(r)
    <3>1. pc'[r] = "folder" /\ stage' = r /\ stage = Nobody BY <2>2 DEF ReserveStep, MovesOn
    <3>2. \A s \in Requests \ {r} : pc'[s] = pc[s] /\ pc[s] # "folder"
      BY <2>1, <3>1, Others, NobodyAssumption DEF StageHeld
    <3> QED BY <3>1, <3>2
  <2>3. CASE FolderFailStep(r) \/ \E c \in Calls : FolderStep(r, c)
    <3>1. pc[r] = "folder" /\ stage' = Nobody /\ pc'[r] # "folder"
      BY <2>3 DEF FolderFailStep, FolderStep, Ends, Moves
    <3>2. \A s \in Requests \ {r} : pc'[s] = pc[s] /\ pc[s] # "folder"
      BY <2>1, <3>1, Others DEF StageHeld
    <3> QED BY <3>1, <3>2, NobodyAssumption
  <2>4. CASE ~(ReserveStep(r) \/ FolderFailStep(r) \/ \E c \in Calls : FolderStep(r, c))
    <3>1. stage' = stage /\ pc[r] # "folder" /\ pc'[r] # "folder"
      BY <1>2, <2>4 DEF OneMoves, RefuseStep, ArriveStep, SettleStep, AttachStep,
        OpenStep, KnowStep, MoveStep, TrashStep, RestoreStep, ReindexStep, RestartStep,
        HoldStep, ReleaseStep, Ends, Moves, MovesOn, Free, Waiting, othersAsIs
    <3> QED BY <2>1, <3>1, <1>1
  <2> QED BY <2>2, <2>3, <2>4
<1>3. ASSUME SomeMove PROVE \A s \in Requests : P(s)
  <2>1. ASSUME NEW c \in Calls, LoadStep(c) \/ LoadFailStep(c) PROVE \A s \in Requests : P(s)
    <3>1. Stay(Sharers(c)) /\ UNCHANGED stage /\ Sharers(c) \in SUBSET Requests
      BY <2>1 DEF LoadStep, LoadFailStep, Ends, Sharers
    <3>2. \A s \in Sharers(c) : pc[s] # "folder" /\ pc'[s] # "folder"
      BY <2>1 DEF LoadStep, LoadFailStep, Ends, Sharers
    <3> QED BY <3>1, <3>2, <1>1
  <2>2. ASSUME NEW k, NEW q, NEW S \in SUBSET Requests, TurnStep(k, q, S)
        PROVE  \A s \in Requests : P(s)
    <3>1. Stay(S) /\ UNCHANGED stage /\ \A s \in S : pc[s] # "folder" /\ pc'[s] # "folder"
      BY <2>2 DEF TurnStep, Ends
    <3> QED BY <3>1, <1>1
  <2> QED BY <1>3, <2>1, <2>2 DEF SomeMove
<1>4. ASSUME UNCHANGED <<pc, req>>, othersAsIs PROVE \A s \in Requests : P(s)
  BY <1>4 DEF othersAsIs, StageHeld
<1>5. \A s \in Requests : P(s) BY <1>2, <1>3, <1>4, StepsSplit
<1> QED BY <1>5 DEF StageHeld

(* While a request has loaded, only such requests go on.                     *)
LEMMA LoadedFirst ==
  ASSUME Loads, AnyStep, NEW r \in Requests, pc[r] = "loaded"
  PROVE  \/ \E s \in Requests : /\ pc[s] = "loaded"
                                /\ RefuseStep(s) \/ KnowStep(s) \/ \E k \in Ctls : RestartStep(s, k)
         \/ UNCHANGED <<pc, req>> /\ othersAsIs
<1>1. ~Quiet BY DEF Quiet
<1>2. \A s \in Requests : pc[s] # "go" /\ ~Waiting(s) BY DEF Loads
<1>3. \A s \in Requests : ~Free(s) BY <1>2 DEF Free
<1>4. ASSUME NEW s \in Requests, OneMoves(s)
      PROVE  /\ pc[s] = "loaded"
             /\ RefuseStep(s) \/ KnowStep(s) \/ \E k \in Ctls : RestartStep(s, k)
  BY <1>1, <1>2, <1>3, <1>4 DEF OneMoves, RefuseStep, ArriveStep, SettleStep, AttachStep, ReserveStep,
     FolderFailStep, OpenStep, KnowStep, FolderStep, MoveStep, TrashStep, RestoreStep, ReindexStep,
     RestartStep, HoldStep, ReleaseStep
<1>5. ~SomeMove BY <1>1, <1>2 DEF SomeMove, LoadStep, LoadFailStep, TurnStep
<1> QED BY <1>4, <1>5, StepsSplit

(* Loads stay shared, and whoever loaded goes first, after every step.       *)
LEMMA LoadsKept ==
  ASSUME Types, Asked, Loads, AnyStep
  PROVE  Loads'
<1> DEFINE Shared == \A c \in loading' :
             known'[c] = NoCtl /\ \E s \in Requests : pc'[s] = "load" /\ req'[s].call = c
           Listed == \A s \in Requests : pc'[s] = "load" => req'[s].call \in loading'
           First == \A s \in Requests : pc'[s] = "loaded" =>
             /\ known'[req'[s].call] # NoCtl
             /\ \A t \in Requests : pc'[t] # "go" /\ ~(pc'[t] = "wait" /\ stage' = Nobody)
<1>0. /\ \A c \in loading : known[c] = NoCtl /\ \E s \in Requests : pc[s] = "load" /\ req[s].call = c
      /\ \A s \in Requests : pc[s] = "load" => req[s].call \in loading
      /\ loading \subseteq Made /\ Made \subseteq Calls
  BY DEF Loads, Known, Sharers, Types, Made
<1>1. ASSUME NEW S \in SUBSET Requests, Stay(S), \A s \in S : pc[s] # "load" /\ pc'[s] # "load",
             UNCHANGED loading, \A c \in loading : known'[c] = known[c]
      PROVE  Shared /\ Listed
  <2>1. \A s \in Requests : pc[s] = "load" => pc'[s] = "load" /\ req'[s] = req[s] BY <1>1, Others
  <2>2. \A s \in Requests : pc'[s] = "load" => pc[s] = "load" /\ req'[s] = req[s] BY <1>1, Others
  <2> QED BY <1>0, <1>1, <2>1, <2>2
<1>2. ASSUME NEW r \in Requests, pc[r] = "loaded" PROVE Shared /\ Listed /\ First
  <2>1. CASE UNCHANGED <<pc, req>> /\ othersAsIs
    BY <2>1 DEF othersAsIs, Loads, Known, Waiting, Sharers
  <2>2. ASSUME NEW s \in Requests, pc[s] = "loaded",
               RefuseStep(s) \/ KnowStep(s) \/ \E k \in Ctls : RestartStep(s, k)
        PROVE  Shared /\ Listed /\ First
    <3>1. Stay({s}) /\ pc'[s] \notin {"load", "loaded", "go", "wait"} /\ UNCHANGED <<loading, known, stage>>
      BY <2>2 DEF RefuseStep, KnowStep, RestartStep, Ends, Moves, MovesOn, othersAsIs
    <3>2. Shared /\ Listed BY <3>1, <2>2, <1>1
    <3>3. \A t \in Requests \ {s} : pc'[t] = pc[t] /\ req'[t] = req[t] BY <3>1, Others
    <3>4. First BY <3>1, <3>3, <1>2 DEF Loads, Known, Waiting
    <3> QED BY <3>2, <3>4
  <2> HIDE DEF Shared, Listed, First
  <2> QED BY <1>2, <2>1, <2>2, LoadedFirst
<1>3. ASSUME \A r \in Requests : pc[r] # "loaded" PROVE Shared /\ Listed /\ First
  <2>1. ASSUME NEW r \in Requests, OneMoves(r) PROVE Shared /\ Listed /\ First
    <3>1. Stay({r}) BY <2>1, OneStays
    <3>2. pc'[r] # "loaded"
      BY <2>1, <3>1 DEF OneMoves, RefuseStep, ArriveStep, SettleStep, AttachStep, ReserveStep,
        FolderFailStep, OpenStep, KnowStep, FolderStep, MoveStep, TrashStep, RestoreStep, ReindexStep,
        RestartStep, HoldStep, ReleaseStep, Ends, Moves, MovesOn
    <3>3. First BY <3>1, <3>2, <1>3, Others
    <3>4. CASE OpenStep(r)
      <4>1. /\ pc[r] = "go" /\ pc'[r] = "load" /\ req'[r] = req[r] /\ known[req[r].call] = NoCtl
            /\ loading' = loading \cup {req[r].call} /\ UNCHANGED known
        BY <3>4 DEF OpenStep, MovesOn, Known
      <4>2. \A s \in Requests \ {r} : pc'[s] = pc[s] /\ req'[s] = req[s] BY <3>1, Others
      <4> QED BY <4>1, <4>2, <3>3, <1>0
    <3>5. CASE ~OpenStep(r)
      <4>1. pc[r] # "load" /\ pc'[r] # "load" /\ loading' = loading
        BY <2>1, <3>5 DEF OneMoves, RefuseStep, ArriveStep, SettleStep, AttachStep, ReserveStep,
          FolderFailStep, KnowStep, FolderStep, MoveStep, TrashStep, RestoreStep, ReindexStep,
          RestartStep, HoldStep, ReleaseStep, Ends, Moves, MovesOn, Free, Waiting, othersAsIs
      <4>2. \A c \in loading : known'[c] = known[c]
        <5>1. known \in [Calls -> Ctls \cup {NoCtl}] BY DEF Types
        <5>2. ASSUME NEW c \in Calls, FolderStep(r, c) PROVE \A d \in loading : known'[d] = known[d]
          BY <5>1, <5>2, <1>0 DEF FolderStep
        <5>3. ASSUME NEW c \in Calls, MoveStep(r, c) \/ TrashStep(r, c)
              PROVE  \A d \in loading : known'[d] = known[d]
          BY <5>1, <5>3, <1>0 DEF MoveStep, TrashStep, Forget, Relocatable
        <5>4. CASE ~\E c \in Calls : FolderStep(r, c) \/ MoveStep(r, c) \/ TrashStep(r, c)
          BY <2>1, <3>5, <5>4 DEF OneMoves, RefuseStep, ArriveStep, SettleStep, AttachStep, ReserveStep,
            FolderFailStep, KnowStep, RestoreStep, ReindexStep, RestartStep, HoldStep, ReleaseStep,
            othersAsIs
        <5> QED BY <5>2, <5>3, <5>4
      <4> QED BY <4>1, <4>2, <3>1, <3>3, <1>1
    <3> QED BY <3>4, <3>5
  <2>2. ASSUME NEW c \in Calls, LoadStep(c) PROVE Shared /\ Listed /\ First
    <3>1. /\ Quiet /\ Stay(Sharers(c)) /\ known' = [known EXCEPT ![c] = NextCtl]
          /\ loading' = loading \ {c} /\ UNCHANGED stage /\ NextCtl # NoCtl
          /\ \A s \in Sharers(c) : pc'[s] = "loaded" /\ req'[s] = req[s] /\ pc[s] = "load" /\ req[s].call = c
      BY <2>2, ConstantTypes DEF LoadStep, CtlMade, Sharers
    <3>2. known'[c] # NoCtl /\ \A d \in loading' : known'[d] = known[d]
      BY <3>1, <1>0 DEF Types
    <3>3. \A s \in Requests \ Sharers(c) : pc'[s] = pc[s] /\ req'[s] = req[s] BY <3>1, Others
    <3>4. \A s \in Requests : pc[s] = "load" => (s \in Sharers(c) <=> req[s].call = c) BY DEF Sharers
    <3>5. Shared BY <3>1, <3>2, <3>3, <3>4, <1>0
    <3>6. Listed BY <3>1, <3>3, <3>4, <1>0
    <3>7. First BY <3>1, <3>2, <3>3, <1>3 DEF Quiet, Waiting
    <3> QED BY <3>5, <3>6, <3>7
  <2>3. ASSUME NEW c \in Calls, LoadFailStep(c) PROVE Shared /\ Listed /\ First
    <3>1. /\ Stay(Sharers(c)) /\ known' = known /\ loading' = loading \ {c}
          /\ \A s \in Sharers(c) : pc'[s] \in {"done", "attached"}
      BY <2>3 DEF LoadFailStep, Ends
    <3>3. \A s \in Requests \ Sharers(c) : pc'[s] = pc[s] /\ req'[s] = req[s] BY <3>1, Others
    <3>4. \A s \in Requests : pc[s] = "load" => (s \in Sharers(c) <=> req[s].call = c) BY DEF Sharers
    <3>5. Shared BY <3>1, <3>3, <3>4, <1>0
    <3>6. Listed BY <3>1, <3>3, <3>4, <1>0
    <3>7. First BY <3>1, <3>3, <1>3
    <3> QED BY <3>5, <3>6, <3>7
  <2>4. ASSUME NEW k, NEW q, NEW S \in SUBSET Requests, TurnStep(k, q, S) PROVE Shared /\ Listed /\ First
    <3>1. /\ Stay(S) /\ known' = known /\ loading' = loading
          /\ \A s \in S : pc[s] # "load" /\ pc'[s] \in {"done", "attached"}
      BY <2>4 DEF TurnStep, Ends
    <3>2. Shared /\ Listed BY <3>1, <1>1
    <3>3. First BY <3>1, <1>3, Others
    <3> QED BY <3>2, <3>3
  <2>5. CASE UNCHANGED <<pc, req>> /\ othersAsIs
    BY <2>5, <1>0, <1>3 DEF othersAsIs
  <2> HIDE DEF Shared, Listed, First
  <2> QED BY <2>1, <2>2, <2>3, <2>4, <2>5, StepsSplit DEF SomeMove
<1>4. Shared /\ Listed /\ First
  <2> HIDE DEF Shared, Listed, First
  <2> QED BY <1>2, <1>3
<1> QED BY <1>4 DEF Loads, Known, Waiting, Sharers

(* A call that waits for the index is in neither place, and one request adds it. *)
LEMMA RestoredKept ==
  ASSUME Types, Asked, Restored, AnyStep
  PROVE  Restored'
<1> DEFINE P == \A s \in Requests : pc'[s] = "reindex" =>
                  /\ req'[s].call \notin trashed' \cup index'
                  /\ \A t \in Requests : pc'[t] = "reindex" /\ req'[t].call = req'[s].call => t = s
<1>0. /\ \A s \in Requests : pc[s] = "reindex" =>
           /\ req[s].call \notin trashed \cup index /\ req[s].call \in Made
           /\ \A t \in Requests : pc[t] = "reindex" /\ req[t].call = req[s].call => t = s
  BY DEF Restored, Asked, AskedOf
<1>1. ASSUME NEW S \in SUBSET Requests, Stay(S), \A s \in S : pc'[s] # "reindex",
             \A s \in Requests \ S : pc[s] = "reindex" => req[s].call \notin trashed' \cup index'
      PROVE  P
  <2>1. \A s \in Requests : pc'[s] = "reindex" => s \notin S /\ pc[s] = "reindex" /\ req'[s] = req[s]
    BY <1>1, Others
  <2> QED BY <1>0, <1>1, <2>1
<1>2. ASSUME NEW r \in Requests, OneMoves(r) PROVE P
  <2>1. Stay({r}) BY <1>2, OneStays
  <2>2. ASSUME NEW c \in Calls, RestoreStep(r, c) PROVE P
    <3>1. /\ c = req[r].call /\ c \in trashed \ index /\ trashed' = trashed \ {c} /\ index' = index
          /\ pc'[r] = "reindex" /\ req'[r] = req[r]
      BY <2>2 DEF RestoreStep, MovesOn
    <3>2. \A s \in Requests \ {r} : pc'[s] = pc[s] /\ req'[s] = req[s] BY <2>1, Others
    <3>3. \A s \in Requests \ {r} : pc'[s] = "reindex" =>
            req[s].call # c /\ req[s].call \notin trashed' \cup index'
      BY <3>1, <3>2, <1>0
    <3> QED BY <3>1, <3>2, <3>3, <1>0
  <2>3. ASSUME NEW c \in Calls, ReindexStep(r, c) PROVE P
    <3>1. /\ c = req[r].call /\ pc[r] = "reindex" /\ index' = index \cup {c} /\ trashed' = trashed
          /\ pc'[r] # "reindex"
      BY <2>3 DEF ReindexStep, Ends
    <3>2. \A s \in Requests \ {r} : pc[s] = "reindex" => req[s].call \notin trashed' \cup index'
      BY <3>1, <1>0
    <3> QED BY <3>1, <3>2, <2>1, <1>1
  <2>4. ASSUME NEW c \in Calls, MoveStep(r, c) \/ TrashStep(r, c) PROVE P
    <3>1. /\ c \in index /\ index' \subseteq index /\ trashed' \subseteq trashed \cup {c}
          /\ pc'[r] # "reindex"
      BY <2>4 DEF MoveStep, TrashStep, Ends, Relocatable
    <3>2. \A s \in Requests \ {r} : pc[s] = "reindex" => req[s].call \notin trashed' \cup index'
      BY <3>1, <1>0
    <3> QED BY <3>1, <3>2, <2>1, <1>1
  <2>5. ASSUME NEW c \in Calls, FolderStep(r, c) PROVE P
    <3>1. /\ c \notin Made /\ index' = index \cup {c} /\ trashed' = trashed /\ pc'[r] # "reindex"
      BY <2>5 DEF FolderStep, Moves
    <3>2. \A s \in Requests \ {r} : pc[s] = "reindex" => req[s].call \notin trashed' \cup index'
      BY <3>1, <1>0
    <3> QED BY <3>1, <3>2, <2>1, <1>1
  <2>6. CASE ~\E c \in Calls : \/ RestoreStep(r, c) \/ ReindexStep(r, c) \/ MoveStep(r, c)
                               \/ TrashStep(r, c) \/ FolderStep(r, c)
    <3>1. index' = index /\ trashed' = trashed /\ pc'[r] # "reindex"
      BY <1>2, <2>6 DEF OneMoves, RefuseStep, ArriveStep, SettleStep, AttachStep, ReserveStep,
        FolderFailStep, OpenStep, KnowStep, RestartStep, HoldStep, ReleaseStep, Ends, Moves, MovesOn,
        othersAsIs
    <3> QED BY <3>1, <2>1, <1>0, <1>1
  <2> HIDE DEF P
  <2> QED BY <2>2, <2>3, <2>4, <2>5, <2>6
<1>3. ASSUME SomeMove PROVE P
  <2>1. ASSUME NEW c \in Calls, LoadStep(c) \/ LoadFailStep(c) PROVE P
    <3>1. /\ Stay(Sharers(c)) /\ Sharers(c) \in SUBSET Requests /\ UNCHANGED <<index, trashed>>
          /\ \A s \in Sharers(c) : pc'[s] # "reindex"
      BY <2>1 DEF LoadStep, LoadFailStep, Ends, Sharers
    <3> QED BY <3>1, <1>0, <1>1
  <2>2. ASSUME NEW k, NEW q, NEW S \in SUBSET Requests, TurnStep(k, q, S) PROVE P
    <3>1. Stay(S) /\ UNCHANGED <<index, trashed>> /\ \A s \in S : pc'[s] # "reindex"
      BY <2>2 DEF TurnStep, Ends
    <3> QED BY <3>1, <1>0, <1>1
  <2> HIDE DEF P
  <2> QED BY <1>3, <2>1, <2>2 DEF SomeMove
<1>4. ASSUME UNCHANGED <<pc, req>>, othersAsIs PROVE P BY <1>0, <1>4 DEF othersAsIs
<1>5. P
  <2> HIDE DEF P
  <2> QED BY <1>2, <1>3, <1>4, StepsSplit
<1> QED BY <1>5 DEF Restored

-----------------------------------------------------------------------------
(* Controllers.                                                              *)

Early == {"new", "wait", "go", "folder", "load"}

(* A request that could have made its controller stays one that could.       *)
LEMMA PastGrows ==
  ASSUME Types, AnyStep
  PROVE  Past \subseteq Past'
<1>0. \A s \in Requests : s \in Past <=> pc[s] \notin Early BY DEF Past, Early
<1>1. \A s \in Requests : s \in Past' <=> pc'[s] \notin Early BY DEF Past, Early
<1>2. ASSUME NEW S \in SUBSET Requests, Stay(S), \A s \in S : pc'[s] \in Early => pc[s] \in Early
      PROVE  Past \subseteq Past'
  <2>1. \A s \in Requests : pc'[s] \in Early => pc[s] \in Early BY <1>2, Others
  <2> QED BY <2>1, <1>0, <1>1 DEF Past
<1>3. ASSUME NEW r \in Requests, OneMoves(r) PROVE Past \subseteq Past'
  <2>1. Stay({r}) BY <1>3, OneStays
  <2>2. pc'[r] \in Early => pc[r] \in Early
    BY <1>3 DEF OneMoves, RefuseStep, ArriveStep, SettleStep, AttachStep, ReserveStep,
      FolderFailStep, OpenStep, KnowStep, FolderStep, MoveStep, TrashStep, RestoreStep, ReindexStep,
      RestartStep, HoldStep, ReleaseStep, Ends, Moves, MovesOn, Free, Waiting, Early
  <2> QED BY <2>1, <2>2, <1>2
<1>4. ASSUME SomeMove PROVE Past \subseteq Past'
  <2>1. ASSUME NEW c \in Calls, LoadStep(c) \/ LoadFailStep(c) PROVE Past \subseteq Past'
    <3>1. /\ Stay(Sharers(c)) /\ Sharers(c) \in SUBSET Requests
          /\ \A s \in Sharers(c) : pc'[s] \notin Early
      BY <2>1 DEF LoadStep, LoadFailStep, Ends, Sharers, Early
    <3> QED BY <3>1, <1>2
  <2>2. ASSUME NEW k, NEW q, NEW S \in SUBSET Requests, TurnStep(k, q, S) PROVE Past \subseteq Past'
    <3>1. Stay(S) /\ \A s \in S : pc'[s] \notin Early BY <2>2 DEF TurnStep, Ends, Early
    <3> QED BY <3>1, <1>2
  <2> QED BY <1>4, <2>1, <2>2 DEF SomeMove
<1>5. ASSUME UNCHANGED <<pc, req>> PROVE Past \subseteq Past' BY <1>5 DEF Past
<1> QED BY <1>3, <1>4, <1>5, StepsSplit

(* A step makes a controller, changes one or leaves all as they are.         *)
LEMMA CtlSteps ==
  ASSUME AnyStep
  PROVE  \/ \E r \in Requests, c \in Calls : FolderStep(r, c)
         \/ \E c \in Calls : LoadStep(c)
         \/ \E r \in Requests, k \in Ctls : RestartStep(r, k) \/ HoldStep(r, k) \/ ReleaseStep(r, k)
         \/ \E k \in Ctls, q \in Phases, S \in SUBSET Requests : TurnStep(k, q, S)
         \/ UNCHANGED <<ctl, lock>>
<1>1. ASSUME NEW r \in Requests,
             \/ RefuseStep(r) \/ ArriveStep(r) \/ SettleStep(r) \/ AttachStep(r) \/ ReserveStep(r)
             \/ FolderFailStep(r) \/ OpenStep(r) \/ KnowStep(r)
             \/ \E c \in Calls : \/ MoveStep(r, c) \/ TrashStep(r, c)
                                 \/ RestoreStep(r, c) \/ ReindexStep(r, c)
      PROVE  UNCHANGED <<ctl, lock>>
  BY <1>1 DEF RefuseStep, ArriveStep, SettleStep, AttachStep, ReserveStep, FolderFailStep,
     OpenStep, KnowStep, MoveStep, TrashStep, RestoreStep, ReindexStep, othersAsIs
<1>2. ASSUME NEW c, LoadFailStep(c) PROVE UNCHANGED <<ctl, lock>> BY <1>2 DEF LoadFailStep
<1>3. othersAsIs => UNCHANGED <<ctl, lock>> BY DEF othersAsIs
<1> QED BY <1>1, <1>2, <1>3 DEF AnyStep

(* Controllers and past requests can be counted.                             *)
LEMMA CountUsed ==
  ASSUME Types
  PROVE  /\ Used \in SUBSET (1..Cardinality(Requests)) /\ IsFiniteSet(Used)
         /\ Cardinality(Used) \in Nat
         /\ Past \in SUBSET Requests /\ IsFiniteSet(Past) /\ Cardinality(Past) \in Nat
<1>1. Cardinality(Requests) \in Nat BY ConstantTypes
<1>2. IsFiniteSet(1..Cardinality(Requests)) BY <1>1, FS_Interval
<1>3. Used \in SUBSET (1..Cardinality(Requests)) BY DEF Used, Ctls
<1>4. Past \in SUBSET Requests BY DEF Past
<1> QED BY <1>2, <1>3, <1>4, RequestsAssumption, FS_Subset, FS_CardinalityType

(* Controllers are made one by one, each for a request, after every step.    *)
LEMMA OneEachKept ==
  ASSUME Types, Asked, Loads, OneEach, AnyStep
  PROVE  OneEach'
<1> DEFINE n == Cardinality(Used)
           m == Cardinality(Past)
<1>0. /\ Used = 1..n /\ n <= m /\ n \in Nat /\ m \in Nat /\ \A k \in Used : ctl[k].call \in Made
  BY CountUsed DEF OneEach
<1>1. /\ Made \subseteq Made' /\ \A j \in Used : ctl'[j].call = ctl[j].call BY StepsGrow DEF Grows
<1>2. Past \subseteq Past' BY PastGrows
<1>3. Past' \in SUBSET Requests /\ IsFiniteSet(Past') /\ Cardinality(Past') \in Nat
  <2>1. Past' \in SUBSET Requests BY DEF Past
  <2> QED BY <2>1, RequestsAssumption, FS_Subset, FS_CardinalityType
<1>4. m <= Cardinality(Past') BY <1>2, <1>3, FS_Subset
<1>5. ASSUME Used' = Used PROVE OneEach'
  <2>1. \A k \in Used' : ctl'[k].call \in Made' BY <1>0, <1>1, <1>5
  <2>2. Cardinality(Used') <= Cardinality(Past')
    <3> DEFINE p == Cardinality(Past')
    <3>1. p \in Nat /\ m <= p BY <1>3, <1>4
    <3>2. Cardinality(Used') = n BY <1>5
    <3> HIDE DEF p, n, m
    <3>3. n <= p BY <3>1, <1>0
    <3> QED BY <3>2, <3>3 DEF p
  <2>3. Used' = 1..Cardinality(Used') BY <1>5, <1>0
  <2> QED BY <2>1, <2>2, <2>3 DEF OneEach
<1>6. ASSUME NEW c \in Made', NEW d, NEW q, NEW w, CtlMade(NextCtl, c, d, q, w),
             NEW r \in Requests, r \notin Past, r \in Past'
      PROVE  OneEach'
  <2>1. /\ Used' = Used \cup {n + 1} /\ n + 1 \notin Used
        /\ \A j \in Used : ctl'[j] = ctl[j]
        /\ ctl'[n + 1].call = c
    BY <1>6 DEF CtlMade, NextCtl
  <2>2. IsFiniteSet(Used) BY CountUsed
  <2>3. Cardinality(Used') = n + 1 BY <2>1, <2>2, FS_AddElement
  <2>4. Used' = 1..(n + 1)
    <3> HIDE DEF n, m
    <3> QED BY <2>1, <1>0
  <2>5. Cardinality(Past \cup {r}) = m + 1 BY <1>6, CountUsed, FS_AddElement
  <2>6. Cardinality(Past \cup {r}) <= Cardinality(Past') BY <1>2, <1>3, <1>6, FS_Subset
  <2>7. \A k \in Used' : ctl'[k].call \in Made' BY <2>1, <1>0, <1>1
  <2>8. Cardinality(Used') <= Cardinality(Past')
    <3> DEFINE p == Cardinality(Past')
    <3>1. p \in Nat /\ m + 1 <= p BY <2>5, <2>6, <1>3
    <3> HIDE DEF p, n, m
    <3>2. n + 1 <= p BY <3>1, <1>0
    <3> QED BY <3>2, <2>3 DEF p
  <2> QED BY <2>3, <2>4, <2>7, <2>8 DEF OneEach
<1>7. ASSUME NEW r \in Requests, NEW c \in Calls, FolderStep(r, c) PROVE OneEach'
  <2>1. CtlMade(NextCtl, c, <<req[r].to, FALSE>>, "starting", TRUE) BY <1>7 DEF FolderStep
  <2>2. r \notin Past /\ r \in Past' BY <1>7 DEF FolderStep, Moves, Past
  <2>3. c \in Made'
    <3>1. req[r].to \in Workspaces BY <1>7 DEF FolderStep, Asked, AskedOf
    <3>2. Made' = Made \cup {c} BY <3>1, <1>7, HomeSet DEF FolderStep, Types
    <3> QED BY <3>2
  <2> QED BY <2>1, <2>2, <2>3, <1>6
<1>8. ASSUME NEW c \in Calls, LoadStep(c) PROVE OneEach'
  <2>1. CtlMade(NextCtl, c, DirOf(c), "over", FALSE) BY <1>8 DEF LoadStep
  <2>2. PICK r \in Requests : pc[r] = "load" /\ req[r].call = c BY <1>8 DEF LoadStep, Loads, Sharers
  <2>3. pc'[r] = "loaded" BY <1>8, <2>2 DEF LoadStep, Sharers
  <2>4. r \notin Past /\ r \in Past' BY <2>2, <2>3 DEF Past
  <2>5. c \in Made' BY <1>8, <1>1 DEF LoadStep, Types
  <2> QED BY <2>1, <2>4, <2>5, <1>6
<1>9. ASSUME NEW k, NEW q, NEW h, NEW w, CtlNow(k, q, h, w) PROVE OneEach' BY <1>9, <1>5 DEF CtlNow
<1>10. ASSUME UNCHANGED ctl PROVE OneEach' BY <1>10, <1>5 DEF Used
<1>11. ASSUME NEW r \in Requests, NEW k \in Ctls, RestartStep(r, k) \/ HoldStep(r, k) \/ ReleaseStep(r, k)
       PROVE  OneEach'
  BY <1>9, <1>11 DEF RestartStep, HoldStep, ReleaseStep
<1>12. ASSUME NEW k, NEW q, NEW S, TurnStep(k, q, S) PROVE OneEach' BY <1>9, <1>12 DEF TurnStep
<1> QED BY <1>7, <1>8, <1>10, <1>11, <1>12, CtlSteps

(* Holds.                                                                    *)
HoldsOf(k) ==
  /\ ctl[k].holds = Cardinality(Holders(k))
  /\ ctl[k].holds > 0 => ctl[k].writer

(* Who holds is one that held, unless it starts or stops to.                 *)
LEMMA HoldersStay ==
  ASSUME NEW S \in SUBSET Requests, Stay(S), \A s \in S : pc[s] # "holding" /\ pc'[s] # "holding", NEW k
  PROVE  Holders(k)' = Holders(k)
BY Others DEF Holders

(* Only a hold and a release change who holds a controller.                  *)
LEMMA HoldersKept ==
  ASSUME Types, AnyStep, ~\E r \in Requests, k \in Ctls : HoldStep(r, k) \/ ReleaseStep(r, k), NEW k
  PROVE  Holders(k)' = Holders(k)
<1>1. ASSUME NEW r \in Requests, OneMoves(r) PROVE Holders(k)' = Holders(k)
  <2>1. Stay({r}) BY <1>1, OneStays
  <2>2. pc[r] # "holding" /\ pc'[r] # "holding"
    BY <1>1 DEF OneMoves, RefuseStep, ArriveStep, SettleStep, AttachStep, ReserveStep,
      FolderFailStep, OpenStep, KnowStep, FolderStep, MoveStep, TrashStep, RestoreStep, ReindexStep,
      RestartStep, Ends, Moves, MovesOn, Free, Waiting
  <2> QED BY <2>1, <2>2, HoldersStay
<1>2. ASSUME NEW c \in Calls, LoadStep(c) \/ LoadFailStep(c) PROVE Holders(k)' = Holders(k)
  <2>1. /\ Stay(Sharers(c)) /\ Sharers(c) \in SUBSET Requests
        /\ \A s \in Sharers(c) : pc[s] # "holding" /\ pc'[s] # "holding"
    BY <1>2 DEF LoadStep, LoadFailStep, Ends, Sharers
  <2> QED BY <2>1, HoldersStay
<1>3. ASSUME NEW j, NEW q, NEW S \in SUBSET Requests, TurnStep(j, q, S) PROVE Holders(k)' = Holders(k)
  <2>1. Stay(S) /\ \A s \in S : pc[s] # "holding" /\ pc'[s] # "holding" BY <1>3 DEF TurnStep, Ends
  <2> QED BY <2>1, HoldersStay
<1>4. ASSUME UNCHANGED <<pc, req>> PROVE Holders(k)' = Holders(k) BY <1>4 DEF Holders
<1> QED BY <1>1, <1>2, <1>3, <1>4, StepsSplit DEF SomeMove

(* Every hold is counted, and keeps the writer, after every step.            *)
LEMMA HoldsKept ==
  ASSUME Types, Asked, HoldsCounted, AnyStep
  PROVE  HoldsCounted'
<1> DEFINE P(k) == /\ ctl'[k].holds = Cardinality(Holders(k)')
                   /\ ctl'[k].holds > 0 => ctl'[k].writer
<1>0. \A k \in Used : HoldsOf(k) BY DEF HoldsCounted, HoldsOf
<1>1. ASSUME NEW k \in Used, ctl'[k] = ctl[k], Holders(k)' = Holders(k) PROVE P(k)
  BY <1>0, <1>1 DEF HoldsOf
<1>2. ASSUME NEW r \in Requests, NEW k \in Ctls, HoldStep(r, k) PROVE \A j \in Used' : P(j)
  <2>1. /\ pc[r] = "ready" /\ pc'[r] = "holding" /\ req'[r] = req[r] /\ k = req[r].ctl /\ k \in Used
        /\ Stay({r}) /\ CtlNow(k, ctl[k].phase, ctl[k].holds + 1, TRUE)
    BY <1>2 DEF HoldStep, MovesOn
  <2>2. \A s \in Requests \ {r} : pc'[s] = pc[s] /\ req'[s] = req[s] BY <2>1, Others
  <2>3. Holders(k)' = Holders(k) \cup {r} /\ r \notin Holders(k) BY <2>1, <2>2 DEF Holders
  <2>4. \A j \in Used \ {k} : Holders(j)' = Holders(j) BY <2>1, <2>2 DEF Holders
  <2>5. IsFiniteSet(Holders(k)) /\ ctl[k].holds = Cardinality(Holders(k)) BY <2>1, HoldRoom
  <2>6. Cardinality(Holders(k)') = ctl[k].holds + 1 BY <2>3, <2>5, FS_AddElement
  <2>7. Used' = Used /\ ctl'[k].holds = ctl[k].holds + 1 /\ ctl'[k].writer = TRUE
        /\ \A j \in Used : j # k => ctl'[j] = ctl[j]
    BY <2>1 DEF CtlNow
  <2>8. P(k) BY <2>6, <2>7
  <2>9. \A j \in Used \ {k} : P(j) BY <2>4, <2>7, <1>1
  <2> HIDE DEF P
  <2> QED BY <2>7, <2>8, <2>9
<1>3. ASSUME NEW r \in Requests, NEW k \in Ctls, ReleaseStep(r, k) PROVE \A j \in Used' : P(j)
  <2>1. /\ pc[r] = "holding" /\ pc'[r] # "holding" /\ k = req[r].ctl /\ k \in Used
        /\ Stay({r}) /\ CtlNow(k, ctl[k].phase, ctl[k].holds - 1, ~LastHold(k))
    BY <1>3 DEF ReleaseStep, Ends
  <2>2. \A s \in Requests \ {r} : pc'[s] = pc[s] /\ req'[s] = req[s] BY <2>1, Others
  <2>3. Holders(k)' = Holders(k) \ {r} /\ r \in Holders(k) BY <2>1, <2>2 DEF Holders
  <2>4. \A j \in Used \ {k} : Holders(j)' = Holders(j) BY <2>1, <2>2 DEF Holders
  <2>5. /\ IsFiniteSet(Holders(k)) /\ ctl[k].holds = Cardinality(Holders(k)) /\ ctl[k].holds \in Nat
        /\ ctl[k].writer
    BY <2>1, <2>3, HoldRoom
  <2>6. Cardinality(Holders(k)') = ctl[k].holds - 1
    <3>1. Cardinality(Holders(k) \ {r}) = Cardinality(Holders(k)) - 1 BY <2>3, <2>5, FS_RemoveElement
    <3> QED BY <3>1, <2>3, <2>5
  <2>7. Used' = Used /\ ctl'[k].holds = ctl[k].holds - 1 /\ ctl'[k].writer = ~LastHold(k)
        /\ \A j \in Used : j # k => ctl'[j] = ctl[j]
    BY <2>1 DEF CtlNow
  <2>8. ctl'[k].holds > 0 => ctl[k].holds # 1 BY <2>5, <2>7
  <2>9. ctl'[k].holds > 0 => ctl'[k].writer
    <3> SUFFICES ASSUME ctl'[k].holds > 0 PROVE ctl'[k].writer OBVIOUS
    <3>1. ~LastHold(k) BY <2>8 DEF LastHold
    <3> QED BY <3>1, <2>7
  <2>10. P(k) BY <2>6, <2>7, <2>9
  <2>11. \A j \in Used \ {k} : P(j) BY <2>4, <2>7, <1>1
  <2> HIDE DEF P
  <2> QED BY <2>7, <2>10, <2>11
<1>4. ASSUME ~\E r \in Requests, k \in Ctls : HoldStep(r, k) \/ ReleaseStep(r, k)
      PROVE  \A j \in Used' : P(j)
  <2>0. \A j : Holders(j)' = Holders(j) BY <1>4, HoldersKept
  <2>1. ASSUME NEW k \in Used, NEW q, NEW w, CtlNow(k, q, ctl[k].holds, w), ctl[k].holds > 0 => w
        PROVE  \A j \in Used' : P(j)
    <3>1. /\ Used' = Used /\ \A j \in Used : j # k => ctl'[j] = ctl[j]
          /\ ctl'[k].holds = ctl[k].holds /\ ctl'[k].writer = w
      BY <2>1 DEF CtlNow
    <3>2. P(k) BY <3>1, <2>0, <2>1, <1>0 DEF HoldsOf
    <3>3. \A j \in Used \ {k} : P(j) BY <3>1, <2>0, <1>1
    <3> HIDE DEF P
    <3> QED BY <3>1, <3>2, <3>3
  <2>2. ASSUME NEW c, NEW d, NEW q, NEW w, CtlMade(NextCtl, c, d, q, w) PROVE \A j \in Used' : P(j)
    <3>0. PICK n : n = NextCtl OBVIOUS
    <3>1. /\ Used' = Used \cup {n} /\ n \notin Used /\ \A j \in Used : ctl'[j] = ctl[j]
          /\ ctl'[n].holds = 0
      BY <3>0, <2>2 DEF CtlMade
    <3>2. \A j \in Used : P(j) BY <3>1, <2>0, <1>1
    <3>3. Holders(n) = {} BY <3>1 DEF Holders, Asked, AskedOf
    <3>4. Holders(n)' = {} BY <3>3, <2>0
    <3>5. P(n)
      <4>1. Cardinality(Holders(n)') = 0 BY <3>4, FS_EmptySet
      <4> QED BY <4>1, <3>1
    <3> HIDE DEF P
    <3> QED BY <3>1, <3>2, <3>5
  <2>3. ASSUME NEW r \in Requests, NEW k \in Ctls, RestartStep(r, k) PROVE \A j \in Used' : P(j)
    <3>1. k \in Used /\ CtlNow(k, "starting", ctl[k].holds, TRUE) BY <2>3 DEF RestartStep
    <3> HIDE DEF P
    <3> QED BY <3>1, <2>1
  <2>4. ASSUME NEW k, NEW q, NEW S, TurnStep(k, q, S) PROVE \A j \in Used' : P(j)
    <3> DEFINE w == ctl[k].writer /\ ~Closing(k, q)
    <3>1. k \in Used /\ CtlNow(k, q, ctl[k].holds, w) BY <2>4 DEF TurnStep
    <3>2. ctl[k].holds > 0 => w BY <3>1, <1>0 DEF HoldsOf, Closing
    <3> HIDE DEF P, w
    <3> QED BY <3>1, <3>2, <2>1
  <2>5. ASSUME UNCHANGED ctl PROVE \A j \in Used' : P(j)
    <3>1. Used' = Used BY <2>5 DEF Used
    <3> QED BY <3>1, <2>0, <2>5, <1>1
  <2>6. ASSUME NEW r, NEW c, FolderStep(r, c) PROVE \A j \in Used' : P(j)
    BY <2>2, <2>6 DEF FolderStep
  <2>7. ASSUME NEW c, LoadStep(c) PROVE \A j \in Used' : P(j) BY <2>2, <2>7 DEF LoadStep
  <2> HIDE DEF P
  <2> QED BY <1>4, <2>3, <2>4, <2>5, <2>6, <2>7, CtlSteps
<1>5. \A j \in Used' : P(j)
  <2> HIDE DEF P
  <2> QED BY <1>2, <1>3, <1>4
<1> QED BY <1>5 DEF HoldsCounted

(* Locks: a writer's is in its call's folder.                                *)
LEMMA LocksHeldKept ==
  ASSUME Types, Asked, OneEach, HoldsCounted, LocksHeld, AnyStep
  PROVE  LocksHeld'
<1> DEFINE P(k) == ctl'[k].writer => lock'[ctl'[k].call] = k
<1>0. /\ lock \in [Calls -> Ctls \cup {NoCtl}] /\ \A j \in Used : ctl[j].call \in Calls
      /\ \A j \in Used : ctl[j].call \in Made
      /\ \A j \in Used : ctl[j].writer => lock[ctl[j].call] = j
  BY UsedAre DEF Types, LocksHeld, OneEach
<1>1. ASSUME NEW k \in Used, NEW q, NEW h, NEW w, CtlNow(k, q, h, w),
             w => lock'[ctl[k].call] = k,
             \A c \in Calls : lock'[c] # lock[c] => c = ctl[k].call /\ lock[c] \in {k, NoCtl}
      PROVE  \A j \in Used' : P(j)
  <2>1. /\ Used' = Used /\ \A j \in Used : j # k => ctl'[j] = ctl[j]
        /\ ctl'[k].call = ctl[k].call /\ ctl'[k].writer = w
    BY <1>1 DEF CtlNow
  <2>2. P(k) BY <2>1, <1>1
  <2>3. ASSUME NEW j \in Used, j # k PROVE P(j)
    <3>1. SUFFICES ASSUME ctl[j].writer PROVE lock'[ctl[j].call] = j BY <2>1, <2>3
    <3>2. lock[ctl[j].call] = j /\ ctl[j].call \in Calls /\ j # NoCtl
      BY <1>0, <3>1, ConstantTypes DEF Used
    <3> QED BY <3>2, <2>3, <1>1
  <2> HIDE DEF P
  <2> QED BY <2>1, <2>2, <2>3
<1>2. ASSUME NEW k \in Used, CanWrite(k), lock' = Locked(k)
      PROVE  /\ lock'[ctl[k].call] = k
             /\ \A c \in Calls : lock'[c] # lock[c] => c = ctl[k].call /\ lock[c] \in {k, NoCtl}
  <2>1. CASE ctl[k].writer
    <3>1. lock' = lock BY <1>0, <1>2, <2>1 DEF Locked
    <3> QED BY <3>1, <1>0, <2>1
  <2>2. CASE ~ctl[k].writer
    <3>1. lock' = [lock EXCEPT ![ctl[k].call] = k] BY <1>2, <2>2 DEF Locked
    <3>2. lock[ctl[k].call] = NoCtl BY <1>2, <2>2 DEF CanWrite
    <3> QED BY <3>1, <3>2, <1>0
  <2> QED BY <2>1, <2>2
<1>3. ASSUME NEW k \in Used, ctl[k].writer, NEW dir, lock' = Unlocked(ctl[k].call, dir)
      PROVE  \A c \in Calls : lock'[c] # lock[c] => c = ctl[k].call /\ lock[c] \in {k, NoCtl}
  <2>1. lock' = lock \/ lock' = [lock EXCEPT ![ctl[k].call] = NoCtl] BY <1>3 DEF Unlocked
  <2>2. lock[ctl[k].call] = k BY <1>0, <1>3
  <2> QED BY <2>1, <2>2, <1>0
<1>4. ASSUME NEW r \in Requests, NEW c \in Calls, FolderStep(r, c) PROVE \A j \in Used' : P(j)
  <2>0. PICK n : n = NextCtl OBVIOUS
  <2>1. /\ Used' = Used \cup {n} /\ n \notin Used /\ \A j \in Used : ctl'[j] = ctl[j]
        /\ ctl'[n].call = c /\ lock' = [lock EXCEPT ![c] = n] /\ c \in Calls \ Made
    BY <2>0, <1>4 DEF FolderStep, CtlMade
  <2>2. P(n) BY <2>1, <1>0
  <2>3. \A j \in Used : P(j) BY <2>1, <1>0
  <2> HIDE DEF P
  <2> QED BY <2>1, <2>2, <2>3
<1>5. ASSUME NEW c \in Calls, LoadStep(c) PROVE \A j \in Used' : P(j)
  <2>0. PICK n : n = NextCtl OBVIOUS
  <2>1. /\ Used' = Used \cup {n} /\ n \notin Used /\ \A j \in Used : ctl'[j] = ctl[j]
        /\ ctl'[n].writer = FALSE /\ lock' = lock
    BY <2>0, <1>5 DEF LoadStep, CtlMade
  <2>2. P(n) BY <2>1
  <2>3. \A j \in Used : P(j) BY <2>1, <1>0
  <2> HIDE DEF P
  <2> QED BY <2>1, <2>2, <2>3
<1>6. ASSUME NEW r \in Requests, NEW k \in Ctls, RestartStep(r, k) \/ HoldStep(r, k)
      PROVE  \A j \in Used' : P(j)
  <2>1. /\ k \in Used /\ CanWrite(k) /\ lock' = Locked(k)
        /\ \E q, h : CtlNow(k, q, h, TRUE)
    BY <1>6 DEF RestartStep, HoldStep
  <2>2. PICK q, h : CtlNow(k, q, h, TRUE) BY <2>1
  <2>3. /\ lock'[ctl[k].call] = k
        /\ \A c \in Calls : lock'[c] # lock[c] => c = ctl[k].call /\ lock[c] \in {k, NoCtl}
    BY <2>1, <1>2
  <2> HIDE DEF P
  <2> QED BY <2>1, <2>2, <2>3, <1>1
<1>7. ASSUME NEW r \in Requests, NEW k \in Ctls, ReleaseStep(r, k) PROVE \A j \in Used' : P(j)
  <2> DEFINE w == ~LastHold(k)
  <2>1. /\ k \in Used /\ CtlNow(k, ctl[k].phase, ctl[k].holds - 1, w) /\ pc[r] = "holding"
        /\ k = req[r].ctl
        /\ lock' = IF LastHold(k) THEN Unlocked(ctl[k].call, ctl[k].dir) ELSE lock
    BY <1>7 DEF ReleaseStep
  <2>2. r \in Holders(k) BY <2>1 DEF Holders
  <2>3. ctl[k].writer BY <2>1, <2>2, HoldRoom
  <2>4. w => lock'[ctl[k].call] = k BY <2>1, <2>3, <1>0
  <2>5. \A c \in Calls : lock'[c] # lock[c] => c = ctl[k].call /\ lock[c] \in {k, NoCtl}
    BY <2>1, <2>3, <1>3
  <2> HIDE DEF P, w
  <2> QED BY <2>1, <2>4, <2>5, <1>1
<1>8. ASSUME NEW k, NEW q, NEW S, TurnStep(k, q, S) PROVE \A j \in Used' : P(j)
  <2> DEFINE w == ctl[k].writer /\ ~Closing(k, q)
  <2>1. /\ k \in Used /\ CtlNow(k, q, ctl[k].holds, w)
        /\ lock' = IF Closing(k, q) /\ ctl[k].writer THEN Unlocked(ctl[k].call, ctl[k].dir) ELSE lock
    BY <1>8 DEF TurnStep
  <2>2. w => lock'[ctl[k].call] = k BY <2>1, <1>0
  <2>3. \A c \in Calls : lock'[c] # lock[c] => c = ctl[k].call /\ lock[c] \in {k, NoCtl}
    BY <2>1, <1>3
  <2> HIDE DEF P, w
  <2> QED BY <2>1, <2>2, <2>3, <1>1
<1>9. ASSUME UNCHANGED <<ctl, lock>> PROVE \A j \in Used' : P(j)
  <2>1. Used' = Used BY <1>9 DEF Used
  <2> QED BY <2>1, <1>9, <1>0
<1>10. \A j \in Used' : P(j)
  <2> HIDE DEF P
  <2> QED BY <1>4, <1>5, <1>6, <1>7, <1>8, <1>9, CtlSteps
<1> QED BY <1>10 DEF LocksHeld

(* What the manager knows of is where it thinks.                             *)
LEMMA TurnsLive ==
  ASSUME NEW k, NEW q, <<ctl[k].phase, q>> \in OwnSteps \cup Stops, q \in LivePhases
  PROVE  Live(k)
BY DEF OwnSteps, Stops, LivePhases, Live

(* What the manager knows of is there, after every step.                     *)
LEMMA KnownHereKept ==
  ASSUME Types, Asked, Loads, OneEach, KnownHere, AnyStep
  PROVE  KnownHere'
<1> DEFINE P(c) == known'[c] # NoCtl => c \in index' /\ ctl'[known'[c]].dir = DirOf(c)'
           L(k) == ctl'[k].phase \in LivePhases => known'[ctl'[k].call] = k
           Goal == (\A c \in Calls : P(c)) /\ \A k \in Used' : L(k)
<1>0. /\ KnownTyped /\ \A c \in Calls : known[c] # NoCtl => c \in index /\ ctl[known[c]].dir = DirOf(c)
      /\ \A k \in Used : ctl[k].phase \in LivePhases => known[ctl[k].call] = k
      /\ \A k \in Used : ctl[k].call \in Made
      /\ \A k \in Used : k \in Ctls /\ k # NoCtl
      /\ index \subseteq Made \ trashed /\ trashed \subseteq Made /\ Made \subseteq Calls
      /\ loading \subseteq index
  BY KnownTypedIs, ConstantTypes DEF KnownHere, Known, Live, OneEach, Types, Used, Made
<1>1. /\ Used \subseteq Used' /\ \A j \in Used : ctl'[j].call = ctl[j].call /\ ctl'[j].dir = ctl[j].dir
  BY StepsGrow DEF Grows
<1>2. ASSUME NEW c \in Calls, home'[c] = home[c], trashed' = trashed PROVE DirOf(c)' = DirOf(c)
  BY <1>2 DEF DirOf
<1>3. ASSUME NEW c \in Calls, known'[c] = known[c], index \subseteq index', DirOf(c)' = DirOf(c) PROVE P(c)
  <2>1. SUFFICES ASSUME known[c] # NoCtl PROVE c \in index' /\ ctl'[known[c]].dir = DirOf(c)
    BY <1>3
  <2>2. known[c] \in Used BY <2>1, <1>0 DEF KnownTyped
  <2> QED BY <2>1, <2>2, <1>0, <1>1, <1>3
<1>4. ASSUME UNCHANGED <<home, trashed, index, known>> PROVE \A c \in Calls : P(c)
  <2> HIDE DEF P
  <2> QED BY <1>2, <1>3, <1>4
<1>5. ASSUME UNCHANGED <<ctl, known>> PROVE \A k \in Used' : L(k)
  <2>1. Used' = Used BY <1>5 DEF Used
  <2> QED BY <2>1, <1>0, <1>5
<1>6. ASSUME NEW k \in Used, NEW q, NEW h, NEW w, CtlNow(k, q, h, w), UNCHANGED known,
             q \in LivePhases => known[ctl[k].call] = k
      PROVE  \A j \in Used' : L(j)
  <2>1. /\ Used' = Used /\ \A j \in Used : j # k => ctl'[j] = ctl[j]
        /\ ctl'[k].call = ctl[k].call /\ ctl'[k].phase = q
    BY <1>6 DEF CtlNow
  <2> QED BY <2>1, <1>0, <1>6
<1>7. ASSUME NEW r \in Requests,
             \/ RefuseStep(r) \/ ArriveStep(r) \/ SettleStep(r) \/ AttachStep(r) \/ ReserveStep(r)
             \/ FolderFailStep(r) \/ OpenStep(r) \/ KnowStep(r)
      PROVE  Goal
  <2>1. UNCHANGED <<home, trashed, index, known, ctl>>
    BY <1>7 DEF RefuseStep, ArriveStep, SettleStep, AttachStep, ReserveStep, FolderFailStep, OpenStep,
      KnowStep, othersAsIs
  <2> HIDE DEF P, L
  <2> QED BY <2>1, <1>4, <1>5
<1>8. ASSUME NEW r \in Requests, NEW c \in Calls, FolderStep(r, c) PROVE Goal
  <2>0. PICK n : n = NextCtl OBVIOUS
  <2>1. /\ Used' = Used \cup {n} /\ n \notin Used /\ \A j \in Used : ctl'[j] = ctl[j]
        /\ ctl'[n].call = c /\ ctl'[n].dir = <<req[r].to, FALSE>>
        /\ known' = [known EXCEPT ![c] = n] /\ c \in Calls \ Made
        /\ home' = [home EXCEPT ![c] = req[r].to] /\ index' = index \cup {c} /\ trashed' = trashed
    BY <2>0, <1>8 DEF FolderStep, CtlMade
  <2>2. known'[c] = n /\ \A d \in Calls \ {c} : known'[d] = known[d] BY <2>1, <1>0 DEF KnownTyped
  <2>3. home'[c] = req[r].to /\ \A d \in Calls \ {c} : home'[d] = home[d] BY <2>1 DEF Types
  <2>4. DirOf(c)' = <<req[r].to, FALSE>>
    <3>1. (c \in trashed') = FALSE BY <2>1, <1>0
    <3> QED BY <3>1, <2>3 DEF DirOf
  <2>5. P(c) BY <2>1, <2>2, <2>4
  <2>6. \A d \in Calls \ {c} : P(d)
    <3> HIDE DEF P
    <3> QED BY <2>1, <2>2, <2>3, <1>2, <1>3
  <2>7. \A j \in Used : L(j) BY <2>1, <2>2, <1>0
  <2>8. L(n) BY <2>1, <2>2
  <2> HIDE DEF P, L
  <2> QED BY <2>1, <2>5, <2>6, <2>7, <2>8
<1>9. ASSUME NEW r \in Requests, NEW c \in Calls, MoveStep(r, c) \/ TrashStep(r, c), known' = Forget(c)
      PROVE  Goal
  <2>1. /\ c \in index /\ (known[c] # NoCtl => ~Busy(known[c])) /\ ctl' = ctl
        /\ index \ {c} \subseteq index' /\ \A d \in Calls \ {c} : home'[d] = home[d]
        /\ \A d \in Calls \ {c} : (d \in trashed') <=> (d \in trashed)
    BY <1>9 DEF MoveStep, TrashStep, Relocatable, Known, Types
  <2>2. known'[c] = NoCtl /\ \A d \in Calls \ {c} : known'[d] = known[d]
    BY <1>9, <1>0 DEF KnownTyped, Forget
  <2>3. P(c) BY <2>2
  <2>4. ASSUME NEW d \in Calls \ {c} PROVE P(d)
    <3>1. DirOf(d)' = DirOf(d)
      <4>1. (d \in trashed') = (d \in trashed) BY <2>1
      <4> QED BY <4>1, <2>1 DEF DirOf
    <3>2. SUFFICES ASSUME known[d] # NoCtl PROVE d \in index' /\ ctl'[known[d]].dir = DirOf(d)
      BY <2>2, <3>1
    <3> QED BY <3>2, <2>1, <1>0
  <2>5. Used' = Used BY <2>1 DEF Used
  <2>6. ASSUME NEW j \in Used PROVE L(j)
    <3>1. SUFFICES ASSUME ctl[j].phase \in LivePhases PROVE known'[ctl[j].call] = j BY <2>1
    <3>2. known[ctl[j].call] = j /\ ctl[j].call \in Calls /\ j # NoCtl BY <3>1, <1>0
    <3>3. ctl[j].call # c BY <3>1, <3>2, <2>1 DEF Busy
    <3> QED BY <3>2, <3>3, <2>2
  <2> HIDE DEF P, L
  <2> QED BY <2>3, <2>4, <2>5, <2>6
<1>10. ASSUME NEW r \in Requests, NEW c \in Calls, MoveStep(r, c), known' = known, home' = home
       PROVE  Goal
  <2>1. UNCHANGED <<home, trashed, index, known, ctl>> BY <1>10 DEF MoveStep
  <2> HIDE DEF P, L
  <2> QED BY <2>1, <1>4, <1>5
<1>11. ASSUME NEW r \in Requests, NEW c \in Calls, RestoreStep(r, c) PROVE Goal
  <2>1. /\ c \notin index /\ trashed' = trashed \ {c} /\ UNCHANGED <<home, index, ctl, known>>
    BY <1>11 DEF RestoreStep
  <2>2. known[c] = NoCtl BY <2>1, <1>0
  <2>3. P(c) BY <2>1, <2>2
  <2>4. ASSUME NEW d \in Calls \ {c} PROVE P(d)
    <3>1. (d \in trashed') = (d \in trashed) BY <2>1
    <3>2. DirOf(d)' = DirOf(d) BY <3>1, <2>1 DEF DirOf
    <3> HIDE DEF P
    <3> QED BY <3>2, <2>1, <1>3
  <2>5. \A k \in Used' : L(k) BY <2>1, <1>5
  <2> HIDE DEF P, L
  <2> QED BY <2>3, <2>4, <2>5
<1>12. ASSUME NEW r \in Requests, NEW c \in Calls, ReindexStep(r, c) PROVE Goal
  <2>1. index \subseteq index' /\ UNCHANGED <<home, trashed, ctl, known>> BY <1>12 DEF ReindexStep
  <2>2. \A d \in Calls : P(d)
    <3> HIDE DEF P
    <3> QED BY <2>1, <1>2, <1>3
  <2> HIDE DEF P, L
  <2> QED BY <2>1, <2>2, <1>5
<1>13. ASSUME NEW r \in Requests, NEW k \in Ctls, RestartStep(r, k) \/ HoldStep(r, k) \/ ReleaseStep(r, k)
       PROVE  Goal
  <2>1. UNCHANGED <<home, trashed, index, known>> /\ k \in Used
    BY <1>13 DEF RestartStep, HoldStep, ReleaseStep
  <2>2. CASE RestartStep(r, k)
    <3>1. /\ CtlNow(k, "starting", ctl[k].holds, TRUE) /\ k = known[req[r].call]
          /\ pc[r] \in {"go", "loaded"} /\ req[r].kind = "restart"
      BY <2>2 DEF RestartStep
    <3>2. req[r].call \in Calls BY <3>1 DEF Asked, AskedOf, Made
    <3>3. ctl[k].call = req[r].call BY <3>1, <3>2, <2>1, <1>0 DEF KnownTyped
    <3>4. \A j \in Used' : L(j)
      <4> HIDE DEF L
      <4> QED BY <3>1, <3>3, <2>1, <1>6
    <3> HIDE DEF P, L
    <3> QED BY <3>4, <2>1, <1>4
  <2>3. CASE HoldStep(r, k) \/ ReleaseStep(r, k)
    <3>1. \E h, w : CtlNow(k, ctl[k].phase, h, w) BY <2>3 DEF HoldStep, ReleaseStep
    <3>2. PICK h, w : CtlNow(k, ctl[k].phase, h, w) BY <3>1
    <3>3. ctl[k].phase \in LivePhases => known[ctl[k].call] = k BY <2>1, <1>0
    <3>4. \A j \in Used' : L(j)
      <4> HIDE DEF L
      <4> QED BY <3>2, <3>3, <2>1, <1>6
    <3> HIDE DEF P, L
    <3> QED BY <3>4, <2>1, <1>4
  <2> HIDE DEF P, L
  <2> QED BY <1>13, <2>2, <2>3
<1>14. ASSUME NEW c \in Calls, LoadStep(c) PROVE Goal
  <2>0. PICK n : n = NextCtl OBVIOUS
  <2>1. /\ Used' = Used \cup {n} /\ n \notin Used /\ \A j \in Used : ctl'[j] = ctl[j]
        /\ ctl'[n].call = c /\ ctl'[n].dir = DirOf(c) /\ ctl'[n].phase = "over"
        /\ known' = [known EXCEPT ![c] = n] /\ c \in loading /\ UNCHANGED <<home, trashed, index>>
    BY <2>0, <1>14 DEF LoadStep, CtlMade
  <2>2. known'[c] = n /\ \A d \in Calls \ {c} : known'[d] = known[d] BY <2>1, <1>0 DEF KnownTyped
  <2>3. known[c] = NoCtl BY <2>1 DEF Loads, Known
  <2>4. P(c)
    <3>1. DirOf(c)' = DirOf(c) BY <2>1 DEF DirOf
    <3> QED BY <3>1, <2>1, <2>2, <1>0
  <2>5. \A d \in Calls \ {c} : P(d)
    <3> HIDE DEF P
    <3> QED BY <2>1, <2>2, <1>2, <1>3
  <2>6. \A j \in Used : L(j) BY <2>1, <2>2, <2>3, <1>0
  <2>7. L(n) BY <2>1, <2>2
  <2> HIDE DEF P, L
  <2> QED BY <2>1, <2>4, <2>5, <2>6, <2>7
<1>15. ASSUME NEW c \in Calls, LoadFailStep(c) PROVE Goal
  <2>1. UNCHANGED <<home, trashed, index, known, ctl>> BY <1>15 DEF LoadFailStep
  <2> HIDE DEF P, L
  <2> QED BY <2>1, <1>4, <1>5
<1>16. ASSUME NEW k, NEW q, NEW S, TurnStep(k, q, S) PROVE Goal
  <2>1. PICK w : /\ UNCHANGED <<home, trashed, index, known>> /\ k \in Used
                 /\ CtlNow(k, q, ctl[k].holds, w) /\ <<ctl[k].phase, q>> \in OwnSteps \cup Stops
    BY <1>16 DEF TurnStep
  <2>2. q \in LivePhases => known[ctl[k].call] = k BY <2>1, <1>0, TurnsLive DEF Live
  <2>3. \A j \in Used' : L(j)
    <3> HIDE DEF L
    <3> QED BY <2>1, <2>2, <1>6
  <2> HIDE DEF P, L
  <2> QED BY <2>1, <2>3, <1>4
<1>17. ASSUME othersAsIs PROVE Goal
  <2>1. UNCHANGED <<home, trashed, index, known, ctl>> BY <1>17 DEF othersAsIs
  <2> HIDE DEF P, L
  <2> QED BY <2>1, <1>4, <1>5
<1>18. Goal
  <2>1. ASSUME NEW r \in Requests, NEW c \in Calls, MoveStep(r, c) \/ TrashStep(r, c) PROVE Goal
    BY <2>1, <1>9, <1>10 DEF MoveStep, TrashStep
  <2> HIDE DEF Goal
  <2> QED BY <2>1, <1>7, <1>8, <1>11, <1>12, <1>13, <1>14, <1>15, <1>16, <1>17 DEF AnyStep
<1> QED BY <1>18 DEF KnownHere, Known, Live

-----------------------------------------------------------------------------
(* The invariant, and what it says.                                          *)

(* The invariant holds at first.                                             *)
LEMMA AtFirst ==
  ASSUME Init
  PROVE  ManagerInv
<1>0. /\ home \in [Calls -> Workspaces \cup {"none"}] /\ Made \subseteq Calls
      /\ trashed = {} /\ index = Made /\ loading = {}
      /\ lock = [c \in Calls |-> NoCtl] /\ known = [c \in Calls |-> NoCtl]
      /\ ctl = [k \in Ctls |-> Unused] /\ stage = Nobody
      /\ opening = [c \in Calls |-> Nobody]
      /\ pc = [r \in Requests |-> "new"] /\ req = [r \in Requests |-> Blank]
  BY DEF Init, Made
<1>1. Types
  <2>1. "new" \in Steps BY DEF Steps
  <2> QED BY <1>0, <2>1, BlankTyped DEF Types
<1>2. Used = {} BY <1>0 DEF Used
<1>3. OneEach
  <2>1. Cardinality(Used) = 0 BY <1>2, FS_EmptySet
  <2>2. Cardinality(Past) \in Nat BY <1>1, CountUsed
  <2>3. 1..0 = {} OBVIOUS
  <2> QED BY <1>2, <2>1, <2>2, <2>3 DEF OneEach
<1>4. Blanks /\ Asked /\ Loads /\ Restored
  BY <1>0 DEF Blanks, Asked, AskedOf, Loads, Restored
<1>5. StageHeld BY <1>0, NobodyAssumption DEF StageHeld
<1>6. HoldsCounted /\ LocksHeld /\ KnownHere
  BY <1>0, <1>2 DEF HoldsCounted, LocksHeld, KnownHere, Known
<1> QED BY <1>1, <1>3, <1>4, <1>5, <1>6, TypesAre DEF ManagerInv

(* Every step keeps it.                                                      *)
LEMMA InvariantKept ==
  ASSUME ManagerInv, [Next]_vars
  PROVE  ManagerInv'
<1>1. /\ Types /\ Blanks /\ Asked /\ StageHeld /\ Loads /\ Restored /\ OneEach /\ HoldsCounted
      /\ LocksHeld /\ KnownHere
  BY TypesAre DEF ManagerInv
<1>2. AnyStep BY <1>1, StepsAre
<1>3. Types' BY <1>1, <1>2, TypesKept
<1>4. TypeOK' BY <1>3 DEF TypeOK, Types, RequestTypes
<1>5. Blanks' /\ Asked' /\ StageHeld' BY <1>1, <1>2, BlanksKept, AskedKept, StageHeldKept
<1>6. Loads' /\ Restored' BY <1>1, <1>2, LoadsKept, RestoredKept
<1>7. OneEach' /\ HoldsCounted' BY <1>1, <1>2, OneEachKept, HoldsKept
<1>8. LocksHeld' /\ KnownHere' BY <1>1, <1>2, LocksHeldKept, KnownHereKept
<1> QED BY <1>4, <1>5, <1>6, <1>7, <1>8 DEF ManagerInv

(* What the manager, its requests and its controllers know of each other in  *)
(* every reachable state, however many requests, calls and workspaces there  *)
(* are and whatever starts and restarts meet.                                *)
THEOREM ManagerInvariance == Spec => []ManagerInv
<1>1. Init => ManagerInv BY AtFirst
<1>2. ManagerInv /\ [Next]_vars => ManagerInv' BY InvariantKept
<1> QED BY <1>1, <1>2, PTL DEF Spec

(* Every variable of the manager keeps its type; what is trashed, indexed or *)
(* loaded is a call that was made, and a known controller is of its call.    *)
THEOREM ManagerTypeCorrect == Spec => []TypeOK
<1>1. ManagerInv => TypeOK BY DEF ManagerInv
<1> QED BY <1>1, ManagerInvariance, PTL

(* A call's log never has two open writers, also when a hold still writes    *)
(* through a controller that a move or the trash made the manager forget:    *)
(* the lock in the folder goes with the folder (manager.ts:673).             *)
THEOREM LogHasOneWriter == Spec => []OneWriter
<1>1. ASSUME ManagerInv PROVE OneWriter
  <2> DEFINE W(c) == {k \in Used : ctl[k].call = c /\ ctl[k].writer}
  <2>1. ASSUME NEW c \in Calls PROVE Cardinality(W(c)) <= 1
    <3>1. \A k \in W(c) : k = lock[c] BY <1>1 DEF ManagerInv, LocksHeld
    <3>2. W(c) \in SUBSET {lock[c]} BY <3>1
    <3> DEFINE l == lock[c]
    <3>3. IsFiniteSet({l}) /\ Cardinality({l}) = 1 BY FS_Singleton
    <3> QED BY <3>2, <3>3, FS_Subset
  <2> QED BY <2>1 DEF OneWriter
<1> QED BY <1>1, ManagerInvariance, PTL

(* A live call is the one the controls reach and the list has, and a known   *)
(* controller points at its call's folder where it is: after loads, failed   *)
(* starts and restarts, moves, the trash and its way back.                   *)
THEOREM KnownIsThere == Spec => []KnownIsReal
<1>1. ASSUME ManagerInv PROVE KnownIsReal
  <2>1. KnownHere /\ Types BY <1>1, TypesAre DEF ManagerInv
  <2>2. ASSUME NEW k \in Used, Live(k)
        PROVE  known[ctl[k].call] = k /\ ctl[k].call \in index
    <3>1. known[ctl[k].call] = k BY <2>1, <2>2 DEF KnownHere
    <3>2. ctl[k].call \in Calls BY <2>1, UsedAre DEF Types
    <3>3. k # NoCtl BY ConstantTypes DEF Used
    <3>4. Known(ctl[k].call) BY <3>1, <3>3 DEF Known
    <3> QED BY <3>1, <3>2, <3>4, <2>1 DEF KnownHere
  <2>3. \A c \in Calls : Known(c) => ctl[known[c]].dir = DirOf(c) BY <2>1 DEF KnownHere
  <2> QED BY <2>2, <2>3 DEF KnownIsReal
<1> QED BY <1>1, ManagerInvariance, PTL

-----------------------------------------------------------------------------
(* One live call, where a restart and a start do not meet.                   *)

Back(r) == req[r].kind = "restart" /\ pc[r] \in {"wait", "go", "load", "loaded"}
Looked(r) == req[r].kind = "restart" /\ pc[r] \in {"go", "load", "loaded"}
Begins(s) == req[s].kind \in {"start", "attach"} /\ pc[s] \in {"wait", "go"}

(* Apart, by the requests that look for the live call.                       *)
LEMMA ApartIs ==
  Apart <=> /\ \A r, s \in Requests : ~(Back(r) /\ Begins(s))
            /\ \A r \in Requests : Looked(r) => stage = Nobody
BY DEF Apart, Back, Looked, Begins, Asks

(* A restart and a start stay apart, after every step.                       *)
LEMMA ApartKept ==
  ASSUME MeetStarts = FALSE, Types, Loads, Apart, AnyStep
  PROVE  Apart'
<1> DEFINE B(r) == req'[r].kind = "restart" /\ pc'[r] \in {"wait", "go", "load", "loaded"}
           K(r) == req'[r].kind = "restart" /\ pc'[r] \in {"go", "load", "loaded"}
           N(s) == req'[s].kind \in {"start", "attach"} /\ pc'[s] \in {"wait", "go"}
           Goal == /\ \A r, s \in Requests : ~(B(r) /\ N(s))
                   /\ \A r \in Requests : K(r) => stage' = Nobody
<1>0. /\ \A r, s \in Requests : ~(Back(r) /\ Begins(s))
      /\ \A r \in Requests : Looked(r) => stage = Nobody
  BY ApartIs
<1>1. ASSUME \A r \in Requests : (B(r) => Back(r)) /\ (N(r) => Begins(r)) /\ (K(r) => stage' = Nobody)
      PROVE  Goal
  BY <1>0, <1>1
<1>2. ASSUME NEW S \in SUBSET Requests, Stay(S),
             \A s \in S : (B(s) => Back(s)) /\ (N(s) => Begins(s)) /\ (K(s) => stage' = Nobody),
             stage' \in {stage, Nobody}
      PROVE  Goal
  <2>1. \A s \in Requests \ S : pc'[s] = pc[s] /\ req'[s] = req[s] BY <1>2, Others
  <2>2. \A s \in Requests \ S : (B(s) => Back(s)) /\ (N(s) => Begins(s)) /\ (K(s) => Looked(s))
    BY <2>1 DEF Back, Begins, Looked
  <2> HIDE DEF B, N, K, Goal
  <2> QED BY <2>2, <1>0, <1>1, <1>2
<1>3. ASSUME NEW r \in Requests, ArriveStep(r) PROVE Goal
  <2>1. /\ Quiet /\ pc[r] = "new" /\ Stay({r}) /\ UNCHANGED stage /\ pc'[r] \in {"wait", "go"}
        /\ pc'[r] = "go" /\ req'[r].kind \in {"start", "attach", "restart"} => stage = Nobody
        /\ req'[r].kind \in {"start", "attach"} => ~Restarting
        /\ req'[r].kind = "restart" => ~StartsWait
    BY <1>3, BlankTyped DEF ArriveStep, othersAsIs
  <2>2. \A s \in Requests \ {r} : pc'[s] = pc[s] /\ req'[s] = req[s] BY <2>1, Others
  <2>3. \A s \in Requests \ {r} : (B(s) => Back(s)) /\ (N(s) => Begins(s)) /\ (K(s) => Looked(s))
    BY <2>2 DEF Back, Begins, Looked
  <2>4. \A s \in Requests : Back(s) => Restarting
    BY <2>1 DEF Quiet, Back, Restarting, Asks
  <2>5. \A s \in Requests : Begins(s) => StartsWait
    BY <2>1 DEF Quiet, Begins, StartsWait, Asks
  <2>6. (N(r) => ~Restarting) /\ (B(r) => ~StartsWait) /\ ~(N(r) /\ B(r)) /\ (K(r) => stage' = Nobody)
    BY <2>1
  <2> HIDE DEF B, N, K
  <2> QED BY <2>1, <2>3, <2>4, <2>5, <2>6, <1>0
<1>4. ASSUME NEW r \in Requests, ReserveStep(r) PROVE Goal
  <2>1. /\ Stay({r}) /\ pc'[r] = "folder" /\ Begins(r)
    BY <1>4 DEF ReserveStep, MovesOn, Free, Waiting, Begins
  <2>2. \A s \in Requests \ {r} : pc'[s] = pc[s] /\ req'[s] = req[s] BY <2>1, Others
  <2>3. \A s \in Requests \ {r} : (B(s) => Back(s)) /\ (N(s) => Begins(s)) /\ (K(s) => Back(s))
    BY <2>2 DEF Back, Begins
  <2>4. ~B(r) /\ ~N(r) /\ ~K(r) BY <2>1
  <2> HIDE DEF B, N, K
  <2> QED BY <2>1, <2>3, <2>4, <1>0
<1>5. ASSUME NEW r \in Requests, OneMoves(r), ~ArriveStep(r), ~ReserveStep(r) PROVE Goal
  <2>1. Stay({r}) BY <1>5, OneStays
  <2>2. CASE OpenStep(r) \/ SettleStep(r)
    <3>1. /\ UNCHANGED stage /\ req'[r] = req[r]
          /\ \/ pc[r] = "go" /\ pc'[r] = "load"
             \/ pc[r] = "wait" /\ pc'[r] = "go" /\ stage = Nobody /\ req[r].kind \notin {"start", "attach"}
      BY <2>2 DEF OpenStep, SettleStep, MovesOn, Waiting, othersAsIs
    <3>2. (B(r) => Back(r)) /\ (N(r) => Begins(r)) BY <3>1 DEF Back, Begins
    <3>3. K(r) => stage' = Nobody BY <3>1, <1>0 DEF Looked
    <3> HIDE DEF B, N, K, Goal
    <3> QED BY <3>1, <3>2, <3>3, <2>1, <1>2
  <2>3. CASE ~(OpenStep(r) \/ SettleStep(r))
    <3>1. pc'[r] \notin {"wait", "go", "load", "loaded"} /\ stage' \in {stage, Nobody}
      BY <1>5, <2>3 DEF OneMoves, RefuseStep, AttachStep, FolderFailStep, KnowStep, FolderStep,
        MoveStep, TrashStep, RestoreStep, ReindexStep, RestartStep, HoldStep, ReleaseStep, Ends, Moves,
        MovesOn, othersAsIs
    <3>2. ~B(r) /\ ~N(r) /\ ~K(r) BY <3>1
    <3> HIDE DEF B, N, K, Goal
    <3> QED BY <3>1, <3>2, <2>1, <1>2
  <2> QED BY <2>2, <2>3
<1>6. ASSUME NEW c \in Calls, LoadStep(c) \/ LoadFailStep(c) PROVE Goal
  <2>1. Stay(Sharers(c)) /\ Sharers(c) \in SUBSET Requests /\ UNCHANGED stage
    BY <1>6 DEF LoadStep, LoadFailStep, Ends, Sharers
  <2>2. \A s \in Sharers(c) : pc[s] = "load" /\ ((pc'[s] = "loaded" /\ req'[s] = req[s]) \/ pc'[s] \in {"done", "attached"})
    BY <1>6 DEF LoadStep, LoadFailStep, Ends, Sharers
  <2>3. \A s \in Sharers(c) : (B(s) => Back(s)) /\ (N(s) => Begins(s)) /\ (K(s) => Looked(s))
    BY <2>2 DEF Back, Begins, Looked
  <2> HIDE DEF B, N, K, Goal
  <2> QED BY <2>1, <2>3, <1>0, <1>2
<1>7. ASSUME NEW k, NEW q, NEW S \in SUBSET Requests, TurnStep(k, q, S) PROVE Goal
  <2>1. Stay(S) /\ UNCHANGED stage /\ \A s \in S : pc'[s] \in {"done", "attached"}
    BY <1>7 DEF TurnStep, Ends
  <2>2. \A s \in S : ~B(s) /\ ~N(s) /\ ~K(s) BY <2>1
  <2> HIDE DEF B, N, K, Goal
  <2> QED BY <2>1, <2>2, <1>2
<1>8. ASSUME UNCHANGED <<pc, req>>, othersAsIs PROVE Goal
  BY <1>0, <1>8 DEF othersAsIs, Back, Begins, Looked
<1>9. Goal
  <2> HIDE DEF Goal
  <2> QED BY <1>3, <1>4, <1>5, <1>6, <1>7, <1>8, StepsSplit DEF SomeMove
<1>10. Apart' <=> Goal BY DEF Apart, Asks
<1> QED BY <1>9, <1>10

(* A live controller is the known one of a call that is live.                *)
LEMMA LiveAreKnown ==
  ASSUME Types, KnownHere, NEW k \in Used, Live(k)
  PROVE  k \in LiveCtls /\ known[ctl[k].call] = k
<1>1. known[ctl[k].call] = k /\ ctl[k].call \in Calls BY UsedAre DEF KnownHere, Types
<1>2. k # NoCtl BY ConstantTypes DEF Used
<1> QED BY <1>1, <1>2 DEF LiveCtls, LiveCall, Known

(* No second call becomes live, after any step.                              *)
LEMMA OneLiveKept ==
  ASSUME MeetStarts = FALSE, Types, Asked, StageHeld, KnownHere, Apart, StageAlone, OnlyOneLive, AnyStep
  PROVE  StageAlone' /\ OnlyOneLive'
<1> DEFINE L(k) == ctl'[k].phase \in LivePhases
           Goal == /\ stage' # Nobody => \A k \in Used' : ~L(k)
                   /\ \A j, k \in Used' : L(j) /\ L(k) => j = k
<1>0. /\ stage # Nobody => \A k \in Used : ~Live(k)
      /\ \A j, k \in Used : Live(j) /\ Live(k) => j = k
  BY DEF StageAlone, OnlyOneLive
<1>1. ASSUME Used' = Used, \A k \in Used : L(k) => Live(k), stage' \in {stage, Nobody} PROVE Goal
  BY <1>0, <1>1
<1>2. ASSUME NEW k \in Used, NEW q, NEW h, NEW w, CtlNow(k, q, h, w), q \in LivePhases => Live(k),
             stage' = stage
      PROVE  Goal
  <2>1. /\ Used' = Used /\ \A j \in Used : j # k => ctl'[j] = ctl[j]
        /\ ctl'[k].phase = q
    BY <1>2 DEF CtlNow
  <2>2. \A j \in Used : L(j) => Live(j) BY <2>1, <1>2 DEF Live
  <2> HIDE DEF L, Goal
  <2> QED BY <2>1, <2>2, <1>1, <1>2
<1>3. ASSUME NEW r \in Requests, NEW c \in Calls, FolderStep(r, c) PROVE Goal
  <2>0. PICK n : n = NextCtl OBVIOUS
  <2>1. /\ Used' = Used \cup {n} /\ n \notin Used /\ \A j \in Used : ctl'[j] = ctl[j]
        /\ stage' = Nobody /\ pc[r] = "folder"
    BY <2>0, <1>3 DEF FolderStep, CtlMade
  <2>2. stage # Nobody BY <2>1, NobodyAssumption DEF StageHeld
  <2>3. \A j \in Used : ~L(j) BY <2>1, <2>2, <1>0 DEF Live
  <2> HIDE DEF L
  <2> QED BY <2>1, <2>3
<1>4. ASSUME NEW c \in Calls, LoadStep(c) PROVE Goal
  <2>0. PICK n : n = NextCtl OBVIOUS
  <2>1. /\ Used' = Used \cup {n} /\ n \notin Used /\ \A j \in Used : ctl'[j] = ctl[j]
        /\ stage' = stage /\ ctl'[n].phase = "over"
    BY <2>0, <1>4 DEF LoadStep, CtlMade
  <2>2. ~L(n) BY <2>1 DEF LivePhases
  <2>3. \A j \in Used : L(j) => Live(j) BY <2>1 DEF Live
  <2> HIDE DEF L
  <2> QED BY <2>1, <2>2, <2>3, <1>0
<1>5. ASSUME NEW r \in Requests, NEW k \in Ctls, RestartStep(r, k) PROVE Goal
  <2>1. /\ pc[r] \in {"go", "loaded"} /\ req[r].kind = "restart" /\ k \in Used
        /\ k = known[req[r].call] /\ ~OtherLive(req[r].call) /\ stage' = stage
        /\ CtlNow(k, "starting", ctl[k].holds, TRUE)
    BY <1>5 DEF RestartStep
  <2>2. stage = Nobody BY <2>1, ApartIs DEF Looked
  <2>3. \A j \in Used : Live(j) => j = k
    <3> SUFFICES ASSUME NEW j \in Used, Live(j) PROVE j = k OBVIOUS
    <3>1. j \in LiveCtls /\ known[ctl[j].call] = j BY LiveAreKnown
    <3>2. ctl[j].call = req[r].call BY <3>1, <2>1 DEF OtherLive
    <3> QED BY <3>1, <3>2, <2>1
  <2>4. Used' = Used /\ \A j \in Used : j # k => ctl'[j] = ctl[j] BY <2>1 DEF CtlNow
  <2>5. \A j \in Used : L(j) => j = k BY <2>3, <2>4 DEF Live
  <2> HIDE DEF L
  <2> QED BY <2>1, <2>2, <2>4, <2>5
<1>6. ASSUME NEW r \in Requests, NEW k \in Ctls, HoldStep(r, k) \/ ReleaseStep(r, k) PROVE Goal
  <2>1. stage' = stage /\ k \in Used /\ \E h, w : CtlNow(k, ctl[k].phase, h, w)
    BY <1>6 DEF HoldStep, ReleaseStep
  <2>2. PICK h, w : CtlNow(k, ctl[k].phase, h, w) BY <2>1
  <2>3. ctl[k].phase \in LivePhases => Live(k) BY DEF Live
  <2> HIDE DEF Goal
  <2> QED BY <2>1, <2>2, <2>3, <1>2
<1>7. ASSUME NEW k, NEW q, NEW S, TurnStep(k, q, S) PROVE Goal
  <2>1. PICK w : /\ stage' = stage /\ k \in Used /\ CtlNow(k, q, ctl[k].holds, w)
                 /\ <<ctl[k].phase, q>> \in OwnSteps \cup Stops
    BY <1>7 DEF TurnStep
  <2>2. q \in LivePhases => Live(k) BY <2>1, TurnsLive
  <2> HIDE DEF Goal
  <2> QED BY <2>1, <2>2, <1>2
<1>8. ASSUME NEW r \in Requests, ReserveStep(r) PROVE Goal
  <2>1. LiveCtls = {} /\ ctl' = ctl BY <1>8 DEF ReserveStep
  <2>2. \A k \in Used : ~Live(k) BY <2>1, LiveAreKnown
  <2>3. Used' = Used /\ \A k \in Used : ~L(k) BY <2>1, <2>2 DEF Used, Live
  <2> HIDE DEF L
  <2> QED BY <2>3
<1>9. ASSUME UNCHANGED <<ctl, lock>>, ~\E r \in Requests : ReserveStep(r) PROVE Goal
  <2>1. stage' \in {stage, Nobody}
    <3> DEFINE P == stage' \in {stage, Nobody}
    <3>1. stage' = stage \/ stage' = Nobody => P OBVIOUS
    <3> HIDE DEF P
    <3>2. ASSUME NEW r \in Requests,
                 \/ RefuseStep(r) \/ ArriveStep(r) \/ SettleStep(r) \/ AttachStep(r)
                 \/ FolderFailStep(r) \/ OpenStep(r) \/ KnowStep(r)
          PROVE  P
      BY <3>1, <3>2 DEF RefuseStep, ArriveStep, SettleStep, AttachStep, FolderFailStep, OpenStep,
         KnowStep, othersAsIs
    <3>3. ASSUME NEW r \in Requests, NEW c \in Calls,
                 \/ FolderStep(r, c) \/ MoveStep(r, c) \/ TrashStep(r, c)
                 \/ RestoreStep(r, c) \/ ReindexStep(r, c)
          PROVE  P
      BY <3>1, <3>3 DEF FolderStep, MoveStep, TrashStep, RestoreStep, ReindexStep
    <3>4. ASSUME NEW r \in Requests, NEW k \in Ctls,
                 RestartStep(r, k) \/ HoldStep(r, k) \/ ReleaseStep(r, k)
          PROVE  P
      BY <3>1, <3>4 DEF RestartStep, HoldStep, ReleaseStep
    <3>5. ASSUME NEW c \in Calls, LoadStep(c) \/ LoadFailStep(c) PROVE P
      BY <3>1, <3>5 DEF LoadStep, LoadFailStep
    <3>6. ASSUME NEW k, NEW q, NEW S, TurnStep(k, q, S) PROVE P BY <3>1, <3>6 DEF TurnStep
    <3>7. ASSUME othersAsIs PROVE P BY <3>1, <3>7 DEF othersAsIs
    <3>8. P BY <1>9, <3>2, <3>3, <3>4, <3>5, <3>6, <3>7 DEF AnyStep
    <3> QED BY <3>8 DEF P
  <2>2. Used' = Used /\ \A k \in Used : L(k) => Live(k) BY <1>9 DEF Used, Live
  <2> HIDE DEF L, Goal
  <2> QED BY <2>1, <2>2, <1>1
<1>10. Goal
  <2> HIDE DEF Goal
  <2> QED BY <1>3, <1>4, <1>5, <1>6, <1>7, <1>8, <1>9, CtlSteps
<1> QED BY <1>10 DEF StageAlone, OnlyOneLive, Live

(* Where a restart and a start do not meet, at most one call starts or       *)
(* captures, in every reachable state: the one question of calls.ts:169.     *)
THEOREM OneCallAtATime ==
  ASSUME MeetStarts = FALSE
  PROVE  Spec => []OneLive
<1>1. ASSUME Init PROVE OneLiveInv
  <2>1. ManagerInv BY <1>1, AtFirst
  <2>2. Used = {} /\ stage = Nobody BY <1>1 DEF Init, Used
  <2>3. \A r \in Requests : pc[r] = "new" BY <1>1 DEF Init
  <2>4. Apart BY <2>2, <2>3 DEF Apart
  <2> QED BY <2>1, <2>2, <2>4 DEF OneLiveInv, StageAlone, OnlyOneLive
<1>2. ASSUME OneLiveInv, [Next]_vars PROVE OneLiveInv'
  <2>1. ManagerInv /\ Apart /\ StageAlone /\ OnlyOneLive BY <1>2 DEF OneLiveInv
  <2>2. /\ Types /\ Asked /\ StageHeld /\ Loads /\ OneEach /\ HoldsCounted /\ KnownHere
    BY <2>1, TypesAre DEF ManagerInv
  <2>3. AnyStep BY <1>2, <2>2, StepsAre
  <2>4. ManagerInv' BY <1>2, <2>1, InvariantKept
  <2>5. Apart' BY <2>1, <2>2, <2>3, ApartKept
  <2>6. StageAlone' /\ OnlyOneLive' BY <2>1, <2>2, <2>3, OneLiveKept
  <2> QED BY <2>4, <2>5, <2>6 DEF OneLiveInv
<1>3. ASSUME OneLiveInv PROVE OneLive
  <2> DEFINE V == {k \in Used : Live(k)}
  <2>1. \A j, k \in V : j = k BY <1>3 DEF OneLiveInv, OnlyOneLive
  <2>2. CASE V = {}
    <3>1. Cardinality(V) = 0 BY <2>2, FS_EmptySet
    <3> QED BY <3>1 DEF OneLive
  <2>3. CASE V # {}
    <3>1. PICK k : k \in V BY <2>3
    <3>2. V = {k} BY <2>1, <3>1
    <3>3. Cardinality(V) = 1 BY <3>2, FS_Singleton
    <3> QED BY <3>3 DEF OneLive
  <2> QED BY <2>2, <2>3
<1> QED BY <1>1, <1>2, <1>3, PTL DEF Spec
=============================================================================
