------------------------------ MODULE Dictation ------------------------------
(***************************************************************************)
(* Dictation: the app's session (src/main/dictation/session.ts) and the    *)
(* helper process it talks to (native/akou-capture/src/dictate), from the  *)
(* press of the dictation key to the text in the user's application.       *)
(*                                                                         *)
(* The helper writes lines to one pipe and audio to another, and the app   *)
(* writes commands to a third: each is in order, nothing orders one with   *)
(* another.  What is assumed of their speed is at ReadStarted, ReadPacket  *)
(* and DrainEnds.  The app's text reaches the user's application through   *)
(* the helper too, so its keys must wait for it.                           *)
(*                                                                         *)
(* One action is one step of the helper's worker or one turn of the app.   *)
(* Of a session's audio only its packets are kept, of a decode whether it  *)
(* gave words, of time nothing.  One helper's life is modelled: the app    *)
(* makes a DictationSession for each.                                      *)
(*                                                                         *)
(* A definition introduced by "Mutant:" is no part of the specification.   *)
(***************************************************************************)
EXTENDS Naturals, SequencesExt

CONSTANTS
  MaxSessions,  \* bound: presses of the dictation key
  MaxPackets,   \* bound: packets of one session
  MaxKeys,      \* bound: presses of Escape, Enter and Shift+Enter
  PressInRoll   \* whether a press may come in the post-roll of another session

ASSUME BoundsAssumption ==
  {MaxSessions, MaxPackets, MaxKeys} \subseteq Nat \ {0} /\ PressInRoll \in BOOLEAN

VARIABLES
  helper,      \* "up", "exited", or "gone" once the app has seen it
  activation,  \* Activation.state: whose the keys are
  live,        \* the session the helper captures
  last,        \* the last session it ended
  pasting,     \* the insert that waits for its receipt
  ids,         \* sessions so far
  wrote,       \* packets written, per session
  pressed,     \* the keys pressed, in order: which, and in which session
  sends,       \* how often the send key was pressed after a session's text
  lines,       \* stderr: the helper's messages
  packets,     \* stdout: the helper's audio
  commands,    \* stdin: the app's commands
  app          \* the DictationSession, and the log it writes

helperVars == <<helper, activation, live, last, pasting, ids, wrote, pressed, sends>>
pipes == <<lines, packets, commands>>
vars == <<helperVars, pipes, app>>

Sessions == 1..MaxSessions
NoSession == 0

(* "cold" waits for its first sample, "roll" was released and still records. *)
NoLive == [id |-> NoSession, phase |-> "none"]
NoPaste == [id |-> NoSession, send |-> FALSE]

NoCur == [id |-> NoSession, chunks |-> <<>>, end |-> "no", stopping |-> FALSE]

(* The keys, by what they ask for: Escape, Enter, Shift+Enter.               *)
Keys == {"cancel", "send", "draft"}

(* Whether the session is to be transcribed; "cancel" stands for stop too.   *)
Reasons == {"release", "cancel"}

(* How a dictation ends; "aside" is a text that went nowhere by itself:      *)
(* empty, failed, or in the draft box.                                       *)
Ends == {"inserted", "cancelled", "aside"}

Packets == [s : Sessions, n : 0..MaxPackets - 1]

Messages ==
  [type : {"started", "inserted", "insert.failed"}, id : Sessions]
  \cup [type : {"ended"}, id : Sessions, reason : Reasons]
  \cup [type : {"key"}, id : Sessions, ask : Keys]

Commands ==
  [type : {"insert"}, id : Sessions, send : BOOLEAN]
  \cup [type : {"settled", "send"}, id : Sessions] \cup [type : {"stop"}, id : {NoSession}]

(* The session that listens, and the fields of DictationSession: work are    *)
(* the dictations whose decodes wait in line, whose number is decoding;      *)
(* asked is a field of each session.  The log: said has a dictation's        *)
(* events, kept the audio that is decoded.                                   *)
Curs ==
  [id : Sessions, chunks : Seq(Packets), end : {"no"} \cup Reasons, stopping : BOOLEAN]
  \cup {NoCur}

Apps ==
  [cur : Curs, early : Seq(Packets), latest : Sessions \cup {NoSession},
   work : Seq(Sessions), inserts : SUBSET Sessions, late : Seq(Sessions),
   asked : [Sessions -> Keys \cup {"insert"}],
   state : {"starting", "idle", "listening", "transcribing", "inserting"},
   said : [Sessions -> Seq({"started"} \cup Ends)],
   kept : [Sessions -> Seq(Packets)]]

TypeOK ==
  /\ helper \in {"up", "exited", "gone"}
  /\ activation \in {"idle", "listening", "awaiting"}
  /\ live \in [id : Sessions, phase : {"cold", "on", "roll"}] \cup {NoLive}
  /\ activation = "listening" <=> live.phase \in {"cold", "on"}
  /\ last \in Sessions \cup {NoSession}
  /\ pasting \in [id : Sessions, send : BOOLEAN] \cup {NoPaste}
  /\ ids \in 0..MaxSessions /\ wrote \in [Sessions -> 0..MaxPackets]
  /\ pressed \in Seq([id : Sessions, ask : Keys]) /\ Len(pressed) <= MaxKeys
  /\ sends \in [Sessions -> Nat]
  /\ lines \in Seq(Messages) /\ packets \in Seq(Packets) /\ commands \in Seq(Commands)
  /\ app \in Apps

Init ==
  /\ helper = "up" /\ activation = "idle"
  /\ live = NoLive /\ last = NoSession /\ pasting = NoPaste
  /\ ids = 0 /\ wrote = [s \in Sessions |-> 0]
  /\ pressed = <<>> /\ sends = [s \in Sessions |-> 0]
  /\ lines = <<>> /\ packets = <<>> /\ commands = <<>>
  /\ app = [cur |-> NoCur, early |-> <<>>, latest |-> NoSession, work |-> <<>>,
            inserts |-> {}, late |-> <<>>, asked |-> [s \in Sessions |-> "insert"],
            state |-> "idle", said |-> [s \in Sessions |-> <<>>],
            kept |-> [s \in Sessions |-> <<>>]]

-----------------------------------------------------------------------------
(* The helper.                                                               *)

Started(s) == [type |-> "started", id |-> s]
Ended(s, reason) == [type |-> "ended", id |-> s, reason |-> reason]
Outcome(s, ok) == [type |-> IF ok THEN "inserted" ELSE "insert.failed", id |-> s]

(* The session's next packet, numbered within it.                            *)
Record(s) ==
  /\ packets' = Append(packets, [s |-> s, n |-> wrote[s]])
  /\ wrote' = [wrote EXCEPT ![s] = @ + 1]

(* begin_session: the line, and with it the audio of just before.            *)
Begins(s) ==
  /\ lines' = Append(lines, Started(s))
  /\ live' = [id |-> s, phase |-> "on"]
  /\ Record(s)

(* The key goes down, or the app's session.start comes: a session, which     *)
(* starts at once with samples already flowing.                              *)
Press(flowing) ==
  /\ helper = "up" /\ activation = "idle" /\ ids < MaxSessions
  /\ live = NoLive \/ PressInRoll
  /\ ids' = ids + 1
  /\ activation' = "listening"
  /\ IF flowing
     THEN Begins(ids + 1)
     ELSE live' = [id |-> ids + 1, phase |-> "cold"] /\ UNCHANGED <<lines, packets, wrote>>
  /\ UNCHANGED <<helper, last, pasting, pressed, sends, commands, app>>

FirstSample ==
  /\ live.phase = "cold"
  /\ Begins(live.id)
  /\ UNCHANGED <<helper, activation, last, pasting, ids, pressed, sends, commands, app>>

Sample ==
  /\ live.phase \in {"on", "roll"} /\ wrote[live.id] < MaxPackets
  /\ Record(live.id)
  /\ UNCHANGED <<helper, activation, live, last, pasting, ids, pressed, sends, lines, commands,
                 app>>

(* A session is ended after what was said of it: one that never started      *)
(* leaves no trace, a cancel ends at once, anything else after the post-roll.*)
EndSession(reason, first) ==
  /\ activation = "listening"
  /\ CASE live.phase = "cold" ->
            /\ lines' = lines \o first
            /\ live' = NoLive /\ activation' = "idle"
            /\ UNCHANGED last
       [] live.phase = "on" /\ reason = "cancel" ->
            /\ lines' = lines \o first \o <<Ended(live.id, "cancel")>>
            /\ live' = NoLive /\ activation' = "idle"
            /\ last' = live.id
       [] OTHER ->
            /\ lines' = lines \o first
            /\ live' = [live EXCEPT !.phase = "roll"] /\ activation' = "awaiting"
            /\ UNCHANGED last

(* Released, tapped again; or cancelled by another key or by the app.        *)
Release(reason) ==
  /\ helper = "up"
  /\ EndSession(reason, <<>>)
  /\ UNCHANGED <<helper, pasting, ids, wrote, pressed, sends, packets, commands, app>>

RollEnds ==
  /\ live.phase = "roll"
  /\ lines' = Append(lines, Ended(live.id, "release"))
  /\ last' = live.id
  /\ live' = NoLive
  /\ UNCHANGED <<helper, activation, pasting, ids, wrote, pressed, sends, packets, commands, app>>

(* Escape, Enter or Shift+Enter in a session or while its text is awaited:   *)
(* swallowed and reported.  The message names the key only; its id is what   *)
(* the user meant.                                                           *)
KeyDown(ask) ==
  LET s == IF live # NoLive THEN live.id ELSE last
      key == [type |-> "key", id |-> s, ask |-> ask]
  IN /\ helper = "up" /\ activation # "idle" /\ Len(pressed) < MaxKeys
     /\ pressed' = Append(pressed, [id |-> s, ask |-> ask])
     /\ \/ EndSession(IF ask = "cancel" THEN "cancel" ELSE "release", <<key>>)
        \/ /\ activation = "awaiting"
           /\ lines' = Append(lines, key)
           /\ UNCHANGED <<activation, live, last>>
     /\ UNCHANGED <<helper, pasting, ids, wrote, sends, packets, commands, app>>

(* An insert that does not settle holds the keys for SETTLE_MS, which is     *)
(* longer than a post-roll.                                                  *)
KeysLapse ==
  /\ helper = "up" /\ activation = "awaiting" /\ live = NoLive
  /\ activation' = "idle"
  /\ UNCHANGED <<helper, live, last, pasting, ids, wrote, pressed, sends, pipes, app>>

(* Mutant: a session that listens loses its keys too.                        *)
FreedAnyway == "idle"

(* settled: the keys pass again, whichever session they waited for.          *)
Freed == IF activation = "awaiting" THEN "idle" ELSE activation

(* The waiting paste settles: its send key, its answer, and the keys if the  *)
(* session is still the last.                                                *)
PasteSettles(ok) ==
  /\ lines' = Append(lines, Outcome(pasting.id, ok))
  /\ sends' = IF ok /\ pasting.send THEN [sends EXCEPT ![pasting.id] = @ + 1] ELSE sends
  /\ activation' = IF pasting.id = last THEN Freed ELSE activation

(* Mutant: the paste keeps its place, and its receipt comes again.           *)
PasteEndsAgain(ok) ==
  /\ pasting # NoPaste
  /\ PasteSettles(ok)
  /\ UNCHANGED <<helper, live, last, pasting, ids, wrote, pressed, packets, commands, app>>

PasteEnds(ok) ==
  /\ pasting # NoPaste
  /\ PasteSettles(ok)
  /\ pasting' = NoPaste
  /\ UNCHANGED <<helper, live, last, ids, wrote, pressed, packets, commands, app>>

Take == helper = "up" /\ commands # <<>> /\ commands' = Tail(commands)

(* insert: a waiting paste settles first (TakeInsert is tried again after    *)
(* it); then this one waits for its receipt, or is done at once.             *)
TakeInsert(ok) ==
  LET c == Head(commands)
  IN /\ helper = "up" /\ commands # <<>> /\ c.type = "insert"
     /\ IF pasting # NoPaste
        THEN /\ PasteSettles(ok)
             /\ pasting' = NoPaste
             /\ UNCHANGED commands
        ELSE /\ Take
             /\ \/ /\ pasting' = [id |-> c.id, send |-> c.send]
                   /\ UNCHANGED <<lines, sends, activation>>
                \/ /\ lines' = Append(lines, Outcome(c.id, ok))
                   /\ sends' = IF ok /\ c.send THEN [sends EXCEPT ![c.id] = @ + 1] ELSE sends
                   /\ activation' = IF c.id = last THEN Freed ELSE activation
                   /\ UNCHANGED pasting
     /\ UNCHANGED <<helper, live, last, ids, wrote, pressed, packets, app>>

(* settled.                                                                  *)
TakeSettled ==
  /\ Take /\ Head(commands).type = "settled"
  /\ activation' = Freed
  /\ UNCHANGED <<helper, live, last, pasting, ids, wrote, pressed, sends, lines, packets, app>>

(* send: Enter came after the insert went out.                               *)
TakeSend ==
  /\ Take /\ Head(commands).type = "send"
  /\ pasting' = IF pasting.id = Head(commands).id THEN [pasting EXCEPT !.send = TRUE] ELSE pasting
  /\ UNCHANGED <<helper, activation, live, last, ids, wrote, pressed, sends, lines, packets, app>>

(* session.stop: whatever session is listening.                              *)
TakeStop ==
  /\ Take /\ Head(commands).type = "stop"
  /\ IF activation = "listening" THEN EndSession("release", <<>>)
                                 ELSE UNCHANGED <<activation, live, last, lines>>
  /\ UNCHANGED <<helper, pasting, ids, wrote, pressed, sends, packets, app>>

(* stop, after all that was asked before: the session ends as it is, the     *)
(* paste settles, and the process exits.                                     *)
Stopped(ok) ==
  LET ends == IF live.phase \in {"on", "roll"} THEN <<Ended(live.id, "cancel")>> ELSE <<>>
      pastes == IF pasting # NoPaste THEN <<Outcome(pasting.id, ok)>> ELSE <<>>
  IN /\ helper = "up" /\ commands = <<>>
     /\ helper' = "exited"
     /\ lines' = lines \o ends \o pastes
     /\ sends' = IF ok /\ pasting.send THEN [sends EXCEPT ![pasting.id] = @ + 1] ELSE sends
     /\ live' = NoLive /\ pasting' = NoPaste /\ activation' = "idle"
     /\ UNCHANGED <<last, ids, wrote, pressed, packets, commands, app>>

(* The process dies.  What it wrote can still be read.                       *)
Dies ==
  /\ helper = "up"
  /\ helper' = "exited"
  /\ commands' = <<>>
  /\ live' = NoLive /\ pasting' = NoPaste /\ activation' = "idle"
  /\ UNCHANGED <<last, ids, wrote, pressed, sends, lines, packets, app>>

-----------------------------------------------------------------------------
(* The app's session: what each handler makes of it.                         *)

(* A command to a helper that is gone is dropped.                            *)
Send(command) ==
  commands' = IF helper = "up" THEN Append(commands, command) ELSE commands

(* Mutant: a session that listens is not looked for.                         *)
SettleAnyway(a) ==
  IF a.state = "starting" THEN a
  ELSE [a EXCEPT !.state = IF a.work # <<>> THEN "transcribing"
                           ELSE IF a.inserts # {} THEN "inserting" ELSE "idle"]

(* settle: the state once a dictation's decode or insert settles.            *)
Settle(a) ==
  IF a.cur # NoCur \/ a.state = "starting" THEN a
  ELSE [a EXCEPT !.state = IF a.work # <<>> THEN "transcribing"
                           ELSE IF a.inserts # {} THEN "inserting" ELSE "idle"]

Says(a, s, what) == [a EXCEPT !.said[s] = Append(@, what)]

(* ended: the audio is kept; a cancelled session is over, any other waits    *)
(* for its decode, and the keys are its.                                     *)
EndedCur(a) ==
  LET s == a.cur.id
      b == Says([a EXCEPT !.cur = NoCur, !.kept[s] = a.cur.chunks], s, "started")
  IN IF a.cur.end = "cancel"
     THEN Settle(Says(b, s, "cancelled"))
     ELSE [b EXCEPT !.work = Append(@, s), !.latest = s, !.state = "transcribing"]

(* Mutant: the audio read before its session's start is dropped.             *)
StartedLate(a, s) ==
  LET b == IF a.cur.end # "no" THEN EndedCur(a) ELSE a
  IN [b EXCEPT !.cur = [NoCur EXCEPT !.id = s], !.early = <<>>, !.state = "listening"]

(* session.started: a session that drains ends now, with the audio it has;   *)
(* the audio read before this line is the new session's.                     *)
StartedNow(a, s) ==
  LET b == IF a.cur.end # "no" THEN EndedCur(a) ELSE a
  IN [b EXCEPT !.cur = [NoCur EXCEPT !.id = s, !.chunks = a.early], !.early = <<>>,
               !.state = "listening"]

(* onPacket: the first packet of a session ends the one that drains, if that *)
(* one has audio, and waits for its line; the tail of a session that was     *)
(* transcribed is dropped.                                                   *)
Heard(a, p) ==
  LET b == IF a.cur.end # "no" /\ a.cur.chunks # <<>> /\ p.n = 0 THEN EndedCur(a) ELSE a
  IN IF b.cur # NoCur THEN [b EXCEPT !.cur.chunks = Append(@, p)]
     ELSE IF p.n = 0 THEN [b EXCEPT !.early = <<p>>]
     ELSE IF b.early = <<>> THEN b
     ELSE [b EXCEPT !.early = Append(@, p)]

(* Mutant: the keys go to a session that is decoded even while another       *)
(* listens.                                                                  *)
KeyOwnerLatest(a) == IF a.latest # NoSession THEN a.latest ELSE a.cur.id

(* key: the session listening, or the last one still transcribing.           *)
KeyOwner(a) == IF a.cur # NoCur THEN a.cur.id ELSE a.latest

(* inserted, insert.failed.                                                  *)
Answered(a, s, what) ==
  IF s \notin a.inserts THEN a
  ELSE Settle(Says([a EXCEPT !.inserts = @ \ {s}, !.late = RemoveFirst(@, s)], s, what))

(* helperGone: what listens and what is being inserted ends; a decode goes   *)
(* on.                                                                       *)
Gone(a) ==
  LET b == IF a.cur = NoCur THEN a
           ELSE Says(Says([a EXCEPT !.kept[a.cur.id] = a.cur.chunks], a.cur.id, "started"),
                     a.cur.id, "aside")
  IN [b EXCEPT !.cur = NoCur, !.latest = NoSession, !.early = <<>>, !.inserts = {}, !.late = <<>>,
               !.state = "starting",
               !.said = [s \in Sessions |-> IF s \in a.inserts THEN Append(b.said[s], "aside")
                                                              ELSE b.said[s]]]

-----------------------------------------------------------------------------
Read(type) == lines # <<>> /\ Head(lines).type = type /\ lines' = Tail(lines)

(* Assumption: a key press later, what was written to the other pipe before  *)
(* has been read.                                                            *)
ReadStarted ==
  /\ Read("started")
  /\ \A i \in DOMAIN packets : packets[i].s >= Head(lines).id
  /\ app' = StartedNow(app, Head(lines).id)
  /\ UNCHANGED <<helperVars, packets, commands>>

(* A session that drains is not ended again.                                 *)
ReadEnded ==
  /\ Read("ended")
  /\ app' = IF app.cur.id = Head(lines).id /\ app.cur.end = "no"
            THEN [app EXCEPT !.cur.end = Head(lines).reason] ELSE app
  /\ UNCHANGED <<helperVars, packets, commands>>

ReadAnswer ==
  /\ \/ Read("inserted") /\ app' = Answered(app, Head(lines).id, "inserted")
     \/ Read("insert.failed") /\ app' = Answered(app, Head(lines).id, "aside")
  /\ UNCHANGED <<helperVars, packets, commands>>

(* An Enter that comes after the insert went out still sends.                *)
ReadKey ==
  LET owner == KeyOwner(app)
      ask == Head(lines).ask
  IN /\ Read("key")
     /\ IF owner # NoSession
        THEN app' = [app EXCEPT !.asked[owner] = ask] /\ UNCHANGED commands
        ELSE IF ask = "send" /\ app.late # <<>>
        THEN /\ Send([type |-> "send", id |-> Last(app.late)])
             /\ app' = [app EXCEPT !.late = Front(@)]
        ELSE UNCHANGED <<app, commands>>
     /\ UNCHANGED <<helperVars, packets>>

(* Assumption: as at ReadStarted, the other way round.                       *)
ReadPacket ==
  /\ packets # <<>>
  /\ \A i \in DOMAIN lines : lines[i].type = "ended" => lines[i].id >= Head(packets).s
  /\ packets' = Tail(packets)
  /\ app' = Heard(app, Head(packets))
  /\ UNCHANGED <<helperVars, lines, commands>>

(* The timer of session.ended.  Assumption: no packet of the session takes   *)
(* longer than AUDIO_DRAIN_MS.                                               *)
DrainEnds ==
  /\ app.cur.end # "no"
  /\ \A i \in DOMAIN packets : packets[i].s # app.cur.id
  /\ app' = EndedCur(app)
  /\ UNCHANGED <<helperVars, pipes>>

(* stopBy: the session was silent for too long, or is as long as it may be.  *)
StopBy ==
  /\ app.cur # NoCur /\ app.cur.end = "no" /\ ~app.cur.stopping
  /\ app' = [app EXCEPT !.cur.stopping = TRUE]
  /\ Send([type |-> "stop", id |-> NoSession])
  /\ UNCHANGED <<helperVars, lines, packets>>

(* The first of the line is decoded; it still has the keys until now.        *)
Decoded(a, s) ==
  [a EXCEPT !.work = Tail(@), !.latest = IF @ = s THEN NoSession ELSE @]

(* lateSends: an insert that goes out without its send key may get it later. *)
LateSends(a, s, send) == IF send THEN a.late ELSE Append(a.late, s)

(* transcribe: nothing was said, the user asked for something else, or the   *)
(* text goes to the helper; on the clipboard only there is nothing to send.  *)
DecodeEnds(words, clipboard) ==
  LET s == Head(app.work)
      a == Decoded(app, s)
      send == app.asked[s] = "send" /\ ~clipboard
  IN /\ app.work # <<>>
     /\ IF words /\ app.asked[s] \in {"insert", "send"}
        THEN /\ app' = Settle([a EXCEPT !.inserts = @ \cup {s},
                                        !.late = IF clipboard THEN @ ELSE LateSends(a, s, send)])
             /\ Send([type |-> "insert", id |-> s, send |-> send])
        ELSE /\ app' = Settle(Says(a, s, IF words /\ app.asked[s] = "cancel" THEN "cancelled"
                                         ELSE "aside"))
             /\ Send([type |-> "settled", id |-> s])
     /\ UNCHANGED <<helperVars, lines, packets>>

(* helperGone, once the pipes are empty.                                     *)
HelperGone ==
  /\ helper = "exited" /\ lines = <<>> /\ packets = <<>>
  /\ helper' = "gone"
  /\ app' = Gone(app)
  /\ UNCHANGED <<activation, live, last, pasting, ids, wrote, pressed, sends, pipes>>

-----------------------------------------------------------------------------
User ==
  \/ \E flowing \in BOOLEAN : Press(flowing)
  \/ \E reason \in Reasons : Release(reason)
  \/ \E ask \in Keys : KeyDown(ask)

Helper ==
  \/ FirstSample \/ Sample \/ RollEnds \/ KeysLapse \/ Dies
  \/ TakeSettled \/ TakeSend \/ TakeStop
  \/ \E ok \in BOOLEAN : PasteEnds(ok) \/ TakeInsert(ok) \/ Stopped(ok)

App ==
  \/ ReadStarted \/ ReadEnded \/ ReadAnswer \/ ReadKey \/ ReadPacket
  \/ DrainEnds \/ StopBy \/ HelperGone
  \/ \E words, clipboard \in BOOLEAN : DecodeEnds(words, clipboard)

Next == User \/ Helper \/ App

Spec == Init /\ [][Next]_vars

-----------------------------------------------------------------------------
(* A dictation is decoded from its own audio, all of it and in order,        *)
(* however the two pipes are read: what is read before the start of the next *)
(* session, or after its own end, goes to neither the one nor the other      *)
(* (session.ts:848-898, 1020-1041).                                          *)
AudioIsItsOwn ==
  \A s \in Sessions :
    app.said[s] # <<>> => app.kept[s] = [i \in 1..wrote[s] |-> [s |-> s, n |-> i - 1]]

(* A dictation that was logged ends once in the log, unless it is decoded or *)
(* inserted; and the state shown is that of the newest thing under way: the  *)
(* decodes and the answers of older dictations do not take it from a session *)
(* that listens (session.ts:607-610, 1166-1195, 1294-1416).                  *)
EndsOnce ==
  /\ \A s \in Sessions :
       LET flying == s \in app.inserts \/ \E i \in DOMAIN app.work : app.work[i] = s
       IN Len(app.said[s]) = IF app.said[s] = <<>> THEN 0 ELSE IF flying THEN 1 ELSE 2
  /\ app.state =
       IF helper = "gone" THEN "starting"
       ELSE IF app.cur # NoCur THEN "listening"
       ELSE IF app.work # <<>> THEN "transcribing"
       ELSE IF app.inserts # {} THEN "inserting" ELSE "idle"

(* A key in the line of messages, though it names no session, reaches the    *)
(* one it was pressed for, and it does as long as that one listens or waits  *)
(* for its decode; it reaches another only when its own never started, and   *)
(* is then the last one still transcribing's (session.ts:994-1017).          *)
KeysAreTheirs ==
  [][/\ \A s \in Sessions : app'.asked[s] # app.asked[s] =>
          /\ Head(lines).type = "key"
          /\ Head(lines).id = s \/ wrote[Head(lines).id] = 0
     /\ (lines # <<>> /\ lines' = Tail(lines) /\ Head(lines).type = "key") =>
          LET s == Head(lines).id
          IN s = app.cur.id \/ (\E i \in DOMAIN app.work : app.work[i] = s)
               => app'.asked[s] = Head(lines).ask]_vars

(* The send key follows a text once at most, and only if the user pressed    *)
(* Enter in its session or after it, whichever comes first of the Enter, the *)
(* insert, its receipt and the insert of a later text (session.ts:1006-1011, *)
(* insert.rs:346-371, 533-560).                                              *)
SendsItsOwn ==
  \A s \in Sessions :
    /\ sends[s] <= 1
    /\ sends[s] = 1 => \E i \in DOMAIN pressed : pressed[i].ask = "send" /\ pressed[i].id >= s
=============================================================================
