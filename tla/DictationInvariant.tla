------------------------- MODULE DictationInvariant -------------------------
(***************************************************************************)
(* An inductive invariant of Dictation, where no press comes in the        *)
(* post-roll of another session: what the lines and the packets that wait  *)
(* in the pipes say of the sessions, whose audio has been read how far,    *)
(* which of the texts are under way, and whom a key that waits is for.     *)
(***************************************************************************)
EXTENDS Dictation

(* Where the app and the helper stand.                                       *)
Logged(s) == app.said[s] # <<>>
Decoding == Range(app.work)

(* The session a key goes to in the helper.                                  *)
KeyFor == IF live # NoLive THEN live.id ELSE last

(* A helper that has exited does nothing, and its end is seen last.          *)
Down ==
  /\ helper # "up" =>
       live = NoLive /\ pasting = NoPaste /\ activation = "idle" /\ commands = <<>>
  /\ helper = "gone" =>
       lines = <<>> /\ packets = <<>> /\ app.cur = NoCur /\ app.early = <<>>

(* The sessions: the helper captures the newest, which is cold until it has  *)
(* written, and while keys are taken there is one they are for.              *)
Numbered ==
  /\ last <= ids
  /\ live # NoLive => live.id = ids /\ (live.phase = "cold" <=> wrote[ids] = 0)
  /\ \A s \in Sessions : wrote[s] > 0 => s <= ids
  /\ activation # "idle" => KeyFor # NoSession

(* All sessions that wrote are over, but for the one that is captured.       *)
OthersOver == helper = "up" => \A s \in Sessions : wrote[s] > 0 => s <= last \/ s = live.id

-----------------------------------------------------------------------------
(* The lines.                                                                *)

(* Of a line before another one: starts and ends alternate, a key comes in   *)
(* its session or after it, and not after its session was cancelled.         *)
InOrder(m, n) ==
  /\ m.type \in {"started", "ended", "key"} /\ n.type = "started" => m.id < n.id
  /\ m.type = "started" /\ n.type \in {"ended", "key"} => m.id <= n.id
  /\ m.type = "ended" /\ n.type = "ended" => m.id < n.id
  /\ m.type = "ended" /\ n.type = "key" => m.id # n.id \/ m.reason # "cancel"

Ordered(q) == \A i, j \in 1..Len(q) : i < j => InOrder(q[i], q[j])

(* A session whose start the app has read or will read: its end can be read  *)
(* too, or it is captured, or it is the last that a dead helper started.     *)
Ending(s) ==
  \/ \E m \in Range(lines) : m.type = "ended" /\ m.id = s
  \/ live.id = s
  \/ helper # "up" /\ \A m \in Range(lines) : m.type = "started" => m.id <= s

StartWaits(m) ==
  /\ wrote[m.id] > 0 /\ Ending(m.id)
  /\ app.cur.id < m.id
  /\ \A s \in Sessions : Logged(s) => s < m.id

EndWaits(m) == wrote[m.id] > 0 /\ live.id # m.id

KeyIsOld(m) == m.id <= ids /\ (live.phase = "cold" => m.id # ids)

(* The session that has the keys was not cancelled.                          *)
KeysOpen ==
  activation # "idle" =>
    \A m \in Range(lines) : m.type = "ended" /\ m.id = KeyFor => m.reason # "cancel"

LinesWait ==
  /\ Ordered(lines)
  /\ \A m \in Range(lines) : m.type = "started" => StartWaits(m)
  /\ \A m \in Range(lines) : m.type = "ended" => EndWaits(m)
  /\ \A m \in Range(lines) : m.type = "key" => KeyIsOld(m)
  /\ KeysOpen

-----------------------------------------------------------------------------
(* The log.                                                                  *)

(* The session the app listens to: not logged, and to be ended.              *)
Listens ==
  app.cur # NoCur =>
    /\ wrote[app.cur.id] > 0
    /\ ~Logged(app.cur.id)
    /\ IF app.cur.end = "no" THEN Ending(app.cur.id) ELSE live.id # app.cur.id

(* What is logged is over, and older than what listens.                      *)
LoggedIsOver ==
  \A s \in Sessions :
    Logged(s) => /\ wrote[s] > 0 /\ live.id # s
                 /\ app.cur # NoCur => s < app.cur.id

(* A dictation is decoded once, and then inserted.                           *)
OnceEach(a) ==
  /\ \A i, j \in 1..Len(a.work) : i < j => a.work[i] # a.work[j]
  /\ \A s \in Range(a.work) : s \notin a.inserts /\ Len(a.said[s]) = 1
  /\ \A s \in a.inserts : Len(a.said[s]) = 1
  /\ \A s \in Sessions \ (Range(a.work) \cup a.inserts) : Len(a.said[s]) \in {0, 2}

ShownState ==
  app.state =
    IF helper = "gone" THEN "starting"
    ELSE IF app.cur # NoCur THEN "listening"
    ELSE IF app.work # <<>> THEN "transcribing"
    ELSE IF app.inserts # {} THEN "inserting" ELSE "idle"

Log == Listens /\ LoggedIsOver /\ OnceEach(app) /\ ShownState

-----------------------------------------------------------------------------
(* The audio.                                                                *)

PacketsOf(s, n) == [i \in 1..n |-> [s |-> s, n |-> i - 1]]

(* The session whose audio is read before its line, if there is one.         *)
Early == IF app.early = <<>> THEN NoSession ELSE app.early[1].s

(* How much of a session's audio has been read.                              *)
Got(s) ==
  IF Logged(s) THEN wrote[s]
  ELSE IF app.cur.id = s THEN Len(app.cur.chunks)
  ELSE IF Early = s THEN Len(app.early)
  ELSE 0

Before(p, q) == p.s < q.s \/ (p.s = q.s /\ p.n < q.n)

InTurn(q) == \A i, j \in 1..Len(q) : i < j => Before(q[i], q[j])

(* The pipe holds what was written and not read, in order, and nothing older *)
(* than what is being read.                                                  *)
Unread ==
  /\ InTurn(packets)
  /\ \A s \in Sessions : Got(s) <= wrote[s]
  /\ \A p \in Packets : p \in Range(packets) <=> Got(p.s) <= p.n /\ p.n < wrote[p.s]
  /\ \A p \in Range(packets) : app.cur.id <= p.s /\ Early <= p.s

(* Whoever wrote has its line before the app or behind it.                   *)
Begun(s) == \E m \in Range(lines) : m.type = "started" /\ m.id = s

HaveStarts == \A s \in Sessions : wrote[s] > 0 => Logged(s) \/ app.cur.id = s \/ Begun(s)

(* What has been read of a session, its line read or not, is its first       *)
(* packets; and while one listens, nothing is read for another.              *)
ReadInTurn ==
  /\ app.cur.chunks = PacketsOf(app.cur.id, Len(app.cur.chunks))
  /\ app.early = PacketsOf(Early, Len(app.early))
  /\ app.early # <<>> => app.cur = NoCur /\ Begun(Early)

Audio == Unread /\ HaveStarts /\ ReadInTurn /\ AudioIsItsOwn

-----------------------------------------------------------------------------
(* The texts.                                                                *)

(* A text that has gone out and is not settled, by the command or the paste. *)
OneText(q) ==
  \A i, j \in 1..Len(q) :
    i < j /\ q[i].type = "insert" /\ q[j].type = "insert" => q[i].id # q[j].id

Out(s) == Logged(s) /\ s \notin Decoding /\ sends[s] = 0

Texts ==
  /\ OneText(commands)
  /\ \A c \in Range(commands) : c.type = "insert" => Out(c.id) /\ c.id # pasting.id
  /\ pasting # NoPaste => Out(pasting.id)
  /\ \A s \in Sessions : sends[s] > 0 => sends[s] = 1 /\ Logged(s) /\ s \notin Decoding

(* Enter was pressed in the session or after it.                             *)
Meant(s) == \E k \in Range(pressed) : k.ask = "send" /\ k.id >= s

KeyWaits(m) ==
  /\ [id |-> m.id, ask |-> m.ask] \in Range(pressed)
  /\ app.cur.id <= m.id
  /\ \A s \in Sessions : Logged(s) => s <= m.id

KeysWait == \A m \in Range(lines) : m.type = "key" => KeyWaits(m)

(* What was asked of a session, and whose text may still get its send key.   *)
AsksMeant ==
  /\ \A s \in Sessions : app.asked[s] = "send" => Meant(s)
  /\ \A s \in Range(app.late) : Logged(s)

TextsMeant ==
  /\ \A c \in Range(commands) :
       c.type = "send" \/ (c.type = "insert" /\ c.send) => Meant(c.id)
  /\ pasting.send => Meant(pasting.id)
  /\ \A s \in Sessions : sends[s] > 0 => Meant(s)

SendsMeant == KeysWait /\ AsksMeant /\ TextsMeant

-----------------------------------------------------------------------------
(* The keys.                                                                 *)

LatestIsLast ==
  helper # "gone" =>
    app.latest = IF app.work = <<>> THEN NoSession ELSE Last(app.work)

(* A key for the session waits to be read, or may still be pressed.          *)
KeyComes(s) ==
  \/ activation # "idle" /\ s = KeyFor
  \/ \E m \in Range(lines) : m.type = "key" /\ m.id = s

(* Such a key is for a session that was not cancelled before, and if that is *)
(* logged no other is the latest.                                            *)
Finds(s) ==
  /\ app.cur.id = s => app.cur.end # "cancel"
  /\ Logged(s) => app.latest \in {s, NoSession}

KeysFind == LatestIsLast /\ \A s \in Sessions : KeyComes(s) => Finds(s)

-----------------------------------------------------------------------------
DictationInv ==
  TypeOK /\ Numbered /\ Down /\ OthersOver /\ LinesWait /\ Log /\ Audio /\ Texts /\ SendsMeant /\ KeysFind
=============================================================================
