---------------------- MODULE DictationInvariant_proofs ----------------------
(***************************************************************************)
(* Where no press comes in the post-roll of another session, what waits in *)
(* the pipes, the log, the texts and the keys fit the sessions, in every   *)
(* reachable state: a dictation ends once, is decoded from its own audio,  *)
(* gets its own send key and the keys pressed in it.                       *)
(***************************************************************************)
EXTENDS Dictation_proofs

Based == Typed /\ Down

(* A helper that has exited does nothing.                                    *)
LEMMA DownKept == ASSUME Based, [Next]_vars PROVE Down'
<1> USE DEF Based, Typed
<1>0. /\ NoLive.phase = "none" /\ app \in Apps /\ NoCur.end = "no"
      /\ lines \in Seq(Messages) /\ packets \in Seq(Packets)
  BY DEF NoLive, NoCur, TypeOK
<1>1. ASSUME helper = "up", helper' = "up" PROVE Down' BY <1>1 DEF Down
<1>2. CASE User
  <2>1. helper = "up" /\ helper' = "up" BY <1>2 DEF User, Press, Release, KeyDown
  <2> QED BY <1>1, <2>1
<1>3. CASE Helper
  <2>1. ASSUME NEW ok \in BOOLEAN, Stopped(ok) PROVE Down' BY <2>1 DEF Stopped, Down
  <2>2. CASE Dies BY <2>2 DEF Dies, Down
  <2>3. CASE FirstSample
    <3>1. helper = "up" BY <1>0, <2>3 DEF FirstSample, Down
    <3> QED BY <1>1, <2>3, <3>1 DEF FirstSample
  <2>4. CASE Sample
    <3>1. helper = "up" BY <1>0, <2>4 DEF Sample, Down
    <3> QED BY <1>1, <2>4, <3>1 DEF Sample
  <2>5. CASE RollEnds
    <3>1. helper = "up" BY <1>0, <2>5 DEF RollEnds, Down
    <3> QED BY <1>1, <2>5, <3>1 DEF RollEnds
  <2>6. ASSUME NEW ok \in BOOLEAN, PasteEnds(ok) PROVE Down'
    <3>1. helper = "up" BY <2>6 DEF PasteEnds, Down
    <3> QED BY <1>1, <2>6, <3>1 DEF PasteEnds
  <2>7. ASSUME NEW ok \in BOOLEAN, TakeInsert(ok) PROVE Down' BY <1>1, <2>7 DEF TakeInsert
  <2>8. CASE KeysLapse \/ TakeSettled \/ TakeSend \/ TakeStop
    BY <1>1, <2>8 DEF KeysLapse, TakeSettled, TakeSend, TakeStop, Take
  <2> QED BY <1>3, <2>1, <2>2, <2>3, <2>4, <2>5, <2>6, <2>7, <2>8 DEF Helper
<1>4. CASE App
  <2>1. CASE helper = "up" /\ ~HelperGone
    <3>1. helper' = "up"
      BY <1>4, <2>1 DEF App, ReadStarted, ReadEnded, ReadAnswer, ReadKey, ReadPacket, DrainEnds,
         StopBy, DecodeEnds, helperVars
    <3> QED BY <1>1, <2>1, <3>1
  <2>2. CASE HelperGone
    <3>1. /\ app' = Gone(app) /\ helper = "exited" /\ lines = <<>> /\ packets = <<>>
          /\ UNCHANGED <<activation, live, pasting, lines, packets, commands>>
      BY <2>2 DEF HelperGone, pipes
    <3>2. app'.cur = NoCur /\ app'.early = <<>> BY <1>0, <3>1, GoneIs
    <3> QED BY <3>1, <3>2 DEF Down
  <2>3. CASE helper # "up" /\ ~HelperGone
    <3>1. UNCHANGED <<helper, live, pasting, activation>>
      BY <1>4, <2>3 DEF App, ReadStarted, ReadEnded, ReadAnswer, ReadKey, ReadPacket, DrainEnds,
         StopBy, DecodeEnds, helperVars
    <3>2. commands' = commands
      BY <1>4, <2>3 DEF App, ReadStarted, ReadEnded, ReadAnswer, ReadKey, ReadPacket, DrainEnds,
         StopBy, DecodeEnds, pipes, Send
    <3>3. CASE helper # "gone" BY <2>3, <3>1, <3>2, <3>3 DEF Down
    <3>4. CASE helper = "gone"
      <4>1. lines = <<>> /\ packets = <<>> /\ app.cur = NoCur /\ app.early = <<>>
        BY <3>4 DEF Down
      <4>2. ~ReadStarted /\ ~ReadEnded /\ ~ReadAnswer /\ ~ReadKey /\ ~ReadPacket /\ ~DrainEnds /\ ~StopBy
        BY <1>0, <4>1 DEF ReadStarted, ReadEnded, ReadAnswer, ReadKey, ReadPacket, DrainEnds, StopBy,
           Read
      <4>3. PICK words \in BOOLEAN, clipboard \in BOOLEAN : DecodeEnds(words, clipboard)
        BY <1>4, <2>3, <4>2 DEF App
      <4>4. app'.cur = app.cur /\ app'.early = app.early BY <1>0, <4>3, DecodeEndsIs
      <4>5. lines' = lines /\ packets' = packets BY <4>3 DEF DecodeEnds
      <4> QED BY <2>3, <3>1, <3>2, <4>1, <4>4, <4>5 DEF Down
    <3> QED BY <3>3, <3>4
  <2> QED BY <2>1, <2>2, <2>3
<1>5. CASE UNCHANGED vars BY <1>5 DEF Down, vars, helperVars, pipes
<1> QED BY <1>2, <1>3, <1>4, <1>5 DEF Next

-----------------------------------------------------------------------------
(* What the user and the helper do, as far as the app can tell.              *)

(* Lines written one after another.                                          *)
LEMMA OrderedConcat ==
  ASSUME NEW q \in Seq(Messages), NEW r \in Seq(Messages)
  PROVE  /\ q \o r \in Seq(Messages) /\ Range(q \o r) = Range(q) \cup Range(r)
         /\ Len(q) \in Nat /\ Len(q \o r) \in Nat /\ Len(q) <= Len(q \o r)
         /\ (/\ Ordered(q) /\ Ordered(r)
             /\ \A m \in Range(q), n \in Range(r) : InOrder(m, n)) => Ordered(q \o r)
<1> DEFINE c == q \o r
<1>1. /\ c \in Seq(Messages) /\ Len(c) = Len(q) + Len(r) /\ Len(q) \in Nat /\ Len(r) \in Nat
      /\ \A i \in 1..Len(q) : c[i] = q[i]
      /\ \A i \in 1..Len(c) : i > Len(q) => i - Len(q) \in 1..Len(r) /\ c[i] = r[i - Len(q)]
      /\ \A i \in 1..Len(r) : i + Len(q) \in 1..Len(c) /\ c[i + Len(q)] = r[i]
  BY ConcatProperties, LenProperties
<1> HIDE DEF c
<1>2. /\ Range(q) = {q[i] : i \in 1..Len(q)} /\ Range(r) = {r[i] : i \in 1..Len(r)}
      /\ Range(c) = {c[i] : i \in 1..Len(c)}
  <2>1. Range(q) = {q[i] : i \in 1..Len(q)} BY RangeEquality
  <2>2. Range(r) = {r[i] : i \in 1..Len(r)} BY RangeEquality
  <2>3. c \in Seq(Messages) BY <1>1
  <2>4. Range(c) = {c[i] : i \in 1..Len(c)} BY <2>3, RangeEquality
  <2> QED BY <2>1, <2>2, <2>4
<1>3. Range(c) = Range(q) \cup Range(r)
  <2>1. ASSUME NEW x \in Range(c) PROVE x \in Range(q) \cup Range(r)
    <3>1. PICK i \in 1..Len(c) : x = c[i] BY <1>2
    <3>2. i \in 1..Len(q) \/ i > Len(q) BY <1>1
    <3> QED BY <1>1, <1>2, <3>1, <3>2
  <2>2. ASSUME NEW x \in Range(q) PROVE x \in Range(c)
    <3>1. PICK i \in 1..Len(q) : x = q[i] BY <1>2
    <3>2. i \in 1..Len(c) BY <1>1
    <3> QED BY <1>1, <1>2, <3>1, <3>2
  <2>3. ASSUME NEW x \in Range(r) PROVE x \in Range(c)
    <3>1. PICK i \in 1..Len(r) : x = r[i] BY <1>2
    <3> QED BY <1>1, <1>2, <3>1
  <2> QED BY <2>1, <2>2, <2>3
<1>4. ASSUME Ordered(q), Ordered(r), \A m \in Range(q), n \in Range(r) : InOrder(m, n),
             NEW i \in 1..Len(c), NEW j \in 1..Len(c), i < j
      PROVE  InOrder(c[i], c[j])
  <2>1. CASE j <= Len(q)
    <3>1. i \in 1..Len(q) /\ j \in 1..Len(q) BY <1>1, <1>4, <2>1
    <3> QED BY <1>1, <1>4, <3>1 DEF Ordered
  <2>2. CASE i > Len(q)
    <3>1. /\ i - Len(q) \in 1..Len(r) /\ j - Len(q) \in 1..Len(r) /\ i - Len(q) < j - Len(q)
          /\ c[i] = r[i - Len(q)] /\ c[j] = r[j - Len(q)]
      BY <1>1, <1>4, <2>2
    <3> QED BY <1>4, <3>1 DEF Ordered
  <2>3. CASE i <= Len(q) /\ j > Len(q)
    <3>1. i \in 1..Len(q) /\ c[i] = q[i] /\ j - Len(q) \in 1..Len(r) /\ c[j] = r[j - Len(q)]
      BY <1>1, <2>3
    <3>2. c[i] \in Range(q) /\ c[j] \in Range(r) BY <1>2, <3>1
    <3> QED BY <1>4, <3>2
  <2> QED BY <1>1, <2>1, <2>2, <2>3
<1>5. Ordered(q) /\ Ordered(r) /\ (\A m \in Range(q), n \in Range(r) : InOrder(m, n)) => Ordered(c)
  BY ONLY <1>4 DEF Ordered
<1>6. Len(q) <= Len(c) BY ONLY <1>1
<1> QED BY ONLY <1>1, <1>3, <1>5, <1>6 DEF c

(* The first of the lines is read.                                           *)
LEMMA OrderedTail ==
  ASSUME NEW q \in Seq(Messages), q # <<>>, Ordered(q)
  PROVE  Ordered(Tail(q)) /\ \A n \in Range(Tail(q)) : InOrder(Head(q), n)
<1>1. /\ Head(q) = q[1] /\ Tail(q) \in Seq(Messages) /\ Len(q) \in Nat \ {0}
      /\ Len(Tail(q)) = Len(q) - 1
      /\ \A i \in 1..Len(Tail(q)) : Tail(q)[i] = q[i + 1]
  BY PipeRead
<1>2. Range(Tail(q)) = {Tail(q)[i] : i \in 1..Len(Tail(q))} BY <1>1, RangeEquality
<1>3. ASSUME NEW n \in Range(Tail(q)) PROVE InOrder(Head(q), n)
  <2>1. PICK i \in 1..Len(Tail(q)) : n = Tail(q)[i] BY <1>2
  <2>2. 1 \in 1..Len(q) /\ i + 1 \in 1..Len(q) /\ 1 < i + 1 /\ n = q[i + 1] BY <1>1, <2>1
  <2> QED BY <1>1, <2>2 DEF Ordered
<1>4. ASSUME NEW i \in 1..Len(Tail(q)), NEW j \in 1..Len(Tail(q)), i < j
      PROVE  InOrder(Tail(q)[i], Tail(q)[j])
  <2>1. i + 1 \in 1..Len(q) /\ j + 1 \in 1..Len(q) /\ i + 1 < j + 1 BY <1>1, <1>4
  <2> QED BY <1>1, <2>1 DEF Ordered
<1> QED BY <1>3, <1>4 DEF Ordered

(* One message, or two.                                                      *)
LEMMA OrderedShort ==
  /\ Ordered(<<>>) /\ <<>> \in Seq(Messages) /\ Range(<<>>) = {}
  /\ \A m \in Messages : Ordered(<<m>>) /\ <<m>> \in Seq(Messages) /\ Range(<<m>>) = {m}
<1>1. Ordered(<<>>) /\ <<>> \in Seq(Messages) /\ Range(<<>>) = {}
  BY EmptySeq, PipeEmpty DEF Ordered
<1>2. ASSUME NEW m \in Messages PROVE Ordered(<<m>>) /\ <<m>> \in Seq(Messages) /\ Range(<<m>>) = {m}
  <2>1. <<m>> \in Seq(Messages) /\ Len(<<m>>) = 1 /\ (<<m>>)[1] = m OBVIOUS
  <2>2. Range(<<m>>) = {(<<m>>)[i] : i \in 1..1} BY <2>1, RangeEquality
  <2>3. \A i, j \in 1..1 : ~(i < j) OBVIOUS
  <2> QED BY <2>1, <2>2, <2>3 DEF Ordered
<1> QED BY <1>1, <1>2

(* What is written in a step.                                                *)
Tells(N) ==
  /\ N \subseteq Messages /\ Range(lines') = Range(lines) \cup N /\ Len(lines) <= Len(lines')
  /\ Ordered(lines) /\ (\A m \in Range(lines), n \in N : InOrder(m, n)) => Ordered(lines')

LEMMA TellsWhat ==
  ASSUME lines \in Seq(Messages)
  PROVE  /\ lines' \in {lines, lines \o <<>>, lines \o <<>> \o <<>>} => Tells({})
         /\ \A m \in Messages :
              lines' \in {Append(lines, m), lines \o <<m>>, lines \o <<>> \o <<m>>, lines \o <<m>> \o <<>>}
                => Tells({m})
         /\ \A m, n \in Messages :
              lines' = lines \o <<m>> \o <<n>> /\ InOrder(m, n) => Tells({m, n})
<1>1. lines \o <<>> = lines /\ lines \o <<>> \o <<>> = lines OBVIOUS
<1>2. lines' = lines => Tells({}) BY LenProperties DEF Tells
<1>3. ASSUME NEW m \in Messages
      PROVE  /\ Append(lines, m) = lines \o <<m>> /\ lines \o <<>> \o <<m>> = lines \o <<m>>
             /\ lines \o <<m>> \o <<>> = lines \o <<m>>
  <2>1. Append(lines, m) = lines \o <<m>> BY AppendIsConcat
  <2>2. lines \o <<m>> \in Seq(Messages) BY ConcatProperties
  <2>3. \A q \in Seq(Messages) : q \o <<>> = q OBVIOUS
  <2> QED BY <1>1, <2>1, <2>2, <2>3
<1>4. ASSUME NEW m \in Messages, lines' = lines \o <<m>> PROVE Tells({m})
  <2>1. Ordered(<<m>>) /\ <<m>> \in Seq(Messages) /\ Range(<<m>>) = {m} BY OrderedShort
  <2> QED BY <1>4, <2>1, OrderedConcat DEF Tells
<1>5. ASSUME NEW m \in Messages, NEW n \in Messages, lines' = lines \o <<m>> \o <<n>>, InOrder(m, n)
      PROVE  Tells({m, n})
  <2>1. /\ Ordered(<<m>>) /\ <<m>> \in Seq(Messages) /\ Range(<<m>>) = {m}
        /\ Ordered(<<n>>) /\ <<n>> \in Seq(Messages) /\ Range(<<n>>) = {n}
    BY OrderedShort
  <2> DEFINE q == lines \o <<m>>
  <2>2. /\ q \in Seq(Messages) /\ Range(q) = Range(lines) \cup {m}
        /\ Len(lines) \in Nat /\ Len(q) \in Nat /\ Len(lines) <= Len(q)
        /\ Ordered(lines) /\ (\A x \in Range(lines) : InOrder(x, m)) => Ordered(q)
    <3>1. ASSUME NEW r, r = <<m>>
          PROVE  /\ lines \o r \in Seq(Messages) /\ Range(lines \o r) = Range(lines) \cup {m}
                 /\ Len(lines) \in Nat /\ Len(lines \o r) \in Nat /\ Len(lines) <= Len(lines \o r)
                 /\ Ordered(lines) /\ (\A x \in Range(lines) : InOrder(x, m)) => Ordered(lines \o r)
      <4>1. Ordered(r) /\ r \in Seq(Messages) /\ Range(r) = {m} BY <2>1, <3>1
      <4>2. lines \in Seq(Messages) OBVIOUS
      <4> QED BY ONLY <4>1, <4>2, OrderedConcat
    <3> QED BY ONLY <3>1 DEF q
  <2> HIDE DEF q
  <2>3. ASSUME NEW r, r = <<n>>
        PROVE  /\ Range(q \o r) = Range(q) \cup {n}
               /\ Len(q \o r) \in Nat /\ Len(q) <= Len(q \o r)
               /\ Ordered(q) /\ (\A x \in Range(q) : InOrder(x, n)) => Ordered(q \o r)
    <3>1. Ordered(r) /\ r \in Seq(Messages) /\ Range(r) = {n} BY <2>1, <2>3
    <3> QED BY ONLY <2>2, <3>1, OrderedConcat
  <2>4. lines' = q \o <<n>> BY <1>5 DEF q
  <2>5. Len(lines) <= Len(lines')
    <3>1. Len(lines') \in Nat /\ Len(q) <= Len(lines') BY <2>3, <2>4
    <3> QED BY <2>2, <3>1
  <2> QED BY <1>5, <2>2, <2>3, <2>4, <2>5 DEF Tells
<1> QED BY <1>1, <1>2, <1>3, <1>4, <1>5

(* A line that a step writes.                                                *)
NewLine(n) ==
  /\ n.type = "started" =>
       n = Started(live'.id) /\ live'.id \in Sessions /\ wrote[live'.id] = 0 /\ wrote'[live'.id] > 0
  /\ n.type = "ended" => n.id = live.id /\ wrote[live.id] > 0 /\ live' = NoLive
  /\ n.type = "key" =>
       /\ n.id = KeyFor /\ activation # "idle" /\ live'.phase # "cold"
       /\ [id |-> n.id, ask |-> n.ask] \in Range(pressed')

(* The session that is captured, and what it writes.                         *)
Captures(N) ==
  /\ ids \in Nat /\ ids' \in {ids, ids + 1} /\ last \in Nat /\ last <= last'
  /\ \/ wrote' = wrote /\ packets' = packets
     \/ /\ live'.id \in Sessions /\ wrote' = [wrote EXCEPT ![live'.id] = wrote[live'.id] + 1]
        /\ packets' = Append(packets, [s |-> live'.id, n |-> wrote[live'.id]])
        /\ wrote[live'.id] = 0 => Started(live'.id) \in N
  /\ \/ live'.id \in {NoSession, live.id} /\ ids' = ids
     \/ live = NoLive /\ live'.id = ids' /\ ids' = ids + 1 /\ live'.id \in Sessions
  /\ live # NoLive /\ live'.id # live.id /\ wrote[live.id] > 0 =>
       \/ helper' = "exited"
       \/ last' = live.id /\ \E n \in N : n.type = "ended" /\ n.id = live.id
  /\ live'.phase = "cold" => live' = live \/ ids' = ids + 1

(* Who has the keys.                                                         *)
Hands(N) ==
  /\ Range(pressed) \subseteq Range(pressed')
  /\ activation' # "idle" =>
       \/ activation # "idle" /\ KeyFor' = KeyFor /\ \A n \in N : n.type = "ended" => n.reason # "cancel"
       \/ live'.id = ids + 1

HelperMoves(N) ==
  /\ app' = app /\ helper = "up" /\ helper' \in {"up", "exited"}
  /\ Tells(N) /\ \A n \in N : NewLine(n)
  /\ Captures(N) /\ Hands(N)

(* Based, with what the fields of the variables are.                         *)
LEMMA BasedFields ==
  ASSUME Based
  PROVE  /\ TypeOK /\ Typed /\ lines \in Seq(Messages) /\ packets \in Seq(Packets) /\ app \in Apps
         /\ wrote \in [Sessions -> 0..MaxPackets] /\ \A s \in Sessions : wrote[s] \in Nat
         /\ live.id \in Sessions \cup {NoSession} /\ live.phase \in {"cold", "on", "roll", "none"}
         /\ live = NoLive <=> live.phase = "none"
         /\ live = NoLive <=> live.id = NoSession
         /\ ids \in Nat /\ last \in Nat /\ last <= ids
         /\ live # NoLive => live.id = ids /\ (live.phase = "cold" <=> wrote[ids] = 0)
         /\ \A s \in Sessions : wrote[s] > 0 => s <= ids
         /\ helper # "up" => live = NoLive
         /\ activation = "listening" <=> live.phase \in {"cold", "on"}
         /\ activation \in {"idle", "listening", "awaiting"}
         /\ pressed \in Seq([id : Sessions, ask : Keys])
<1>1. TypeOK /\ Typed BY DEF Based, Typed
<1>2. \A s \in Sessions : wrote[s] \in Nat BY <1>1, Bounds DEF TypeOK
<1> QED BY <1>1, <1>2, FieldTypes DEF Based, Typed, TypeOK, Numbered, Down

(* What changes nothing of the sessions but, perhaps, whether keys are       *)
(* taken, and says nothing or how a text settled.                            *)
LEMMA QuietMoves ==
  ASSUME Based, helper = "up", helper' = "up", UNCHANGED <<live, last, ids, wrote, pressed, packets, app>>,
         activation' \in {activation, "idle"},
         \/ lines' = lines
         \/ \E s \in Sessions, ok \in BOOLEAN : lines' = Append(lines, Outcome(s, ok))
  PROVE  \E N \in SUBSET Messages : HelperMoves(N)
<1>0. live' = live /\ wrote' = wrote /\ ids' = ids /\ last' = last /\ pressed' = pressed /\ packets' = packets
  OBVIOUS
<1>1. ASSUME NEW N \in SUBSET Messages, Tells(N), \A n \in N : n.type \in {"inserted", "insert.failed"}
      PROVE  HelperMoves(N)
  <2>1. \A n \in N : NewLine(n) BY <1>1 DEF NewLine
  <2>2. Captures(N) BY <1>0, <1>1, BasedFields DEF Captures
  <2>3. Hands(N) BY <1>0, <1>1 DEF Hands, KeyFor
  <2> QED BY <1>1, <2>1, <2>2, <2>3 DEF HelperMoves
<1>2. lines \in Seq(Messages) BY BasedFields
<1>3. CASE lines' = lines
  <2>1. Tells({}) BY <1>2, <1>3, TellsWhat
  <2> QED BY <1>1, <2>1
<1>4. CASE \E s \in Sessions, ok \in BOOLEAN : lines' = Append(lines, Outcome(s, ok))
  <2>1. PICK s \in Sessions, ok \in BOOLEAN : lines' = Append(lines, Outcome(s, ok)) BY <1>4
  <2>2. Outcome(s, ok) \in Messages /\ Outcome(s, ok).type \in {"inserted", "insert.failed"}
    BY MessageKinds DEF Outcome
  <2>3. Tells({Outcome(s, ok)}) BY <1>2, <2>1, <2>2, TellsWhat
  <2> QED BY <1>1, <2>2, <2>3
<1> QED BY <1>3, <1>4

(* A session begins: at once, or with its first sample.                      *)
LEMMA BeginMoves ==
  ASSUME Based, helper = "up", helper' = "up", UNCHANGED <<last, pressed, app>>,
         NEW s \in Sessions, Begins(s), wrote[s] = 0,
         \/ live = NoLive /\ ids' = ids + 1 /\ s = ids + 1
         \/ live.id = s /\ ids' = ids /\ activation # "idle" /\ activation' = activation
  PROVE  HelperMoves({Started(s)})
<1> DEFINE n == Started(s)
<1>0. /\ lines' = Append(lines, n) /\ live' = [id |-> s, phase |-> "on"]
      /\ packets' = Append(packets, [s |-> s, n |-> wrote[s]])
      /\ wrote' = [wrote EXCEPT ![s] = wrote[s] + 1]
  BY DEF Begins, Record
<1>1. live'.id = s /\ live'.phase = "on" /\ live'.id # NoSession BY <1>0, Bounds
<1>2. n \in Messages /\ n.type = "started" BY MessageKinds DEF Started
<1>3. Tells({n}) BY <1>0, <1>2, BasedFields, TellsWhat
<1>4. wrote'[s] > 0 BY <1>0, BasedFields
<1>5. NewLine(n) BY <1>1, <1>2, <1>4 DEF NewLine
<1>6. Captures({n})
  <2>1. live # NoLive => live.id = s BY BasedFields
  <2>2. ids \in Nat /\ last \in Nat BY BasedFields
  <2> QED BY <1>0, <1>1, <2>1, <2>2, BasedFields DEF Captures
<1>7. Hands({n})
  <2>1. CASE live = NoLive BY <1>1, <2>1, BasedFields DEF Hands, NoLive, NoSession
  <2>2. CASE live # NoLive
    <3>1. live.id = s BY <2>2, BasedFields
    <3>2. KeyFor = s /\ KeyFor' = s BY <1>1, <2>2, <3>1 DEF KeyFor, NoLive
    <3> QED BY <1>2, <2>2, <3>1, <3>2 DEF Hands
  <2> QED BY <2>1, <2>2
<1> QED BY <1>3, <1>5, <1>6, <1>7 DEF HelperMoves

(* The key goes down.                                                        *)
LEMMA PressMoves ==
  ASSUME Based, ~PressInRoll, NEW flowing \in BOOLEAN, Press(flowing)
  PROVE  \E N \in SUBSET Messages : HelperMoves(N)
<1>1. /\ helper = "up" /\ helper' = "up" /\ live = NoLive /\ ids' = ids + 1 /\ ids < MaxSessions
      /\ UNCHANGED <<last, pressed, app>>
  BY DEF Press
<1>2. ids + 1 \in Sessions /\ ids \in Nat /\ wrote[ids + 1] = 0
  <2>1. ids \in Nat /\ ids + 1 \in Sessions BY <1>1, BasedFields, Bounds DEF Sessions
  <2>2. wrote[ids + 1] \in Nat /\ ~(ids + 1 <= ids) BY <2>1, BasedFields
  <2> QED BY <2>1, <2>2, BasedFields
<1>3. CASE flowing
  <2>1. Begins(ids + 1) BY <1>3 DEF Press
  <2>2. HelperMoves({Started(ids + 1)}) BY <1>1, <1>2, <2>1, BeginMoves
  <2>3. Started(ids + 1) \in Messages BY <1>2, MessageKinds
  <2> QED BY <2>2, <2>3
<1>4. CASE ~flowing
  <2>1. live' = [id |-> ids + 1, phase |-> "cold"] /\ UNCHANGED <<lines, packets, wrote>>
    BY <1>4 DEF Press
  <2>2. Tells({}) BY <2>1, BasedFields, TellsWhat
  <2>3. live'.id = ids + 1 BY <2>1
  <2>4. Captures({}) BY <1>1, <1>2, <2>1, <2>3, BasedFields DEF Captures
  <2>5. Hands({}) BY <1>1, <2>3 DEF Hands
  <2> QED BY <1>1, <2>2, <2>4, <2>5 DEF HelperMoves
<1> QED BY <1>3, <1>4

LEMMA SampleMoves ==
  ASSUME Based, Sample
  PROVE  HelperMoves({})
<1>1. /\ packets' = Append(packets, [s |-> live.id, n |-> wrote[live.id]])
      /\ wrote' = [wrote EXCEPT ![live.id] = wrote[live.id] + 1]
      /\ UNCHANGED <<helper, activation, live, last, ids, pressed, lines, app>>
  BY DEF Sample, Record
<1>2. live.phase \in {"on", "roll"} BY DEF Sample
<1>3. live # NoLive /\ live.id \in Sessions /\ helper = "up" /\ wrote[live.id] # 0
  BY <1>2, BasedFields
<1>4. Tells({}) BY <1>1, BasedFields, TellsWhat
<1>5. Captures({}) BY <1>1, <1>3, BasedFields DEF Captures
<1>6. Hands({}) BY <1>1 DEF Hands, KeyFor
<1> QED BY <1>1, <1>3, <1>4, <1>5, <1>6 DEF HelperMoves

(* A key that is taken, and what is written with it; or no key.              *)
KeyTaken(first) ==
  \/ first = <<>> /\ pressed' = pressed
  \/ \E ask \in Keys :
       /\ first = <<[type |-> "key", id |-> KeyFor, ask |-> ask]>>
       /\ pressed' = Append(pressed, [id |-> KeyFor, ask |-> ask])

LEMMA KeyIs ==
  ASSUME Based, activation # "idle", NEW ask \in Keys,
         pressed' = Append(pressed, [id |-> KeyFor, ask |-> ask]), live'.phase # "cold"
  PROVE  LET n == [type |-> "key", id |-> KeyFor, ask |-> ask]
         IN n \in Messages /\ n.type = "key" /\ NewLine(n) /\ Range(pressed) \subseteq Range(pressed')
<1>1. KeyFor \in Sessions
  BY BasedFields DEF Based, Typed, TypeOK, Numbered, KeyFor
<1> DEFINE x == [id |-> KeyFor, ask |-> ask]
           S == [id : Sessions, ask : Keys]
<1>2. x \in S /\ pressed \in Seq(S) /\ pressed' = Append(pressed, x) BY <1>1, BasedFields
<1> HIDE DEF x, S
<1>3. Range(Append(pressed, x)) = Range(pressed) \cup {x} BY <1>2, PipeWritten
<1>4. Range(pressed') = Range(pressed) \cup {[id |-> KeyFor, ask |-> ask]} BY <1>2, <1>3 DEF x
<1> DEFINE n == [type |-> "key", id |-> KeyFor, ask |-> ask]
<1>5. n \in Messages BY <1>1, MessageKinds
<1>6. n.type = "key" /\ n.id = KeyFor /\ n.ask = ask OBVIOUS
<1> HIDE DEF n
<1>7. NewLine(n) BY <1>4, <1>6 DEF NewLine
<1> QED BY <1>4, <1>5, <1>6, <1>7 DEF n

(* A session ends, with the key that ends it or without.                     *)
LEMMA EndMoves ==
  ASSUME Based, helper = "up", helper' = "up", UNCHANGED <<ids, wrote, packets, app>>,
         NEW reason \in Reasons, NEW first, KeyTaken(first), EndSession(reason, first)
  PROVE  \E N \in SUBSET Messages : HelperMoves(N)
<1>0. /\ activation = "listening" /\ live # NoLive /\ live.id = ids /\ live.id \in Sessions
      /\ live.phase \in {"cold", "on"} /\ lines \in Seq(Messages)
  BY BasedFields DEF EndSession
<1>1. KeyFor = live.id BY <1>0 DEF KeyFor
<1> DEFINE e == Ended(live.id, "cancel")
<1>2. e \in Messages /\ e.type = "ended" /\ e.id = live.id
  BY <1>0, MessageKinds DEF Ended, Reasons
<1>3. NoLive.id = NoSession /\ NoLive.phase = "none" BY DEF NoLive
<1>4. \/ /\ live.phase = "cold" /\ lines' = lines \o first
         /\ live' = NoLive /\ activation' = "idle" /\ last' = last
      \/ /\ live.phase = "on" /\ lines' = lines \o first \o <<e>>
         /\ live' = NoLive /\ activation' = "idle" /\ last' = live.id
      \/ /\ live.phase = "on" /\ lines' = lines \o first /\ last' = last
         /\ live' = [live EXCEPT !.phase = "roll"] /\ activation' = "awaiting"
  BY <1>0 DEF EndSession
<1>5. live'.phase \in {"none", "roll"}
  <2>1. live = [id |-> live.id, phase |-> live.phase] BY BasedFields, FieldTypes
  <2> QED BY <1>3, <1>4, <2>1
<1> DEFINE KeyLines(K) ==
             /\ \A n \in K : n.type = "key" /\ NewLine(n)
             /\ Range(pressed) \subseteq Range(pressed')
             /\ lines' = lines \o first => Tells(K)
             /\ lines' = lines \o first \o <<e>> => Tells(K \cup {e})
<1>6. PICK K \in SUBSET Messages : KeyLines(K)
  <2> HIDE DEF e
  <2>1. CASE first = <<>> /\ pressed' = pressed
    <3>1. lines' = lines \o <<>> => Tells({}) BY <1>0, TellsWhat
    <3>2. lines' = lines \o <<>> \o <<e>> => Tells({e}) BY <1>0, <1>2, TellsWhat
    <3>3. {} \cup {e} = {e} OBVIOUS
    <3>4. KeyLines({}) BY <2>1, <3>1, <3>2, <3>3
    <3> QED BY <3>4
  <2>2. ASSUME NEW ask \in Keys, first = <<[type |-> "key", id |-> KeyFor, ask |-> ask]>>,
               pressed' = Append(pressed, [id |-> KeyFor, ask |-> ask])
        PROVE  \E K \in SUBSET Messages : KeyLines(K)
    <3> DEFINE k == [type |-> "key", id |-> KeyFor, ask |-> ask]
    <3>1. /\ k \in Messages /\ k.type = "key" /\ NewLine(k)
          /\ Range(pressed) \subseteq Range(pressed')
      BY <1>0, <1>5, <2>2, KeyIs
    <3>2. first = <<k>> BY <2>2
    <3> HIDE DEF k
    <3>3. InOrder(k, e) BY <1>2, <3>1 DEF InOrder
    <3>4. lines' = lines \o <<k>> => Tells({k}) BY <1>0, <3>1, TellsWhat
    <3>5. lines' = lines \o <<k>> \o <<e>> => Tells({k, e}) BY <1>0, <1>2, <3>1, <3>3, TellsWhat
    <3>6. {k, e} = {k} \cup {e} OBVIOUS
    <3>7. KeyLines({k}) BY <3>1, <3>2, <3>4, <3>5, <3>6
    <3>8. {k} \in SUBSET Messages BY <3>1
    <3> QED BY <3>7, <3>8
  <2> HIDE DEF KeyLines
  <2> QED BY <2>1, <2>2 DEF KeyTaken
<1> HIDE DEF e
<1>7. CASE /\ live.phase = "cold" /\ lines' = lines \o first
           /\ live' = NoLive /\ activation' = "idle" /\ last' = last
  <2>1. wrote[live.id] = 0 BY <1>0, <1>7, BasedFields
  <2>2. Captures(K) BY <1>0, <1>3, <1>7, <2>1, BasedFields DEF Captures
  <2>3. Hands(K) BY <1>6, <1>7 DEF Hands
  <2> QED BY <1>6, <1>7, <2>2, <2>3 DEF HelperMoves
<1>8. CASE /\ live.phase = "on" /\ lines' = lines \o first \o <<e>>
           /\ live' = NoLive /\ activation' = "idle" /\ last' = live.id
  <2>1. wrote[live.id] > 0 BY <1>0, <1>8, BasedFields
  <2>2. NewLine(e) BY <1>2, <1>8, <2>1 DEF NewLine
  <2>3. Captures(K \cup {e}) BY <1>0, <1>2, <1>3, <1>8, BasedFields DEF Captures
  <2>4. Hands(K \cup {e}) BY <1>6, <1>8 DEF Hands
  <2>5. Tells(K \cup {e}) /\ K \cup {e} \in SUBSET Messages BY <1>2, <1>6, <1>8
  <2>6. \A n \in K \cup {e} : NewLine(n) BY <1>6, <2>2
  <2> QED BY <2>3, <2>4, <2>5, <2>6 DEF HelperMoves
<1>9. CASE /\ live.phase = "on" /\ lines' = lines \o first /\ last' = last
           /\ live' = [live EXCEPT !.phase = "roll"] /\ activation' = "awaiting"
  <2>1. live = [id |-> live.id, phase |-> live.phase] BY BasedFields, FieldTypes
  <2>2. live'.id = live.id /\ live'.phase = "roll" BY <1>9, <2>1
  <2>3. KeyFor' = live.id
    <3>1. live' # NoLive BY <1>3, <2>2
    <3> QED BY <2>2, <3>1 DEF KeyFor
  <2>4. Captures(K) BY <1>0, <1>9, <2>2, BasedFields DEF Captures
  <2>5. Hands(K) BY <1>0, <1>1, <1>6, <2>3 DEF Hands
  <2> QED BY <1>6, <1>9, <2>4, <2>5 DEF HelperMoves
<1> QED BY <1>4, <1>7, <1>8, <1>9

(* Escape, Enter or Shift+Enter.                                             *)
LEMMA KeyMoves ==
  ASSUME Based, NEW ask \in Keys, KeyDown(ask)
  PROVE  \E N \in SUBSET Messages : HelperMoves(N)
<1> DEFINE key == [type |-> "key", id |-> KeyFor, ask |-> ask]
           r == IF ask = "cancel" THEN "cancel" ELSE "release"
<1>1. /\ helper = "up" /\ helper' = "up" /\ activation # "idle"
      /\ pressed' = Append(pressed, [id |-> KeyFor, ask |-> ask])
      /\ UNCHANGED <<ids, wrote, packets, app>>
      /\ \/ EndSession(r, <<key>>)
         \/ /\ activation = "awaiting" /\ lines' = Append(lines, key)
            /\ UNCHANGED <<activation, live, last>>
  BY DEF KeyDown, KeyFor
<1>2. CASE EndSession(r, <<key>>)
  <2>1. KeyTaken(<<key>>) BY <1>1 DEF KeyTaken
  <2>2. r \in Reasons BY DEF Reasons
  <2> HIDE DEF key, r
  <2> QED BY <1>1, <1>2, <2>1, <2>2, EndMoves
<1>3. CASE /\ activation = "awaiting" /\ lines' = Append(lines, key)
           /\ UNCHANGED <<activation, live, last>>
  <2>1. live'.phase # "cold" /\ live' = live BY <1>3, BasedFields
  <2>2. key \in Messages /\ key.type = "key" /\ NewLine(key) /\ Range(pressed) \subseteq Range(pressed')
    BY <1>1, <2>1, KeyIs
  <2> HIDE DEF key
  <2>3. Tells({key}) BY <1>3, <2>2, BasedFields, TellsWhat
  <2>4. Captures({key}) BY <1>1, <1>3, <2>1, BasedFields DEF Captures
  <2>5. KeyFor' = KeyFor BY <1>3 DEF KeyFor
  <2>6. Hands({key}) BY <1>1, <1>3, <2>2, <2>5 DEF Hands
  <2> QED BY <1>1, <2>2, <2>3, <2>4, <2>6 DEF HelperMoves
<1> QED BY <1>1, <1>2, <1>3

LEMMA RollMoves ==
  ASSUME Based, RollEnds
  PROVE  HelperMoves({Ended(live.id, "release")})
<1> DEFINE e == Ended(live.id, "release")
<1>1. /\ lines' = Append(lines, e) /\ last' = live.id /\ live' = NoLive /\ live.phase = "roll"
      /\ UNCHANGED <<helper, activation, ids, wrote, pressed, packets, app>>
  BY DEF RollEnds
<1>2. live # NoLive /\ live.id \in Sessions /\ live.id = ids /\ helper = "up" /\ wrote[live.id] > 0
  BY <1>1, BasedFields
<1>3. e \in Messages /\ e.type = "ended" /\ e.id = live.id /\ e.reason = "release"
  BY <1>2, MessageKinds DEF Ended, Reasons
<1> HIDE DEF e
<1>4. Tells({e}) BY <1>1, <1>3, BasedFields, TellsWhat
<1>5. NewLine(e) BY <1>1, <1>2, <1>3 DEF NewLine
<1>6. NoLive.id = NoSession /\ NoLive.phase = "none" BY DEF NoLive
<1>7. Captures({e}) BY <1>1, <1>2, <1>3, <1>6, BasedFields DEF Captures
<1>8. Hands({e}) BY <1>1, <1>2, <1>3 DEF Hands, KeyFor
<1> QED BY <1>1, <1>2, <1>4, <1>5, <1>7, <1>8 DEF HelperMoves, e

(* The process exits, as it was told or not.                                 *)
LEMMA ExitMoves ==
  ASSUME Based, NEW ok \in BOOLEAN, Stopped(ok) \/ Dies
  PROVE  \E N \in SUBSET Messages : HelperMoves(N)
<1>1. /\ helper = "up" /\ helper' = "exited" /\ live' = NoLive /\ activation' = "idle"
      /\ UNCHANGED <<last, ids, wrote, pressed, packets, app>>
  BY DEF Stopped, Dies
<1>2. NoLive.id = NoSession /\ NoLive.phase = "none" BY DEF NoLive
<1>3. ASSUME NEW N \in SUBSET Messages, Tells(N), \A n \in N : NewLine(n)
      PROVE  HelperMoves(N)
  <2>1. Captures(N) BY <1>1, <1>2, BasedFields DEF Captures
  <2>2. Hands(N) BY <1>1 DEF Hands
  <2> QED BY <1>1, <1>3, <2>1, <2>2 DEF HelperMoves
<1>4. lines \in Seq(Messages) BY BasedFields
<1>5. CASE Dies
  <2>1. Tells({}) BY <1>4, <1>5, TellsWhat DEF Dies
  <2> QED BY <1>3, <2>1
<1>6. CASE Stopped(ok)
  <2> DEFINE e == Ended(live.id, "cancel")
             o == Outcome(pasting.id, ok)
  <2>1. live.phase \in {"on", "roll"} => e \in Messages /\ e.type = "ended" /\ NewLine(e)
    <3> SUFFICES ASSUME live.phase \in {"on", "roll"} PROVE e \in Messages /\ e.type = "ended" /\ NewLine(e)
      OBVIOUS
    <3>1. live.id \in Sessions /\ wrote[live.id] > 0 BY BasedFields
    <3>2. e \in Messages /\ e.type = "ended" /\ e.id = live.id
      BY <3>1, MessageKinds DEF Ended, Reasons
    <3> HIDE DEF e
    <3> QED BY <1>1, <3>1, <3>2 DEF NewLine
  <2>2. pasting # NoPaste => o \in Messages /\ o.type \in {"inserted", "insert.failed"} /\ NewLine(o)
    <3> SUFFICES ASSUME pasting # NoPaste
                 PROVE  o \in Messages /\ o.type \in {"inserted", "insert.failed"} /\ NewLine(o)
      OBVIOUS
    <3>1. pasting.id \in Sessions BY BasedFields, FieldTypes
    <3>2. o \in Messages /\ o.type \in {"inserted", "insert.failed"}
      BY <3>1, MessageKinds DEF Outcome
    <3> HIDE DEF o
    <3> QED BY <3>2 DEF NewLine
  <2>3. \/ /\ live.phase \notin {"on", "roll"} /\ pasting = NoPaste
           /\ lines' = lines \o <<>> \o <<>>
        \/ /\ live.phase \notin {"on", "roll"} /\ pasting # NoPaste
           /\ lines' = lines \o <<>> \o <<o>>
        \/ /\ live.phase \in {"on", "roll"} /\ pasting = NoPaste
           /\ lines' = lines \o <<e>> \o <<>>
        \/ /\ live.phase \in {"on", "roll"} /\ pasting # NoPaste
           /\ lines' = lines \o <<e>> \o <<o>>
    BY <1>6 DEF Stopped
  <2> HIDE DEF e, o
  <2>4. CASE lines' = lines \o <<>> \o <<>>
    <3>1. Tells({}) BY <1>4, <2>4, TellsWhat
    <3> QED BY <1>3, <3>1
  <2>5. CASE pasting # NoPaste /\ lines' = lines \o <<>> \o <<o>>
    <3>1. Tells({o}) BY <1>4, <2>2, <2>5, TellsWhat
    <3> QED BY <1>3, <2>2, <2>5, <3>1
  <2>6. CASE live.phase \in {"on", "roll"} /\ lines' = lines \o <<e>> \o <<>>
    <3>1. Tells({e}) BY <1>4, <2>1, <2>6, TellsWhat
    <3> QED BY <1>3, <2>1, <2>6, <3>1
  <2>7. CASE live.phase \in {"on", "roll"} /\ pasting # NoPaste /\ lines' = lines \o <<e>> \o <<o>>
    <3>1. InOrder(e, o) BY <2>1, <2>2, <2>7 DEF InOrder
    <3>2. Tells({e, o}) BY <1>4, <2>1, <2>2, <2>7, <3>1, TellsWhat
    <3>3. {e, o} \in SUBSET Messages /\ \A n \in {e, o} : NewLine(n) BY <2>1, <2>2, <2>7
    <3> QED BY <1>3, <3>2, <3>3
  <2> QED BY <2>3, <2>4, <2>5, <2>6, <2>7
<1> QED BY <1>5, <1>6

(* A step of the user or of the helper is one of these.                      *)
LEMMA EveryMove ==
  ASSUME Based, ~PressInRoll, User \/ Helper
  PROVE  \E N \in SUBSET Messages : HelperMoves(N)
<1>1. CASE User
  <2>1. ASSUME NEW flowing \in BOOLEAN, Press(flowing) PROVE \E N \in SUBSET Messages : HelperMoves(N)
    BY <2>1, PressMoves
  <2>2. ASSUME NEW reason \in Reasons, Release(reason) PROVE \E N \in SUBSET Messages : HelperMoves(N)
    <3>1. KeyTaken(<<>>) BY <2>2 DEF Release, KeyTaken
    <3>2. helper = "up" /\ helper' = "up" /\ UNCHANGED <<ids, wrote, packets, app>>
      BY <2>2 DEF Release
    <3>3. EndSession(reason, <<>>) BY <2>2 DEF Release
    <3> QED BY <3>1, <3>2, <3>3, EndMoves
  <2>3. ASSUME NEW ask \in Keys, KeyDown(ask) PROVE \E N \in SUBSET Messages : HelperMoves(N)
    BY <2>3, KeyMoves
  <2> QED BY <1>1, <2>1, <2>2, <2>3 DEF User
<1>2. CASE Helper
  <2>1. CASE FirstSample
    <3>1. /\ Begins(live.id) /\ live.phase = "cold"
          /\ UNCHANGED <<helper, activation, last, ids, pressed, app>>
      BY <2>1 DEF FirstSample
    <3>2. /\ live # NoLive /\ live.id \in Sessions /\ wrote[live.id] = 0 /\ helper = "up"
          /\ activation = "listening"
      BY <3>1, BasedFields
    <3>3. HelperMoves({Started(live.id)}) BY <3>1, <3>2, BeginMoves
    <3>4. Started(live.id) \in Messages BY <3>2, MessageKinds
    <3> QED BY <3>3, <3>4
  <2>2. CASE Sample BY <2>2, SampleMoves
  <2>3. CASE RollEnds
    <3>1. HelperMoves({Ended(live.id, "release")}) BY <2>3, RollMoves
    <3>2. {Ended(live.id, "release")} \in SUBSET Messages BY <3>1 DEF HelperMoves, Tells
    <3> QED BY <3>1, <3>2
  <2>4. CASE KeysLapse BY <2>4, QuietMoves DEF KeysLapse, pipes
  <2>5. CASE Dies
    <3>1. TRUE \in BOOLEAN OBVIOUS
    <3> QED BY <2>5, <3>1, ExitMoves
  <2>6. ASSUME NEW ok \in BOOLEAN, Stopped(ok) PROVE \E N \in SUBSET Messages : HelperMoves(N)
    BY <2>6, ExitMoves
  <2>7. CASE TakeSettled
    <3>1. activation' \in {activation, "idle"} BY <2>7 DEF TakeSettled, Freed
    <3> QED BY <2>7, <3>1, QuietMoves DEF TakeSettled, Take
  <2>8. CASE TakeSend BY <2>8, QuietMoves DEF TakeSend, Take
  <2>9. CASE TakeStop
    <3>1. helper = "up" /\ helper' = "up" /\ UNCHANGED <<ids, wrote, pressed, packets, app>>
      BY <2>9 DEF TakeStop, Take
    <3>2. CASE activation = "listening"
      <4>1. EndSession("release", <<>>) /\ "release" \in Reasons BY <2>9, <3>2 DEF TakeStop, Reasons
      <4>2. KeyTaken(<<>>) BY <3>1 DEF KeyTaken
      <4> QED BY <3>1, <4>1, <4>2, EndMoves
    <3>3. CASE activation # "listening"
      <4>1. UNCHANGED <<activation, live, last, lines>> BY <2>9, <3>3 DEF TakeStop
      <4> QED BY <3>1, <4>1, QuietMoves
    <3> QED BY <3>2, <3>3
  <2>10. ASSUME NEW ok \in BOOLEAN, pasting # NoPaste, PasteSettles(ok), helper = "up", helper' = "up",
                UNCHANGED <<live, last, ids, wrote, pressed, packets, app>>
         PROVE  \E N \in SUBSET Messages : HelperMoves(N)
    <3>1. pasting.id \in Sessions BY <2>10, BasedFields, FieldTypes
    <3>2. activation' \in {activation, "idle"} /\ lines' = Append(lines, Outcome(pasting.id, ok))
      BY <2>10 DEF PasteSettles, Freed
    <3> QED BY <2>10, <3>1, <3>2, QuietMoves
  <2>11. ASSUME NEW ok \in BOOLEAN, PasteEnds(ok) PROVE \E N \in SUBSET Messages : HelperMoves(N)
    <3>1. helper = "up" BY <2>11 DEF PasteEnds, Based, Down
    <3> QED BY <2>10, <2>11, <3>1 DEF PasteEnds
  <2>12. ASSUME NEW ok \in BOOLEAN, TakeInsert(ok) PROVE \E N \in SUBSET Messages : HelperMoves(N)
    <3>1. /\ helper = "up" /\ helper' = "up" /\ UNCHANGED <<live, last, ids, wrote, pressed, packets, app>>
          /\ commands # <<>> /\ Head(commands).type = "insert"
      BY <2>12 DEF TakeInsert
    <3>2. CASE pasting # NoPaste BY <2>10, <2>12, <3>1, <3>2 DEF TakeInsert
    <3>3. CASE pasting = NoPaste
      <4>1. Head(commands).id \in Sessions
        <5>1. Head(commands) \in Commands BY <3>1, HeadTailProperties, BasedFields DEF TypeOK
        <5> QED BY <3>1, <5>1, CommandKinds
      <4>2. activation' \in {activation, "idle"} BY <2>12, <3>3 DEF TakeInsert, Freed
      <4>3. lines' = lines \/ lines' = Append(lines, Outcome(Head(commands).id, ok))
        BY <2>12, <3>3 DEF TakeInsert
      <4> QED BY <3>1, <4>1, <4>2, <4>3, QuietMoves
    <3> QED BY <3>2, <3>3
  <2> QED BY <1>2, <2>1, <2>2, <2>3, <2>4, <2>5, <2>6, <2>7, <2>8, <2>9, <2>11, <2>12 DEF Helper
<1> QED BY <1>1, <1>2

-----------------------------------------------------------------------------
(* The lines and the log.                                                    *)

Told == Based /\ OthersOver /\ LinesWait /\ Log

(* What a step of the helper leaves as it is.                                *)
LEMMA MovesKeep ==
  ASSUME Based, Based', NEW N \in SUBSET Messages, HelperMoves(N)
  PROVE  /\ app' = app /\ Range(lines') = Range(lines) \cup N
         /\ \A s \in Sessions : wrote[s] > 0 => wrote'[s] > 0
         /\ \A s \in Sessions : wrote'[s] > 0 => wrote[s] > 0 \/ s = live'.id
         /\ live'.id \in Sessions /\ live'.id # live.id =>
              live = NoLive /\ live'.id = ids + 1 /\ wrote[live'.id] = 0
         /\ \A s \in Sessions : wrote[s] > 0 /\ live.id # s => live'.id # s
<1>1. app' = app /\ Range(lines') = Range(lines) \cup N BY DEF HelperMoves, Tells
<1>2. /\ \A s \in Sessions : wrote[s] \in Nat /\ wrote'[s] \in Nat
      /\ wrote \in [Sessions -> 0..MaxPackets]
  <2>1. wrote \in [Sessions -> 0..MaxPackets] /\ wrote' \in [Sessions -> 0..MaxPackets]
    BY DEF Based, Typed, TypeOK
  <2> QED BY <2>1, Bounds
<1>3. \/ wrote' = wrote
      \/ live'.id \in Sessions /\ wrote' = [wrote EXCEPT ![live'.id] = wrote[live'.id] + 1]
  BY DEF HelperMoves, Captures
<1>4. /\ \A s \in Sessions : wrote[s] > 0 => wrote'[s] > 0
      /\ \A s \in Sessions : wrote'[s] > 0 => wrote[s] > 0 \/ s = live'.id
  BY <1>2, <1>3
<1>5. ASSUME live'.id \in Sessions, live'.id # live.id
      PROVE  live = NoLive /\ live'.id = ids + 1 /\ wrote[live'.id] = 0
  <2>1. live = NoLive /\ live'.id = ids + 1 BY <1>5, Bounds DEF HelperMoves, Captures
  <2>2. ids \in Nat /\ ~(ids + 1 <= ids) BY BasedFields
  <2> QED BY <1>2, <1>5, <2>1, <2>2, BasedFields
<1>6. ASSUME NEW s \in Sessions, wrote[s] > 0, live.id # s PROVE live'.id # s
  BY <1>5, <1>6
<1> QED BY <1>1, <1>4, <1>5, <1>6

(* A session that will be ended still will.                                  *)
LEMMA EndingKept ==
  ASSUME Told, Based', NEW N \in SUBSET Messages, HelperMoves(N),
         NEW s \in Sessions, wrote[s] > 0, Ending(s)
  PROVE  Ending(s)'
<1>0. Based BY DEF Told
<1>1. Range(lines') = Range(lines) \cup N /\ helper = "up" BY DEF HelperMoves, Tells
<1>2. CASE \E m \in Range(lines) : m.type = "ended" /\ m.id = s BY <1>1, <1>2 DEF Ending
<1>3. CASE live.id = s
  <2>1. CASE live'.id = s BY <2>1 DEF Ending
  <2>2. CASE live'.id # s
    <3>1. live # NoLive /\ s = ids BY <1>0, <1>3, BasedFields, Bounds
    <3>2. \/ helper' = "exited"
          \/ \E n \in N : n.type = "ended" /\ n.id = s
      BY <1>3, <2>2, <3>1 DEF HelperMoves, Captures
    <3>3. CASE \E n \in N : n.type = "ended" /\ n.id = s BY <1>1, <3>3 DEF Ending
    <3>4. CASE helper' = "exited"
      <4>1. ASSUME NEW m \in Range(lines'), m.type = "started" PROVE m.id <= s
        <5>1. CASE m \in Range(lines)
          <6>1. m \in Messages BY <1>0, <5>1, BasedFields, PipeTyped
          <6>2. wrote[m.id] > 0 /\ m.id \in Sessions
            BY <4>1, <5>1, <6>1, MessageKinds DEF Told, LinesWait, StartWaits
          <6> QED BY <1>0, <3>1, <6>2, BasedFields
        <5>2. CASE m \in N
          <6>1. m = Started(live'.id) /\ live'.id \in Sessions
            BY <4>1, <5>2 DEF HelperMoves, NewLine
          <6>2. live'.id = live.id BY <1>0, <3>1, <6>1, MovesKeep
          <6> QED BY <1>3, <2>2, <6>2
        <5> QED BY <1>1, <4>1, <5>1, <5>2
      <4> QED BY <3>4, <4>1 DEF Ending
    <3> QED BY <3>2, <3>3, <3>4
  <2> QED BY <2>1, <2>2
<1> QED BY <1>1, <1>2, <1>3 DEF Ending

LEMMA OthersOverKept ==
  ASSUME Told, Based', NEW N \in SUBSET Messages, HelperMoves(N)
  PROVE  OthersOver'
<1>0. Based BY DEF Told
<1> SUFFICES ASSUME helper' = "up", NEW s \in Sessions, wrote'[s] > 0
             PROVE  s <= last' \/ s = live'.id
  BY DEF OthersOver
<1>1. /\ helper = "up" /\ ids \in Nat /\ last \in Nat /\ last <= last' /\ s \in Nat
      /\ live.id \in Sessions \cup {NoSession}
  BY <1>0, BasedFields, Bounds DEF HelperMoves, Captures
<1>2. last' \in Nat BY BasedFields, Bounds DEF Based, Typed, TypeOK, NoSession
<1>3. wrote[s] > 0 \/ s = live'.id BY <1>0, MovesKeep
<1>4. ASSUME wrote[s] > 0, s # live'.id PROVE s <= last'
  <2>1. s <= last \/ s = live.id BY <1>1, <1>4 DEF Told, OthersOver
  <2>2. CASE s <= last BY <1>1, <1>2, <2>2
  <2>3. CASE s = live.id
    <3>1. live # NoLive BY <1>0, <2>3, BasedFields, Bounds
    <3>2. last' = live.id BY <1>1, <1>4, <2>3, <3>1 DEF HelperMoves, Captures
    <3> QED BY <1>1, <2>3, <3>2
  <2> QED BY <2>1, <2>2, <2>3
<1> QED BY <1>3, <1>4

(* Lines come in order, and the app is before the ones that wait.            *)
LEMMA LinesKept ==
  ASSUME Told, Based', NEW N \in SUBSET Messages, HelperMoves(N)
  PROVE  LinesWait'
<1>0. Based /\ LinesWait /\ helper = "up" BY DEF Told, HelperMoves
<1>1. /\ app' = app /\ Range(lines') = Range(lines) \cup N /\ N \subseteq Messages
      /\ \A n \in N : NewLine(n)
      /\ Range(lines) \subseteq Messages
  BY <1>0, BasedFields, PipeTyped DEF HelperMoves, Tells
<1>2. /\ \A s \in Sessions : wrote[s] > 0 => wrote'[s] > 0 /\ s <= ids
      /\ \A s \in Sessions : wrote[s] > 0 /\ live.id # s => live'.id # s
      /\ ids \in Nat /\ ids' \in {ids, ids + 1}
      /\ live'.id \in Sessions => live'.id >= ids
    <2>1. ids \in Nat /\ ids' \in {ids, ids + 1} BY DEF HelperMoves, Captures
    <2>2. \A s \in Sessions : wrote[s] > 0 => wrote'[s] > 0 /\ s <= ids
      BY <1>0, MovesKeep, BasedFields
    <2>3. \A s \in Sessions : wrote[s] > 0 /\ live.id # s => live'.id # s BY <1>0, MovesKeep
    <2>4. live'.id \in Sessions => live'.id >= ids
      <3>1. ASSUME live'.id \in Sessions, live'.id = live.id PROVE live'.id = ids
        BY <1>0, <3>1, BasedFields, Bounds
      <3> QED BY <1>0, <2>1, <3>1, MovesKeep
    <2> QED BY <2>1, <2>2, <2>3, <2>4
<1>3. \A m \in Range(lines) : m.id \in Sessions /\ m.id \in Nat BY <1>1, MessageKinds, Bounds
<1>4. ASSUME NEW m \in Range(lines), NEW n \in N PROVE InOrder(m, n)
  <2>1. m.type = "started" => wrote[m.id] > 0 BY <1>0 DEF LinesWait, StartWaits
  <2>2. m.type = "ended" => wrote[m.id] > 0 /\ live.id # m.id BY <1>0 DEF LinesWait, EndWaits
  <2>3. m.type = "key" => m.id <= ids /\ (live.phase = "cold" => m.id # ids)
    BY <1>0 DEF LinesWait, KeyIsOld
  <2>4. NewLine(n) BY <1>1
  <2>5. CASE n.type = "started"
    <3>1. n = Started(live'.id) /\ live'.id \in Sessions /\ wrote[live'.id] = 0
      BY <2>4, <2>5 DEF NewLine
    <3>2. n.id = live'.id BY <3>1 DEF Started
    <3>3. live'.id \in Nat /\ live'.id >= ids BY <1>2, <3>1, Bounds
    <3>4. ASSUME m.type \in {"started", "ended"} PROVE m.id < n.id
      <4>1. wrote[m.id] > 0 BY <2>1, <2>2, <3>4
      <4>2. m.id <= ids /\ m.id # live'.id BY <1>2, <1>3, <3>1, <4>1
      <4> QED BY <1>2, <1>3, <3>2, <3>3, <4>2
    <3>5. ASSUME m.type = "key" PROVE m.id < n.id
      <4>1. CASE live'.id = live.id
        <5>1. live # NoLive /\ live.id = ids /\ live.phase = "cold"
          BY <1>0, <3>1, <4>1, BasedFields, Bounds
        <5> QED BY <1>2, <1>3, <2>3, <3>2, <3>3, <3>5, <4>1, <5>1
      <4>2. CASE live'.id # live.id
        <5>1. live'.id = ids + 1 BY <1>0, <3>1, <4>2, MovesKeep
        <5> QED BY <1>2, <1>3, <2>3, <3>2, <3>5, <5>1
      <4> QED BY <4>1, <4>2
    <3> QED BY <2>5, <3>4, <3>5 DEF InOrder
  <2>6. CASE n.type = "ended"
    <3>1. n.id = live.id /\ wrote[live.id] > 0 BY <2>4, <2>6 DEF NewLine
    <3>2. n.id = ids
      <4>1. n.id \in Sessions BY <1>1, MessageKinds
      <4> QED BY <1>0, <3>1, <4>1, BasedFields, Bounds
    <3>3. m.type = "started" => m.id <= n.id BY <1>2, <1>3, <2>1, <3>2
    <3>4. m.type = "ended" => m.id < n.id BY <1>2, <1>3, <2>2, <3>1, <3>2
    <3> QED BY <2>6, <3>3, <3>4 DEF InOrder
  <2>7. CASE n.type = "key"
    <3>1. n.id = KeyFor /\ activation # "idle" BY <2>4, <2>7 DEF NewLine
    <3>2. ASSUME m.type = "started" PROVE m.id <= n.id
      <4>1. CASE live # NoLive
        <5>1. n.id = ids BY <1>0, <3>1, <4>1, BasedFields DEF KeyFor
        <5> QED BY <1>2, <1>3, <2>1, <3>2, <5>1
      <4>2. CASE live = NoLive
        <5>1. n.id = last /\ live.id = NoSession BY <3>1, <4>2 DEF KeyFor, NoLive
        <5>2. m.id <= last \/ m.id = live.id
          BY <1>0, <1>3, <2>1, <3>2 DEF Told, OthersOver
        <5> QED BY <1>3, <5>1, <5>2, Bounds
      <4> QED BY <4>1, <4>2
    <3>3. ASSUME m.type = "ended" PROVE m.id # n.id \/ m.reason # "cancel"
      BY <1>0, <3>1, <3>3 DEF LinesWait, KeysOpen
    <3> QED BY <2>7, <3>2, <3>3 DEF InOrder
  <2> QED BY <1>1, <2>5, <2>6, <2>7, MessageKinds DEF InOrder
<1>5. Ordered(lines') BY <1>0, <1>4 DEF LinesWait, HelperMoves, Tells
<1>6. ASSUME NEW m \in Range(lines'), m.type = "started" PROVE StartWaits(m)'
  <2>1. CASE m \in Range(lines)
    <3>1. StartWaits(m) /\ m.id \in Sessions BY <1>0, <1>3, <1>6, <2>1 DEF LinesWait
    <3>2. Ending(m.id)' BY <3>1, EndingKept DEF StartWaits
    <3>3. wrote'[m.id] > 0 BY <1>2, <3>1 DEF StartWaits
    <3> QED BY <1>1, <3>1, <3>2, <3>3 DEF StartWaits, Logged
  <2>2. CASE m \in N
    <3>1. /\ m = Started(live'.id) /\ live'.id \in Sessions /\ wrote[live'.id] = 0
          /\ wrote'[live'.id] > 0
      BY <1>1, <1>6, <2>2 DEF NewLine
    <3>2. m.id = live'.id /\ live'.id \in Nat /\ live'.id >= ids
      BY <1>2, <3>1, Bounds DEF Started
    <3>3. Ending(m.id)' BY <3>2 DEF Ending
    <3>4. ASSUME NEW s \in Sessions, wrote[s] > 0 PROVE s < m.id
      <4>1. s <= ids /\ s # live'.id /\ s \in Nat BY <1>2, <3>1, <3>4, Bounds
      <4> QED BY <1>2, <3>2, <4>1
    <3>5. app.cur.id < m.id
      <4>1. CASE app.cur = NoCur
        <5>1. app.cur.id = 0 BY <4>1 DEF NoCur, NoSession
        <5> QED BY <3>1, <3>2, <5>1, Bounds DEF NoSession
      <4>2. CASE app.cur # NoCur
        <5>1. app.cur.id \in Sessions
          <6>1. app \in Apps BY <1>0, BasedFields
          <6> QED BY <4>2, <6>1, AppFields
        <5>2. wrote[app.cur.id] > 0 BY <4>2 DEF Told, Log, Listens
        <5> QED BY <3>4, <5>1, <5>2
      <4> QED BY <4>1, <4>2
    <3>6. \A s \in Sessions : Logged(s) => s < m.id
      BY <3>4 DEF Told, Log, LoggedIsOver
    <3> QED BY <1>1, <3>1, <3>2, <3>3, <3>5, <3>6 DEF StartWaits, Logged
  <2> QED BY <1>1, <2>1, <2>2
<1>7. ASSUME NEW m \in Range(lines'), m.type = "ended" PROVE EndWaits(m)'
  <2>1. CASE m \in Range(lines)
    <3>1. wrote[m.id] > 0 /\ live.id # m.id BY <1>0, <1>7, <2>1 DEF LinesWait, EndWaits
    <3> QED BY <1>2, <1>3, <2>1, <3>1 DEF EndWaits
  <2>2. CASE m \in N
    <3>1. m.id = live.id /\ wrote[live.id] > 0 /\ live' = NoLive
      BY <1>1, <1>7, <2>2 DEF NewLine
    <3>2. m.id \in Sessions BY <1>1, <2>2, MessageKinds
    <3>3. live'.id = NoSession BY <3>1 DEF NoLive
    <3> QED BY <1>2, <3>1, <3>2, <3>3, Bounds DEF EndWaits
  <2> QED BY <1>1, <2>1, <2>2
<1>8. ASSUME NEW m \in Range(lines'), m.type = "key" PROVE KeyIsOld(m)'
  <2>1. CASE m \in Range(lines)
    <3>1. KeyIsOld(m) BY <1>0, <1>8, <2>1 DEF LinesWait
    <3>2. live'.phase = "cold" => live' = live \/ ids' = ids + 1 BY DEF HelperMoves, Captures
    <3>3. live' = live => live = NoLive \/ ids' = ids
      BY <1>0, BasedFields DEF HelperMoves, Captures
    <3>4. NoLive.phase # "cold" BY DEF NoLive
    <3> QED BY <1>2, <1>3, <2>1, <3>1, <3>2, <3>3, <3>4 DEF KeyIsOld
  <2>2. CASE m \in N
    <3>1. m.id = KeyFor /\ live'.phase # "cold" BY <1>1, <1>8, <2>2 DEF NewLine
    <3>2. KeyFor <= ids BY <1>0, BasedFields DEF KeyFor
    <3>3. KeyFor \in Nat BY <1>0, BasedFields, Bounds DEF KeyFor, NoSession
    <3> QED BY <1>2, <3>1, <3>2, <3>3 DEF KeyIsOld
  <2> QED BY <1>1, <2>1, <2>2
<1>9. KeysOpen'
  <2> SUFFICES ASSUME activation' # "idle", NEW m \in Range(lines'), m.type = "ended", m.id = KeyFor'
               PROVE  m.reason # "cancel"
    BY DEF KeysOpen
  <2>1. live'.id # m.id /\ m.id \in Sessions
    <3>1. EndWaits(m)' BY <1>7
    <3>2. m \in Messages BY <1>1
    <3> QED BY <3>1, <3>2, MessageKinds DEF EndWaits
  <2>2. \/ activation # "idle" /\ KeyFor' = KeyFor /\ \A n \in N : n.type = "ended" => n.reason # "cancel"
        \/ live'.id = ids + 1
    BY DEF HelperMoves, Hands
  <2>3. CASE live'.id = ids + 1
    <3>1. live' # NoLive
      <4>1. NoLive.id = 0 BY DEF NoLive, NoSession
      <4> QED BY <1>2, <2>3, <4>1
    <3>2. KeyFor' = live'.id BY <3>1 DEF KeyFor
    <3> QED BY <2>1, <3>2
  <2>4. CASE activation # "idle" /\ KeyFor' = KeyFor /\ \A n \in N : n.type = "ended" => n.reason # "cancel"
    BY <1>0, <1>1, <2>4 DEF LinesWait, KeysOpen
  <2> QED BY <2>2, <2>3, <2>4
<1> QED BY <1>5, <1>6, <1>7, <1>8, <1>9 DEF LinesWait

LEMMA LogKept ==
  ASSUME Told, Based', NEW N \in SUBSET Messages, HelperMoves(N)
  PROVE  Log'
<1>0. /\ Based /\ Log /\ app \in Apps /\ app' = app /\ helper = "up" /\ helper' \in {"up", "exited"}
  BY BasedFields DEF Told, HelperMoves
<1>1. /\ \A s \in Sessions : wrote[s] > 0 => wrote'[s] > 0
      /\ \A s \in Sessions : wrote[s] > 0 /\ live.id # s => live'.id # s
  BY <1>0, MovesKeep
<1>2. Listens'
  <2> SUFFICES ASSUME app.cur # NoCur
               PROVE  /\ wrote'[app.cur.id] > 0 /\ ~Logged(app.cur.id)
                      /\ IF app.cur.end = "no" THEN Ending(app.cur.id)' ELSE live'.id # app.cur.id
    BY <1>0 DEF Listens, Logged
  <2>1. app.cur.id \in Sessions BY <1>0, AppFields
  <2>2. /\ wrote[app.cur.id] > 0 /\ ~Logged(app.cur.id)
        /\ IF app.cur.end = "no" THEN Ending(app.cur.id) ELSE live.id # app.cur.id
    BY <1>0 DEF Log, Listens
  <2>3. app.cur.end = "no" => Ending(app.cur.id)' BY <1>0, <2>1, <2>2, EndingKept
  <2> QED BY <1>1, <2>1, <2>2, <2>3
<1>3. LoggedIsOver' BY <1>0, <1>1 DEF Log, LoggedIsOver, Logged
<1>4. OnceEach(app)' BY <1>0 DEF Log, OnceEach
<1>5. ShownState' BY <1>0 DEF Log, ShownState
<1> QED BY <1>2, <1>3, <1>4, <1>5 DEF Log

-----------------------------------------------------------------------------
(* What the app does to the log.                                             *)

(* A session's end makes it a dictation, and nothing else is logged.         *)
LEMMA EndedLog ==
  ASSUME NEW a \in Apps, a.cur.end # "no", OnceEach(a), a.said[a.cur.id] = <<>>
  PROVE  /\ OnceEach(EndedCur(a))
         /\ \A s \in Sessions :
              EndedCur(a).said[s] # <<>> <=> a.said[s] # <<>> \/ s = a.cur.id
<1> DEFINE t == a.cur.id
           b == EndedCur(a)
           events == IF a.cur.end = "cancel" THEN <<"started", "cancelled">> ELSE <<"started">>
<1>1. /\ b \in Apps /\ t \in Sessions /\ b.inserts = a.inserts
      /\ b.said = [a.said EXCEPT ![t] = a.said[t] \o events]
      /\ IF a.cur.end = "cancel" THEN b.work = a.work ELSE b.work = Append(a.work, t)
  BY EndedIs
<1>2. a.said \in [Sessions -> Seq({"started"} \cup Ends)] /\ a.work \in Seq(Sessions)
  BY AppFields
<1>3. /\ a.said[t] \o events = events /\ events # <<>>
      /\ Len(events) = IF a.cur.end = "cancel" THEN 2 ELSE 1
  OBVIOUS
<1> HIDE DEF events, b
<1>4. /\ b.said[t] = events /\ \A s \in Sessions : s # t => b.said[s] = a.said[s]
  BY <1>1, <1>2, <1>3
<1>5. t \notin Range(a.work) /\ t \notin a.inserts
  <2>1. Len(a.said[t]) = 0 OBVIOUS
  <2> QED BY <2>1 DEF OnceEach
<1>6. CASE a.cur.end = "cancel"
  <2>1. Len(b.said[t]) = 2 BY <1>3, <1>4, <1>6
  <2>2. b.work = a.work BY <1>1, <1>6
  <2>3. Range(a.work) \subseteq Sessions /\ a.inserts \subseteq Sessions BY <1>2, PipeTyped, AppFields
  <2> QED BY <1>1, <1>3, <1>4, <1>5, <2>1, <2>2, <2>3 DEF OnceEach, b
<1>7. CASE a.cur.end # "cancel"
  <2>1. Len(b.said[t]) = 1 BY <1>3, <1>4, <1>7
  <2>2. b.work = Append(a.work, t) BY <1>1, <1>7
  <2>3. /\ Range(b.work) = Range(a.work) \cup {t} /\ Len(b.work) = Len(a.work) + 1 /\ Len(a.work) \in Nat
        /\ \A i \in 1..Len(a.work) : b.work[i] = a.work[i]
        /\ b.work[Len(a.work) + 1] = t
    BY <1>1, <1>2, <2>2, PipeWritten
  <2>4. \A i \in 1..Len(a.work) : a.work[i] \in Range(a.work)
    BY <1>2, RangeEquality
  <2>5. \A i, j \in 1..Len(b.work) : i < j => b.work[i] # b.work[j]
    <3> SUFFICES ASSUME NEW i \in 1..Len(b.work), NEW j \in 1..Len(b.work), i < j
                 PROVE  b.work[i] # b.work[j]
      OBVIOUS
    <3>1. i \in 1..Len(a.work) BY <2>3
    <3>2. CASE j \in 1..Len(a.work) BY <2>3, <3>1, <3>2 DEF OnceEach
    <3>3. CASE j = Len(a.work) + 1 BY <1>5, <2>3, <2>4, <3>1, <3>3
    <3> QED BY <2>3, <3>2, <3>3
  <2>6. Range(a.work) \subseteq Sessions /\ a.inserts \subseteq Sessions BY <1>2, PipeTyped, AppFields
  <2>7. OnceEach(b)
    <3>1. \A s \in Range(b.work) : s \notin b.inserts /\ Len(b.said[s]) = 1
      BY <1>1, <1>4, <1>5, <2>1, <2>3, <2>6 DEF OnceEach
    <3>2. \A s \in b.inserts : Len(b.said[s]) = 1
      BY <1>1, <1>4, <1>5, <2>6 DEF OnceEach
    <3>3. \A s \in Sessions \ (Range(b.work) \cup b.inserts) : Len(b.said[s]) \in {0, 2}
      BY <1>1, <1>4, <2>3 DEF OnceEach
    <3> QED BY <2>5, <3>1, <3>2, <3>3 DEF OnceEach
  <2> QED BY <1>3, <1>4, <2>7 DEF b
<1> QED BY <1>6, <1>7

(* What is read.                                                             *)
LEMMA ReadIs ==
  ASSUME Based, lines # <<>>, lines' = Tail(lines)
  PROVE  /\ Head(lines) \in Messages /\ Head(lines) \in Range(lines) /\ Head(lines).id \in Sessions
         /\ Head(lines).type = "ended" => Head(lines).reason \in Reasons
         /\ Head(lines).type = "key" => Head(lines).ask \in Keys
         /\ Range(lines) = Range(lines') \cup {Head(lines)}
         /\ helper # "gone"
<1>1. lines \in Seq(Messages) BY BasedFields
<1>2. /\ Head(lines) \in Messages /\ Head(lines) \in Range(lines)
      /\ Range(lines) = Range(Tail(lines)) \cup {Head(lines)}
  BY <1>1, PipeRead
<1>3. helper # "gone" BY DEF Based, Down
<1> QED BY <1>2, <1>3, MessageKinds

LEMMA EndReadIs ==
  ASSUME Based, ReadEnded
  PROVE  LET h == Head(lines)
             mine == app.cur.id = h.id /\ app.cur.end = "no"
         IN /\ lines # <<>> /\ lines' = Tail(lines) /\ h.type = "ended"
            /\ UNCHANGED <<helperVars, packets, commands>>
            /\ app.cur.id = app'.cur.id /\ app'.cur.chunks = app.cur.chunks
            /\ app'.cur.end = IF mine THEN h.reason ELSE app.cur.end
            /\ \A f \in Fields \ {"cur"} : app'[f] = app[f]
<1> DEFINE h == Head(lines)
<1>1. /\ lines # <<>> /\ lines' = Tail(lines) /\ h.type = "ended"
      /\ UNCHANGED <<helperVars, packets, commands>> /\ app \in Apps
      /\ app' = IF app.cur.id = h.id /\ app.cur.end = "no"
                THEN [app EXCEPT !.cur.end = h.reason] ELSE app
  BY BasedFields DEF ReadEnded, Read
<1>2. h.id \in Sessions /\ h.reason \in {"no"} \cup Reasons BY <1>1, ReadIs
<1>3. CASE app.cur.id = h.id /\ app.cur.end = "no"
  <2> HIDE DEF h
  <2>1. app.cur # NoCur /\ app.cur.stopping \in BOOLEAN BY <1>1, <1>2, <1>3, AppFields, Bounds
  <2>2. app.cur \in [id : Sessions, chunks : Seq(Packets), end : {"no"} \cup Reasons,
                     stopping : BOOLEAN]
    BY <1>1, <2>1, AppFields DEF Curs
  <2> DEFINE cur == [app.cur EXCEPT !.end = h.reason]
  <2>3. /\ cur \in Curs /\ cur.id = app.cur.id /\ cur.chunks = app.cur.chunks /\ cur.end = h.reason
    BY <1>2, <2>2 DEF Curs
  <2>4. app' = [app EXCEPT !.cur = cur] BY <1>1, <1>3
  <2> HIDE DEF cur
  <2>5. app'.cur = cur BY <1>1, <2>4 DEF Apps
  <2>6. \A f \in Fields \ {"cur"} : app'[f] = app[f] BY <1>1, <2>4 DEF Apps, Fields
  <2> QED BY <1>1, <1>3, <2>3, <2>5, <2>6 DEF h
<1>4. CASE ~(app.cur.id = h.id /\ app.cur.end = "no") BY <1>1, <1>4
<1> QED BY <1>3, <1>4

LEMMA KeyReadIs ==
  ASSUME Based, ReadKey
  PROVE  LET h == Head(lines)
             owner == KeyOwner(app)
         IN /\ lines # <<>> /\ lines' = Tail(lines) /\ h.type = "key" /\ owner \in Sessions \cup {NoSession}
            /\ UNCHANGED <<helperVars, packets>>
            /\ app'.asked = IF owner # NoSession THEN [app.asked EXCEPT ![owner] = h.ask] ELSE app.asked
            /\ \/ commands' = commands /\ app'.late = app.late
               \/ /\ owner = NoSession /\ h.ask = "send" /\ app.late # <<>>
                  /\ Send([type |-> "send", id |-> Last(app.late)])
                  /\ Last(app.late) \in Range(app.late) /\ Range(app.late) \subseteq Sessions
                  /\ Range(app'.late) \subseteq Range(app.late)
            /\ \A f \in Fields \ {"asked", "late"} : app'[f] = app[f]
<1> DEFINE h == Head(lines)
           owner == KeyOwner(app)
<1>1. /\ lines # <<>> /\ lines' = Tail(lines) /\ h.type = "key"
      /\ UNCHANGED <<helperVars, packets>> /\ app \in Apps
  BY BasedFields DEF ReadKey, Read
<1>2. h.ask \in Keys BY <1>1, ReadIs
<1>3. owner \in Sessions \cup {NoSession} BY <1>1, AppFields DEF KeyOwner
<1>4. CASE owner # NoSession
  <2>1. app' = [app EXCEPT !.asked[owner] = h.ask] /\ commands' = commands
    BY <1>4 DEF ReadKey
  <2>2. owner \in Sessions BY <1>3, <1>4
  <2> HIDE DEF owner, h
  <2>3. app'.asked = [app.asked EXCEPT ![owner] = h.ask] BY <1>1, <1>2, <2>1, <2>2, AskedIs
  <2>4. \A f \in Fields \ {"asked"} : app'[f] = app[f]
    BY <1>1, <2>1 DEF Apps, Fields
  <2>5. app'.late = app.late BY <2>4 DEF Fields
  <2> QED BY <1>1, <1>3, <1>4, <2>1, <2>3, <2>4, <2>5 DEF h, owner
<1>5. CASE owner = NoSession /\ h.ask = "send" /\ app.late # <<>>
  <2>1. /\ Send([type |-> "send", id |-> Last(app.late)])
        /\ app' = [app EXCEPT !.late = Front(app.late)]
    BY <1>5 DEF ReadKey
  <2>2. /\ Last(app.late) \in Range(app.late) /\ Range(app.late) \subseteq Sessions
        /\ Range(app'.late) \subseteq Range(app.late)
    BY <1>1, <1>5, <2>1, LateIs
  <2>3. \A f \in Fields \ {"late"} : app'[f] = app[f] BY <1>1, <1>5, <2>1, LateIs
  <2>4. app'.asked = app.asked BY <2>3 DEF Fields
  <2> QED BY <1>1, <1>3, <1>5, <2>1, <2>2, <2>3, <2>4
<1>6. CASE owner = NoSession /\ ~(h.ask = "send" /\ app.late # <<>>)
  <2>1. app' = app /\ commands' = commands BY <1>6 DEF ReadKey
  <2> QED BY <1>1, <1>3, <1>6, <2>1
<1> QED BY <1>4, <1>5, <1>6

LEMMA StopByIs ==
  ASSUME Based, StopBy
  PROVE  /\ UNCHANGED <<helperVars, lines, packets>>
         /\ app.cur # NoCur /\ app.cur.end = "no"
         /\ Send([type |-> "stop", id |-> NoSession])
         /\ app'.cur.id = app.cur.id /\ app'.cur.chunks = app.cur.chunks /\ app'.cur.end = app.cur.end
         /\ \A f \in Fields \ {"cur"} : app'[f] = app[f]
<1>1. /\ UNCHANGED <<helperVars, lines, packets>> /\ app.cur # NoCur /\ app.cur.end = "no"
      /\ Send([type |-> "stop", id |-> NoSession]) /\ app \in Apps
      /\ app' = [app EXCEPT !.cur.stopping = TRUE]
  BY BasedFields DEF StopBy
<1>2. app.cur \in [id : Sessions, chunks : Seq(Packets), end : {"no"} \cup Reasons,
                   stopping : BOOLEAN]
  BY <1>1, AppFields DEF Curs
<1> DEFINE cur == [app.cur EXCEPT !.stopping = TRUE]
<1>3. cur \in Curs /\ cur.id = app.cur.id /\ cur.chunks = app.cur.chunks /\ cur.end = app.cur.end
  BY <1>2 DEF Curs
<1>4. app' = [app EXCEPT !.cur = cur] BY <1>1
<1> HIDE DEF cur
<1>5. app'.cur = cur BY <1>1, <1>4 DEF Apps
<1>6. \A f \in Fields \ {"cur"} : app'[f] = app[f] BY <1>1, <1>4 DEF Apps, Fields
<1> QED BY <1>1, <1>3, <1>5, <1>6

(* Whatever the app makes of what it reads, the lines that wait come after   *)
(* it, and its session and its log are right, if it logs no session but the  *)
(* one that ended and listens to none but that of a line.                    *)
LEMMA AppTold ==
  ASSUME Told, Based', UNCHANGED helperVars, lines' = lines \/ (lines # <<>> /\ lines' = Tail(lines)),
         OnceEach(app'), ShownState',
         NEW h, h = Head(lines),
         \A s \in Sessions : Logged(s)' => Logged(s) \/ (s = app.cur.id /\ app.cur.end # "no"),
         \/ app'.cur = NoCur
         \/ /\ app'.cur.id = app.cur.id /\ app'.cur.end = app.cur.end
            /\ \A s \in Sessions : Logged(s)' => Logged(s)
            /\ lines' = lines \/ h.type # "ended" \/ h.id # app.cur.id \/ app.cur.end # "no"
         \/ /\ lines # <<>> /\ lines' = Tail(lines) /\ h.type = "started"
            /\ app'.cur.id = h.id /\ app'.cur.end = "no"
         \/ /\ lines # <<>> /\ lines' = Tail(lines) /\ h.type = "ended"
            /\ app'.cur.id = app.cur.id /\ app.cur.id = h.id /\ app'.cur.end # "no"
            /\ \A s \in Sessions : Logged(s)' => Logged(s)
  PROVE  Told'
<1>0. /\ Based /\ LinesWait /\ Log /\ OthersOver
      /\ lines \in Seq(Messages) /\ app \in Apps /\ app' \in Apps /\ lines' \in Seq(Messages)
  BY BasedFields DEF Told, Based, Typed, TypeOK
<1>1. /\ helper' = helper /\ live' = live /\ last' = last /\ ids' = ids /\ wrote' = wrote
      /\ activation' = activation
  BY DEF helperVars
<1>2. lines' = lines \/ (/\ lines # <<>> /\ Range(lines) = Range(lines') \cup {h}
                         /\ h \in Range(lines) /\ h.id \in Sessions /\ Ordered(lines')
                         /\ \A n \in Range(lines') : InOrder(h, n))
  BY <1>0, ReadIs, OrderedTail DEF LinesWait
<1>3. Range(lines') \subseteq Range(lines) /\ Ordered(lines') BY <1>0, <1>2 DEF LinesWait
<1>4. ASSUME NEW s \in Sessions, Ending(s), ~(h.type = "ended" /\ h.id = s) \/ lines' = lines
      PROVE  Ending(s)'
  BY <1>1, <1>2, <1>3, <1>4 DEF Ending
<1>5. \A m \in Range(lines) : m.id \in Sessions /\ m.id \in Nat
  BY <1>0, PipeTyped, MessageKinds, Bounds
<1>6. ASSUME NEW n \in Range(lines'), n.type = "started"
      PROVE  StartWaits(n)'
  <2>1. StartWaits(n) /\ n \in Range(lines) BY <1>0, <1>3, <1>6 DEF LinesWait
  <2>2. lines' # lines => InOrder(h, n) BY <1>2, <1>6
  <2>3. Ending(n.id)'
    <3>1. h.type = "ended" /\ lines' # lines => h.id < n.id BY <1>6, <2>2 DEF InOrder
    <3>2. ~(h.type = "ended" /\ h.id = n.id) \/ lines' = lines BY <1>5, <2>1, <3>1
    <3> QED BY <1>4, <1>5, <2>1, <3>2 DEF StartWaits
  <2>4. \A s \in Sessions : Logged(s)' => s < n.id BY <2>1 DEF StartWaits
  <2>5. app'.cur.id < n.id
    <3>1. CASE app'.cur = NoCur
      <4>1. app'.cur.id = 0 BY <3>1 DEF NoCur, NoSession
      <4> QED BY <1>5, <2>1, <4>1, Bounds DEF NoSession
    <3>2. CASE app'.cur.id = app.cur.id BY <2>1, <3>2 DEF StartWaits
    <3>3. CASE lines # <<>> /\ lines' = Tail(lines) /\ h.type = "started" /\ app'.cur.id = h.id
      <4>1. InOrder(h, n) BY <1>0, <1>6, <3>3, OrderedTail DEF LinesWait
      <4> QED BY <1>6, <3>3, <4>1 DEF InOrder
    <3> QED BY <3>1, <3>2, <3>3
  <2> QED BY <1>1, <2>1, <2>3, <2>4, <2>5 DEF StartWaits
<1>7. LinesWait'
  <2>1. ASSUME NEW m \in Range(lines'), m.type = "ended" PROVE EndWaits(m)'
    BY <1>0, <1>1, <1>3, <2>1 DEF LinesWait, EndWaits
  <2>2. ASSUME NEW m \in Range(lines'), m.type = "key" PROVE KeyIsOld(m)'
    BY <1>0, <1>1, <1>3, <2>2 DEF LinesWait, KeyIsOld
  <2>3. KeysOpen' BY <1>0, <1>1, <1>3 DEF LinesWait, KeysOpen, KeyFor
  <2> QED BY <1>3, <1>6, <2>1, <2>2, <2>3 DEF LinesWait
<1>8. OthersOver' BY <1>0, <1>1 DEF OthersOver
<1>9. app.cur.id \in Sessions => app.cur # NoCur BY <1>0, AppFields, Bounds
<1>10. app'.cur # NoCur => app'.cur.id \in Sessions BY <1>0, AppFields
<1>11. ASSUME lines # <<>>, lines' = Tail(lines), h.type = "started"
       PROVE  /\ wrote[h.id] > 0 /\ Ending(h.id)' /\ h.id \in Sessions
              /\ \A s \in Sessions : Logged(s)' => s < h.id
  <2>1. h \in Range(lines) /\ h.id \in Sessions BY <1>0, <1>11, ReadIs
  <2>2. StartWaits(h) BY <1>0, <1>11, <2>1 DEF LinesWait
  <2>3. Ending(h.id)' BY <1>4, <1>11, <2>1, <2>2 DEF StartWaits
  <2> QED BY <2>1, <2>2, <2>3 DEF StartWaits
<1>12. ASSUME lines # <<>>, lines' = Tail(lines), h.type = "ended"
       PROVE  live.id # h.id
  BY <1>0, <1>12, ReadIs DEF LinesWait, EndWaits
<1>13. Listens'
  <2> SUFFICES ASSUME app'.cur # NoCur, NEW t \in Sessions, t = app'.cur.id
               PROVE  /\ wrote[t] > 0 /\ ~Logged(t)'
                      /\ IF app'.cur.end = "no" THEN Ending(t)' ELSE live.id # t
    BY <1>1, <1>10 DEF Listens, Logged, Ending
  <2>1. CASE /\ t = app.cur.id /\ app'.cur.end = app.cur.end
             /\ \A s \in Sessions : Logged(s)' => Logged(s)
             /\ lines' = lines \/ h.type # "ended" \/ h.id # app.cur.id \/ app.cur.end # "no"
    <3>1. app.cur # NoCur BY <1>9, <2>1
    <3>2. wrote[t] > 0 /\ ~Logged(t) /\ IF app.cur.end = "no" THEN Ending(t) ELSE live.id # t
      BY <1>0, <2>1, <3>1 DEF Log, Listens
    <3>3. app.cur.end = "no" => Ending(t)' BY <1>4, <2>1, <3>2
    <3> QED BY <2>1, <3>2, <3>3
  <2>2. CASE /\ lines # <<>> /\ lines' = Tail(lines) /\ h.type = "started"
             /\ t = h.id /\ app'.cur.end = "no"
    <3>1. ~(t < t) BY Bounds
    <3> QED BY <1>11, <2>2, <3>1
  <2>3. CASE /\ lines # <<>> /\ lines' = Tail(lines) /\ h.type = "ended"
             /\ t = app.cur.id /\ app.cur.id = h.id /\ app'.cur.end # "no"
             /\ \A s \in Sessions : Logged(s)' => Logged(s)
    <3>1. app.cur # NoCur BY <1>9, <2>3
    <3>2. wrote[t] > 0 /\ ~Logged(t) BY <1>0, <2>3, <3>1 DEF Log, Listens
    <3> QED BY <1>12, <2>3, <3>2
  <2> QED BY <2>1, <2>2, <2>3
<1>14. ASSUME NEW s \in Sessions, Logged(s)'
       PROVE  wrote[s] > 0 /\ live.id # s
  <2>1. CASE Logged(s) BY <1>0, <2>1 DEF Log, LoggedIsOver
  <2>2. CASE s = app.cur.id /\ app.cur.end # "no" BY <1>0, <1>9, <2>2 DEF Log, Listens
  <2> QED BY <1>14, <2>1, <2>2
<1>15. ASSUME NEW s \in Sessions, Logged(s)', app'.cur # NoCur
       PROVE  s < app'.cur.id
  <2>1. CASE app'.cur.id = app.cur.id /\ Logged(s)
    <3>1. app.cur # NoCur BY <1>9, <1>10, <1>15, <2>1
    <3> QED BY <1>0, <2>1, <3>1 DEF Log, LoggedIsOver
  <2>2. CASE lines # <<>> /\ lines' = Tail(lines) /\ h.type = "started" /\ app'.cur.id = h.id
    BY <1>11, <1>15, <2>2
  <2> QED BY <1>15, <2>1, <2>2
<1>16. LoggedIsOver'
  BY <1>1, <1>14, <1>15 DEF LoggedIsOver
<1> QED BY <1>7, <1>8, <1>13, <1>16 DEF Told, Log

(* A session that ends: it was not logged, and the state is that of what is  *)
(* left.                                                                     *)
LEMMA EndedTold ==
  ASSUME Told, app.cur.end # "no", NEW b, b = EndedCur(app)
  PROVE  /\ b \in Apps /\ b.cur = NoCur /\ OnceEach(b) /\ app.cur.id \in Sessions
         /\ b.early = app.early /\ b.inserts = app.inserts /\ b.late = app.late /\ b.asked = app.asked
         /\ helper # "gone" /\ ~Logged(app.cur.id) /\ app.cur # NoCur /\ wrote[app.cur.id] > 0
         /\ \A s \in Sessions : b.said[s] # <<>> <=> Logged(s) \/ s = app.cur.id
         /\ b.state = IF b.work # <<>> THEN "transcribing"
                      ELSE IF b.inserts # {} THEN "inserting" ELSE "idle"
<1>1. app \in Apps /\ app.cur # NoCur /\ app.cur.id \in Sessions /\ Based
  <2>1. app \in Apps /\ Based BY BasedFields DEF Told
  <2> QED BY <2>1, AppFields
<1>2. helper # "gone" BY <1>1 DEF Based, Down
<1>3. ~Logged(app.cur.id) /\ OnceEach(app) /\ app.state = "listening" /\ wrote[app.cur.id] > 0
  BY <1>1, <1>2 DEF Told, Log, Listens, ShownState
<1>4. /\ OnceEach(EndedCur(app))
      /\ \A s \in Sessions : EndedCur(app).said[s] # <<>> <=> app.said[s] # <<>> \/ s = app.cur.id
  BY <1>1, <1>3, EndedLog DEF Logged
<1>5. /\ b \in Apps /\ b.cur = NoCur
      /\ b.early = app.early /\ b.inserts = app.inserts /\ b.late = app.late /\ b.asked = app.asked
      /\ IF app.cur.end = "cancel"
         THEN /\ b.work = app.work
              /\ b.state = IF app.state = "starting" THEN app.state
                           ELSE IF app.work # <<>> THEN "transcribing"
                           ELSE IF app.inserts # {} THEN "inserting" ELSE "idle"
         ELSE b.work = Append(app.work, app.cur.id) /\ b.state = "transcribing"
  BY <1>1, EndedIs
<1>6. Append(app.work, app.cur.id) # <<>>
  <2>1. app.work \in Seq(Sessions) BY <1>1, AppFields
  <2> QED BY <1>1, <2>1, AppendProperties
<1>7. b.state = IF b.work # <<>> THEN "transcribing"
                ELSE IF b.inserts # {} THEN "inserting" ELSE "idle"
  BY <1>3, <1>5, <1>6
<1> QED BY <1>1, <1>2, <1>3, <1>4, <1>5, <1>7 DEF Logged

LEMMA StartedTold ==
  ASSUME Told, Based', ReadStarted
  PROVE  Told'
<1> DEFINE h == Head(lines)
           b == IF app.cur.end # "no" THEN EndedCur(app) ELSE app
<1>1. /\ lines # <<>> /\ lines' = Tail(lines) /\ h.type = "started" /\ app' = StartedNow(app, h.id)
      /\ UNCHANGED helperVars
  BY DEF ReadStarted, Read
<1>2. Based /\ Log /\ app \in Apps /\ app' \in Apps BY BasedFields DEF Told, Based, Typed, TypeOK
<1>3. h.id \in Sessions /\ helper # "gone" BY <1>1, <1>2, ReadIs
<1>4. /\ app'.cur.id = h.id /\ app'.cur.end = "no" /\ app'.state = "listening"
      /\ \A f \in Fields \ {"cur", "early", "state"} : app'[f] = b[f]
  <2> DEFINE t == h.id
  <2>1. t \in Sessions /\ app' = StartedNow(app, t) BY <1>1, <1>3
  <2> HIDE DEF t, h
  <2>2. app'.cur.id = t /\ app'.cur.end = "no" /\ app'.state = "listening"
    BY <1>2, <2>1, StartedIs
  <2>3. \A f \in Fields \ {"cur", "early", "state"} : app'[f] = b[f]
    BY <1>2, <2>1, StartedIs
  <2> QED BY <2>2, <2>3 DEF t
<1>5. /\ OnceEach(b)
      /\ \A s \in Sessions : b.said[s] # <<>> => Logged(s) \/ (s = app.cur.id /\ app.cur.end # "no")
  BY <1>2, EndedTold DEF Log, Logged
<1> HIDE DEF b
<1>6. app'.work = b.work /\ app'.inserts = b.inserts /\ app'.said = b.said BY <1>4 DEF Fields
<1>7. OnceEach(app') BY <1>5, <1>6 DEF OnceEach
<1>8. app'.cur # NoCur BY <1>2, <1>3, <1>4, AppFields, Bounds
<1>9. ShownState' BY <1>1, <1>3, <1>4, <1>8 DEF ShownState, helperVars
<1>10. \A s \in Sessions : Logged(s)' => Logged(s) \/ (s = app.cur.id /\ app.cur.end # "no")
  BY <1>5, <1>6 DEF Logged
<1> HIDE DEF h
<1> QED BY <1>1, <1>4, <1>7, <1>9, <1>10, AppTold DEF h

LEMMA EndReadTold ==
  ASSUME Told, Based', ReadEnded
  PROVE  Told'
<1> DEFINE h == Head(lines)
           mine == app.cur.id = h.id /\ app.cur.end = "no"
<1>0. Based /\ Log /\ app \in Apps /\ app' \in Apps BY BasedFields DEF Told, Based, Typed, TypeOK
<1>1. /\ lines # <<>> /\ lines' = Tail(lines) /\ h.type = "ended"
      /\ UNCHANGED helperVars
      /\ app'.cur.id = app.cur.id
      /\ app'.cur.end = IF mine THEN h.reason ELSE app.cur.end
      /\ \A f \in Fields \ {"cur"} : app'[f] = app[f]
  BY <1>0, EndReadIs
<1>2. h.id \in Sessions /\ h.reason \in Reasons BY <1>0, <1>1, ReadIs
<1>3. h.reason # "no" BY <1>2 DEF Reasons
<1>4. app'.work = app.work /\ app'.inserts = app.inserts /\ app'.said = app.said /\ app'.state = app.state
  BY <1>1 DEF Fields
<1>5. OnceEach(app') BY <1>0, <1>4 DEF OnceEach, Log
<1>6. app'.cur = NoCur <=> app.cur = NoCur BY <1>0, <1>1, AppFields
<1>7. ShownState' BY <1>0, <1>1, <1>4, <1>6 DEF ShownState, Log, helperVars
<1>8. \A s \in Sessions : Logged(s)' => Logged(s) BY <1>4 DEF Logged
<1> HIDE DEF h
<1> QED BY <1>1, <1>3, <1>5, <1>7, <1>8, AppTold DEF h

(* What changes neither the session nor what is logged.                      *)
LEMMA SameTold ==
  ASSUME Told, Based', UNCHANGED helperVars,
         lines' = lines \/ (lines # <<>> /\ lines' = Tail(lines) /\ Head(lines).type # "ended"),
         app'.cur.id = app.cur.id, app'.cur.end = app.cur.end,
         OnceEach(app'), ShownState', \A s \in Sessions : Logged(s)' => Logged(s)
  PROVE  Told'
<1> DEFINE h == Head(lines)
<1>1. h.type # "ended" \/ lines' = lines OBVIOUS
<1> HIDE DEF h
<1> QED BY <1>1, AppTold DEF h

LEMMA KeyReadTold ==
  ASSUME Told, Based', ReadKey
  PROVE  Told'
<1>0. Based /\ Log /\ app \in Apps BY BasedFields DEF Told
<1>1. /\ lines # <<>> /\ lines' = Tail(lines) /\ Head(lines).type = "key" /\ UNCHANGED helperVars
      /\ \A f \in Fields \ {"asked", "late"} : app'[f] = app[f]
  BY <1>0, KeyReadIs
<1>2. /\ app'.cur = app.cur /\ app'.work = app.work /\ app'.inserts = app.inserts
      /\ app'.said = app.said /\ app'.state = app.state
  BY <1>1 DEF Fields
<1>3. OnceEach(app') BY <1>0, <1>2 DEF OnceEach, Log
<1>4. ShownState' BY <1>0, <1>1, <1>2 DEF ShownState, Log, helperVars
<1>5. \A s \in Sessions : Logged(s)' => Logged(s) BY <1>2 DEF Logged
<1> QED BY <1>1, <1>2, <1>3, <1>4, <1>5, SameTold

LEMMA StopByTold ==
  ASSUME Told, Based', StopBy
  PROVE  Told'
<1>0. Based /\ Log /\ app \in Apps /\ app' \in Apps BY BasedFields DEF Told, Based, Typed, TypeOK
<1>1. /\ lines' = lines /\ UNCHANGED helperVars /\ app'.cur.id = app.cur.id /\ app'.cur.end = app.cur.end
      /\ \A f \in Fields \ {"cur"} : app'[f] = app[f]
  BY <1>0, StopByIs
<1>2. /\ app'.work = app.work /\ app'.inserts = app.inserts /\ app'.said = app.said
      /\ app'.state = app.state
  BY <1>1 DEF Fields
<1>3. app'.cur = NoCur <=> app.cur = NoCur BY <1>0, <1>1, AppFields
<1>4. OnceEach(app') BY <1>0, <1>2 DEF OnceEach, Log
<1>5. ShownState' BY <1>0, <1>1, <1>2, <1>3 DEF ShownState, Log, helperVars
<1>6. \A s \in Sessions : Logged(s)' => Logged(s) BY <1>2 DEF Logged
<1> QED BY <1>1, <1>4, <1>5, <1>6, SameTold

LEMMA DrainTold ==
  ASSUME Told, Based', DrainEnds
  PROVE  Told'
<1>0. Based /\ Log /\ app \in Apps BY BasedFields DEF Told
<1>1. app.cur.end # "no" /\ app' = EndedCur(app) /\ lines' = lines /\ UNCHANGED helperVars
  BY DEF DrainEnds, pipes
<1>2. /\ app'.cur = NoCur /\ OnceEach(app') /\ helper # "gone"
      /\ \A s \in Sessions : app'.said[s] # <<>> => Logged(s) \/ s = app.cur.id
      /\ app'.state = IF app'.work # <<>> THEN "transcribing"
                      ELSE IF app'.inserts # {} THEN "inserting" ELSE "idle"
  BY <1>1, EndedTold
<1>3. ShownState' BY <1>1, <1>2 DEF ShownState, helperVars
<1>4. \A s \in Sessions : Logged(s)' => Logged(s) \/ (s = app.cur.id /\ app.cur.end # "no")
  BY <1>1, <1>2 DEF Logged
<1> DEFINE h == Head(lines)
<1> HIDE DEF h
<1> QED BY <1>1, <1>2, <1>3, <1>4, AppTold DEF h

LEMMA PacketTold ==
  ASSUME Told, Based', ReadPacket
  PROVE  Told'
<1> DEFINE p == Head(packets)
           e == app.cur.end # "no" /\ app.cur.chunks # <<>> /\ p.n = 0
           b == IF e THEN EndedCur(app) ELSE app
<1>0. Based /\ Log /\ app \in Apps /\ app' \in Apps BY BasedFields DEF Told, Based, Typed, TypeOK
<1>1. packets # <<>> /\ app' = Heard(app, p) /\ lines' = lines /\ UNCHANGED helperVars
  BY DEF ReadPacket
<1>2. p \in Packets /\ helper # "gone"
  <2>1. packets \in Seq(Packets) BY <1>0, BasedFields
  <2> QED BY <1>0, <1>1, <2>1, PipeRead DEF Based, Down
<1>3. /\ b \in Apps
      /\ IF b.cur # NoCur
         THEN app'.cur = [b.cur EXCEPT !.chunks = Append(b.cur.chunks, p)]
         ELSE app'.cur = NoCur
      /\ \A f \in Fields \ {"cur", "early"} : app'[f] = b[f]
  BY <1>0, <1>1, <1>2, HeardIs
<1>4. CASE e
  <2>1. b = EndedCur(app) BY <1>4
  <2> HIDE DEF b
  <2>2. /\ b.cur = NoCur /\ OnceEach(b)
        /\ \A s \in Sessions : b.said[s] # <<>> => Logged(s) \/ s = app.cur.id
        /\ b.state = IF b.work # <<>> THEN "transcribing"
                     ELSE IF b.inserts # {} THEN "inserting" ELSE "idle"
    BY <1>4, <2>1, EndedTold
  <2>3. /\ app'.work = b.work /\ app'.inserts = b.inserts /\ app'.said = b.said
        /\ app'.state = b.state /\ app'.cur = NoCur
    BY <1>3, <2>2 DEF Fields
  <2>4. OnceEach(app') BY <2>2, <2>3 DEF OnceEach
  <2>5. ShownState' BY <1>1, <1>2, <2>2, <2>3 DEF ShownState, helperVars
  <2>6. \A s \in Sessions : Logged(s)' => Logged(s) \/ (s = app.cur.id /\ app.cur.end # "no")
    BY <1>4, <2>2, <2>3 DEF Logged
  <2> DEFINE h == Head(lines)
  <2> HIDE DEF h
  <2> QED BY <1>1, <2>3, <2>4, <2>5, <2>6, AppTold DEF h
<1>5. CASE ~e
  <2>1. b = app BY <1>5
  <2> HIDE DEF b
  <2>2. /\ app'.work = app.work /\ app'.inserts = app.inserts /\ app'.said = app.said
        /\ app'.state = app.state
    BY <1>3, <2>1 DEF Fields
  <2>3. app'.cur.id = app.cur.id /\ app'.cur.end = app.cur.end
    <3>1. CASE app.cur # NoCur
      <4>1. app.cur \in [id : Sessions, chunks : Seq(Packets), end : {"no"} \cup Reasons,
                         stopping : BOOLEAN]
        BY <1>0, <3>1, AppFields DEF Curs
      <4> QED BY <1>3, <2>1, <3>1, <4>1
    <3>2. CASE app.cur = NoCur BY <1>3, <2>1, <3>2
    <3> QED BY <3>1, <3>2
  <2>4. app'.cur = NoCur <=> app.cur = NoCur BY <1>0, <2>3, AppFields
  <2>5. OnceEach(app') BY <1>0, <2>2 DEF OnceEach, Log
  <2>6. ShownState' BY <1>0, <1>1, <2>2, <2>4 DEF ShownState, Log, helperVars
  <2>7. \A s \in Sessions : Logged(s)' => Logged(s) BY <2>2 DEF Logged
  <2> QED BY <1>1, <2>3, <2>5, <2>6, <2>7, SameTold
<1> QED BY <1>4, <1>5

(* The events of a dictation, one more.                                      *)
LEMMA OneMore ==
  ASSUME NEW a \in Apps, NEW s \in Sessions, NEW what \in Ends
  PROVE  /\ Len(Append(a.said[s], what)) = Len(a.said[s]) + 1 /\ Len(a.said[s]) \in Nat
         /\ a.said[s] # <<>> <=> Len(a.said[s]) # 0
<1>1. a.said \in [Sessions -> Seq({"started"} \cup Ends)] BY AppFields
<1> DEFINE S == {"started"} \cup Ends
           q == a.said[s]
<1>2. q \in Seq(S) /\ what \in S BY <1>1
<1> HIDE DEF q, S
<1>3. Len(Append(q, what)) = Len(q) + 1 /\ Len(q) \in Nat
  BY <1>2, AppendProperties, LenProperties
<1>4. q # <<>> <=> Len(q) # 0 BY <1>2, EmptySeq
<1> QED BY <1>3, <1>4 DEF q

LEMMA OnceAnswered ==
  ASSUME app \in Apps, OnceEach(app), NEW s \in app.inserts, NEW what \in Ends,
         app'.said = [app.said EXCEPT ![s] = Append(app.said[s], what)],
         app'.work = app.work, app'.inserts = app.inserts \ {s}
  PROVE  OnceEach(app') /\ \A t \in Sessions : Logged(t)' => Logged(t)
<1> DEFINE a == app
           b == app'
<1>1. a.inserts \subseteq Sessions /\ s \in Sessions /\ Range(a.work) \subseteq Sessions
  BY AppFields, PipeTyped
<1>2. Len(a.said[s]) = 1 /\ s \notin Range(a.work) BY DEF OnceEach
<1>3. /\ Len(b.said[s]) = 2 /\ a.said[s] # <<>>
      /\ \A t \in Sessions : t # s => b.said[t] = a.said[t]
  <2>1. a.said \in [Sessions -> Seq({"started"} \cup Ends)] BY AppFields
  <2>2. b.said[s] = Append(a.said[s], what) /\ \A t \in Sessions : t # s => b.said[t] = a.said[t]
    BY <1>1, <2>1
  <2>3. Len(Append(a.said[s], what)) = Len(a.said[s]) + 1 /\ (a.said[s] # <<>> <=> Len(a.said[s]) # 0)
    BY <1>1, OneMore
  <2> QED BY <1>2, <2>2, <2>3
<1>4. \A t \in Range(b.work) : t \notin b.inserts /\ Len(b.said[t]) = 1
  BY <1>1, <1>2, <1>3 DEF OnceEach
<1>5. \A t \in b.inserts : Len(b.said[t]) = 1 BY <1>1, <1>3 DEF OnceEach
<1>6. \A t \in Sessions \ (Range(b.work) \cup b.inserts) : Len(b.said[t]) \in {0, 2}
  BY <1>1, <1>3 DEF OnceEach
<1>7. OnceEach(b) BY <1>4, <1>5, <1>6 DEF OnceEach
<1> QED BY <1>3, <1>7 DEF Logged

LEMMA OnceDecoded ==
  ASSUME app \in Apps, OnceEach(app), app.work # <<>>, NEW s, s = Head(app.work),
         app'.work = Tail(app.work),
         \/ app'.inserts = app.inserts \cup {s} /\ app'.said = app.said
         \/ /\ app'.inserts = app.inserts
            /\ \E what \in Ends : app'.said = [app.said EXCEPT ![s] = Append(app.said[s], what)]
  PROVE  OnceEach(app') /\ \A t \in Sessions : Logged(t)' => Logged(t)
<1> DEFINE a == app
           b == app'
<1>1. /\ a.inserts \subseteq Sessions /\ Range(a.work) \subseteq Sessions /\ a.work \in Seq(Sessions)
  BY AppFields, PipeTyped
<1> DEFINE r == Tail(a.work)
<1>2. /\ s \in Sessions /\ s = a.work[1] /\ r \in Seq(Sessions)
      /\ Len(a.work) \in Nat \ {0} /\ Len(r) = Len(a.work) - 1
      /\ \A i \in 1..Len(r) : r[i] = a.work[i + 1]
      /\ Range(a.work) = Range(r) \cup {s}
  BY <1>1, PipeRead
<1> HIDE DEF r
<1>3. s \notin Range(r)
  <2> SUFFICES ASSUME s \in Range(r) PROVE FALSE OBVIOUS
  <2>1. Range(r) = {r[i] : i \in 1..Len(r)} BY <1>2, RangeEquality
  <2>2. PICK i \in 1..Len(r) : s = r[i] BY <2>1
  <2>3. 1 \in 1..Len(a.work) /\ i + 1 \in 1..Len(a.work) /\ 1 < i + 1 /\ a.work[i + 1] = s
    BY <1>2, <2>2
  <2> QED BY <1>2, <2>3 DEF OnceEach
<1>4. Len(a.said[s]) = 1 /\ s \notin a.inserts BY <1>2 DEF OnceEach
<1>5. \A i, j \in 1..Len(b.work) : i < j => b.work[i] # b.work[j]
  <2> SUFFICES ASSUME NEW i \in 1..Len(r), NEW j \in 1..Len(r), i < j PROVE r[i] # r[j]
    BY DEF r
  <2>1. i + 1 \in 1..Len(a.work) /\ j + 1 \in 1..Len(a.work) /\ i + 1 < j + 1 BY <1>2
  <2> QED BY <1>2, <2>1 DEF OnceEach
<1>6. b.work = r BY DEF r
<1>7. CASE b.inserts = a.inserts \cup {s} /\ b.said = a.said
  <2>1. \A t \in Range(r) : t \notin b.inserts /\ Len(b.said[t]) = 1
    BY <1>2, <1>3, <1>7 DEF OnceEach
  <2>2. \A t \in b.inserts : Len(b.said[t]) = 1 BY <1>4, <1>7 DEF OnceEach
  <2>3. \A t \in Sessions \ (Range(r) \cup b.inserts) : Len(b.said[t]) \in {0, 2}
    BY <1>2, <1>7 DEF OnceEach
  <2>4. OnceEach(b) BY <1>5, <1>6, <2>1, <2>2, <2>3 DEF OnceEach
  <2> QED BY <1>7, <2>4 DEF Logged
<1>8. ASSUME b.inserts = a.inserts, NEW what \in Ends,
             b.said = [a.said EXCEPT ![s] = Append(a.said[s], what)]
      PROVE  OnceEach(b) /\ \A t \in Sessions : b.said[t] # <<>> => a.said[t] # <<>>
  <2>1. /\ Len(b.said[s]) = 2 /\ a.said[s] # <<>>
        /\ \A t \in Sessions : t # s => b.said[t] = a.said[t]
    <3>1. a.said \in [Sessions -> Seq({"started"} \cup Ends)] BY AppFields
    <3>2. b.said[s] = Append(a.said[s], what) /\ \A t \in Sessions : t # s => b.said[t] = a.said[t]
      BY <1>2, <1>8, <3>1
    <3>3. Len(Append(a.said[s], what)) = Len(a.said[s]) + 1 /\ (a.said[s] # <<>> <=> Len(a.said[s]) # 0)
      BY <1>2, OneMore
    <3> QED BY <1>4, <3>2, <3>3
  <2>2. \A t \in Range(r) : t \notin b.inserts /\ Len(b.said[t]) = 1
    BY <1>1, <1>2, <1>3, <1>8, <2>1 DEF OnceEach
  <2>3. \A t \in b.inserts : Len(b.said[t]) = 1 BY <1>1, <1>4, <1>8, <2>1 DEF OnceEach
  <2>4. \A t \in Sessions \ (Range(r) \cup b.inserts) : Len(b.said[t]) \in {0, 2}
    BY <1>2, <1>8, <2>1 DEF OnceEach
  <2>5. OnceEach(b) BY <1>5, <1>6, <2>2, <2>3, <2>4 DEF OnceEach
  <2> QED BY <2>1, <2>5
<1> QED BY <1>7, <1>8 DEF Logged

LEMMA AnswerTold ==
  ASSUME Told, Based', ReadAnswer
  PROVE  Told'
<1>0. Based /\ Log /\ app \in Apps BY BasedFields DEF Told
<1> DEFINE s == Head(lines).id
<1>1. /\ lines # <<>> /\ lines' = Tail(lines) /\ Head(lines).type # "ended" /\ UNCHANGED helperVars
      /\ \E what \in Ends : app' = Answered(app, s, what)
  BY DEF ReadAnswer, Read, Ends
<1>2. s \in Sessions BY <1>0, <1>1, ReadIs
<1>3. PICK what \in Ends : app' = Answered(app, s, what) BY <1>1
<1> HIDE DEF s
<1>4. CASE s \notin app.inserts
  <2>1. app' = app BY <1>3, <1>4 DEF Answered
  <2>2. OnceEach(app') BY <1>0, <2>1 DEF Log
  <2>3. ShownState' BY <1>0, <1>1, <2>1 DEF Log, ShownState, helperVars
  <2>4. \A t \in Sessions : Logged(t)' => Logged(t) BY <2>1 DEF Logged
  <2> QED BY <1>1, <2>1, <2>2, <2>3, <2>4, SameTold
<1>5. CASE s \in app.inserts
  <2>0. ASSUME NEW b, b = app'
        PROVE  /\ b \in Apps /\ b.inserts = app.inserts \ {s} /\ b.late = RemoveFirst(app.late, s)
               /\ b.said = [app.said EXCEPT ![s] = Append(app.said[s], what)]
               /\ b.state = IF app.cur # NoCur \/ app.state = "starting" THEN app.state
                            ELSE IF app.work # <<>> THEN "transcribing"
                            ELSE IF app.inserts \ {s} # {} THEN "inserting" ELSE "idle"
               /\ \A f \in Fields \ {"inserts", "late", "said", "state"} : b[f] = app[f]
    <3>1. b = Answered(app, s, what) BY <1>3, <2>0
    <3> QED BY ONLY <1>0, <1>2, <1>5, <3>1, AnsweredIs
  <2>1. /\ app'.inserts = app.inserts \ {s}
        /\ app'.said = [app.said EXCEPT ![s] = Append(app.said[s], what)]
        /\ app'.state = IF app.cur # NoCur \/ app.state = "starting" THEN app.state
                        ELSE IF app.work # <<>> THEN "transcribing"
                        ELSE IF app.inserts \ {s} # {} THEN "inserting" ELSE "idle"
    BY <2>0
  <2>2. \A f \in Fields \ {"inserts", "late", "said", "state"} : app'[f] = app[f]
    BY <2>0
  <2>3. app'.cur = app.cur /\ app'.work = app.work BY <2>2 DEF Fields
  <2>4. OnceEach(app') /\ \A t \in Sessions : Logged(t)' => Logged(t)
    BY <1>0, <1>5, <2>1, <2>3, OnceAnswered DEF Log
  <2>5. helper # "gone" BY <1>0, <1>1, ReadIs
  <2>6. ShownState' BY <1>0, <1>1, <2>1, <2>3, <2>5 DEF Log, ShownState, helperVars
  <2> QED BY <1>1, <2>3, <2>4, <2>6, SameTold
<1> QED BY <1>4, <1>5

LEMMA DecodeTold ==
  ASSUME Told, Based', NEW words \in BOOLEAN, NEW clipboard \in BOOLEAN, DecodeEnds(words, clipboard)
  PROVE  Told'
<1>0. Based /\ Log /\ app \in Apps BY BasedFields DEF Told
<1>a. PICK s : s = Head(app.work) OBVIOUS
<1>1. /\ app.work # <<>> /\ UNCHANGED helperVars /\ lines' = lines
      /\ app'.work = Tail(app.work)
      /\ \A f \in {"cur", "early", "kept", "asked"} : app'[f] = app[f]
      /\ \/ app'.inserts = app.inserts \cup {s} /\ app'.said = app.said
         \/ /\ app'.inserts = app.inserts
            /\ \E what \in Ends : app'.said = [app.said EXCEPT ![s] = Append(app.said[s], what)]
      /\ app'.state = IF app.cur # NoCur \/ app.state = "starting" THEN app.state
                      ELSE IF app'.work # <<>> THEN "transcribing"
                      ELSE IF app'.inserts # {} THEN "inserting" ELSE "idle"
  BY <1>0, <1>a, DecodeEndsIs
<1>2. app'.cur = app.cur BY <1>1
<1>3. OnceEach(app') /\ \A t \in Sessions : Logged(t)' => Logged(t)
  <2>1. app \in Apps /\ OnceEach(app) BY <1>0 DEF Log
  <2>2. /\ app.work # <<>> /\ app'.work = Tail(app.work)
        /\ \/ app'.inserts = app.inserts \cup {s} /\ app'.said = app.said
           \/ /\ app'.inserts = app.inserts
              /\ \E what \in Ends : app'.said = [app.said EXCEPT ![s] = Append(app.said[s], what)]
    BY <1>1
  <2> QED BY ONLY <1>a, <2>1, <2>2, OnceDecoded
<1>4. ShownState' BY <1>0, <1>1, <1>2 DEF Log, ShownState, helperVars
<1> QED BY <1>1, <1>2, <1>3, <1>4, SameTold

(* The process has exited and all it wrote is read.                          *)
LEMMA OnceGone ==
  ASSUME NEW a \in Apps, OnceEach(a), a.cur # NoCur => a.said[a.cur.id] = <<>>,
         NEW b, b = Gone(a)
  PROVE  /\ OnceEach(b)
         /\ \A s \in Sessions :
              b.said[s] # <<>> <=> a.said[s] # <<>> \/ (a.cur # NoCur /\ s = a.cur.id)
<1>1. /\ b \in Apps /\ b.inserts = {} /\ b.work = a.work
      /\ \A s \in Sessions :
           LET said == IF a.cur # NoCur /\ a.cur.id = s
                       THEN a.said[s] \o <<"started", "aside">> ELSE a.said[s]
           IN b.said[s] = IF s \in a.inserts THEN Append(said, "aside") ELSE said
  BY GoneIs
<1>2. /\ a.inserts \subseteq Sessions /\ Range(a.work) \subseteq Sessions
      /\ a.said \in [Sessions -> Seq({"started"} \cup Ends)] /\ "aside" \in Ends
  BY AppFields, PipeTyped DEF Ends
<1>3. ASSUME NEW s \in Sessions, s \in a.inserts
      PROVE  Len(b.said[s]) = 2 /\ a.said[s] # <<>> /\ s \notin Range(a.work)
  <2>1. Len(a.said[s]) = 1 /\ s \notin Range(a.work) BY <1>3 DEF OnceEach
  <2>2. ASSUME NEW what, what = "aside"
        PROVE  /\ Len(Append(a.said[s], what)) = Len(a.said[s]) + 1
               /\ a.said[s] # <<>> <=> Len(a.said[s]) # 0
    <3>1. what \in Ends BY <1>2, <2>2
    <3> QED BY ONLY <1>3, <3>1, OneMore, a \in Apps
  <2>3. a.said[s] # <<>> BY <2>1, <2>2
  <2>4. b.said[s] = Append(a.said[s], "aside") BY <1>1, <1>3, <2>3
  <2> QED BY <2>1, <2>2, <2>3, <2>4
<1>4. ASSUME NEW s \in Sessions, s \notin a.inserts, a.cur # NoCur, s = a.cur.id
      PROVE  Len(b.said[s]) = 2 /\ s \notin Range(a.work)
  <2>1. b.said[s] = <<>> \o <<"started", "aside">> BY <1>1, <1>4
  <2>2. <<>> \o <<"started", "aside">> = <<"started", "aside">> OBVIOUS
  <2>3. Len(b.said[s]) = 2 BY <2>1, <2>2
  <2>4. Len(a.said[s]) = 0 BY <1>4, EmptySeq
  <2> QED BY <2>3, <2>4 DEF OnceEach
<1>5. ASSUME NEW s \in Sessions, s \notin a.inserts, ~(a.cur # NoCur /\ s = a.cur.id)
      PROVE  b.said[s] = a.said[s]
  BY <1>1, <1>5
<1>6. \A s \in Range(b.work) : s \notin b.inserts /\ Len(b.said[s]) = 1
  <2> SUFFICES ASSUME NEW s \in Range(a.work) PROVE Len(b.said[s]) = 1 BY <1>1
  <2>1. s \in Sessions BY <1>2
  <2>2. b.said[s] = a.said[s] BY <1>3, <1>4, <1>5, <2>1
  <2> QED BY <2>2 DEF OnceEach
<1>7. \A s \in Sessions \ (Range(b.work) \cup b.inserts) : Len(b.said[s]) \in {0, 2}
  <2> SUFFICES ASSUME NEW s \in Sessions, s \notin Range(a.work) PROVE Len(b.said[s]) \in {0, 2}
    BY <1>1
  <2>1. CASE s \in a.inserts BY <1>3, <2>1
  <2>2. CASE s \notin a.inserts /\ a.cur # NoCur /\ s = a.cur.id BY <1>4, <2>2
  <2>3. CASE s \notin a.inserts /\ ~(a.cur # NoCur /\ s = a.cur.id)
    <3>1. b.said[s] = a.said[s] BY <1>5, <2>3
    <3> QED BY <2>3, <3>1 DEF OnceEach
  <2> QED BY <2>1, <2>2, <2>3
<1>8. OnceEach(b) BY <1>1, <1>6, <1>7 DEF OnceEach
<1>9. \A s \in Sessions : b.said[s] # <<>> <=> a.said[s] # <<>> \/ (a.cur # NoCur /\ s = a.cur.id)
  <2> SUFFICES ASSUME NEW s \in Sessions
               PROVE  b.said[s] # <<>> <=> a.said[s] # <<>> \/ (a.cur # NoCur /\ s = a.cur.id)
    OBVIOUS
  <2>1. Len(b.said[s]) = 2 => b.said[s] # <<>> BY EmptySeq
  <2>2. CASE s \in a.inserts BY <1>3, <2>1, <2>2
  <2>3. CASE s \notin a.inserts /\ a.cur # NoCur /\ s = a.cur.id BY <1>4, <2>1, <2>3
  <2>4. CASE s \notin a.inserts /\ ~(a.cur # NoCur /\ s = a.cur.id) BY <1>5, <2>4
  <2> QED BY <2>2, <2>3, <2>4
<1> QED BY <1>8, <1>9

LEMMA GoneTold ==
  ASSUME Told, Based', HelperGone
  PROVE  Told'
<1>0. Based /\ Log /\ app \in Apps BY BasedFields DEF Told
<1>1. /\ lines = <<>> /\ lines' = <<>> /\ helper = "exited" /\ helper' = "gone" /\ app' = Gone(app)
      /\ UNCHANGED <<activation, live, last, wrote, ids>>
  BY DEF HelperGone, pipes
<1>2. app'.cur = NoCur /\ app'.state = "starting" BY <1>0, <1>1, GoneIs
<1>3. live = NoLive /\ activation = "idle" BY <1>0, <1>1 DEF Based, Down
<1>4. /\ OnceEach(app')
      /\ \A s \in Sessions :
           app'.said[s] # <<>> => Logged(s) \/ (app.cur # NoCur /\ s = app.cur.id)
  <2>1. app.cur # NoCur => app.said[app.cur.id] = <<>> BY <1>0 DEF Log, Listens, Logged
  <2> DEFINE b == app'
  <2>2. b = Gone(app) BY <1>1
  <2> HIDE DEF b
  <2>3. /\ OnceEach(b)
        /\ \A s \in Sessions :
             b.said[s] # <<>> => app.said[s] # <<>> \/ (app.cur # NoCur /\ s = app.cur.id)
    BY <1>0, <2>1, <2>2, OnceGone DEF Log
  <2> QED BY <2>3 DEF b, Logged
<1>5. OthersOver' BY <1>1 DEF OthersOver
<1>6. LinesWait'
  <2>1. Ordered(<<>>) /\ Range(<<>>) = {} BY OrderedShort
  <2> QED BY <1>1, <1>3, <2>1 DEF LinesWait, KeysOpen
<1>7. Listens' BY <1>2 DEF Listens
<1>8. LoggedIsOver'
  <2> SUFFICES ASSUME NEW s \in Sessions, Logged(s)' PROVE wrote[s] > 0 /\ live.id # s
    BY <1>1, <1>2 DEF LoggedIsOver
  <2>1. Logged(s) \/ (app.cur # NoCur /\ s = app.cur.id) BY <1>4 DEF Logged
  <2>2. live.id # s BY <1>3 DEF NoLive, Sessions, NoSession
  <2> QED BY <1>0, <2>1, <2>2 DEF Log, LoggedIsOver, Listens
<1>9. ShownState' BY <1>1, <1>2 DEF ShownState
<1> QED BY <1>4, <1>5, <1>6, <1>7, <1>8, <1>9 DEF Told, Log

(* The lines that wait, and the log, fit the sessions.                       *)
LEMMA ToldKept ==
  ASSUME Told, ~PressInRoll, [Next]_vars
  PROVE  Told'
<1>1. Based' BY NextTyped, DownKept DEF Told, Based
<1>2. Based BY DEF Told
<1>3. CASE User \/ Helper
  <2>1. PICK N \in SUBSET Messages : HelperMoves(N) BY <1>2, <1>3, EveryMove
  <2> QED BY <1>1, <2>1, OthersOverKept, LinesKept, LogKept DEF Told
<1>4. CASE ReadStarted BY <1>1, <1>4, StartedTold
<1>5. CASE ReadEnded BY <1>1, <1>5, EndReadTold
<1>6. CASE ReadAnswer BY <1>1, <1>6, AnswerTold
<1>7. CASE ReadKey BY <1>1, <1>7, KeyReadTold
<1>8. CASE ReadPacket BY <1>1, <1>8, PacketTold
<1>9. CASE DrainEnds BY <1>1, <1>9, DrainTold
<1>10. CASE StopBy BY <1>1, <1>10, StopByTold
<1>11. CASE HelperGone BY <1>1, <1>11, GoneTold
<1>12. CASE \E words, clipboard \in BOOLEAN : DecodeEnds(words, clipboard)
  BY <1>1, <1>12, DecodeTold
<1>13. CASE UNCHANGED vars
  <2>1. UNCHANGED helperVars /\ lines' = lines /\ app' = app BY <1>13 DEF vars, pipes
  <2>2. Log /\ OnceEach(app) /\ ShownState BY DEF Told, Log
  <2>3. OnceEach(app') BY <2>1, <2>2
  <2>4. ShownState' BY <2>1, <2>2 DEF ShownState, helperVars
  <2>5. \A s \in Sessions : Logged(s)' => Logged(s) BY <2>1 DEF Logged
  <2> QED BY <1>1, <2>1, <2>3, <2>4, <2>5, SameTold
<1> QED BY <1>3, <1>4, <1>5, <1>6, <1>7, <1>8, <1>9, <1>10, <1>11, <1>12, <1>13 DEF Next, App

LEMMA InitTold == Init => Told
<1> SUFFICES ASSUME Init PROVE Told OBVIOUS
<1>1. Typed BY InitTyped
<1>2. /\ helper = "up" /\ lines = <<>> /\ activation = "idle" /\ app.cur = NoCur /\ app.work = <<>>
      /\ app.inserts = {} /\ app.state = "idle" /\ \A s \in Sessions : wrote[s] = 0 /\ app.said[s] = <<>>
  BY DEF Init
<1>3. Down BY <1>2 DEF Down
<1>4. OthersOver BY <1>2 DEF OthersOver
<1>5. Ordered(<<>>) /\ Range(<<>>) = {} /\ Len(<<>>) = 0 BY OrderedShort, EmptySeq
<1>6. LinesWait BY <1>2, <1>5 DEF LinesWait, KeysOpen
<1>7. Listens /\ LoggedIsOver BY <1>2 DEF Listens, LoggedIsOver, Logged
<1>8. OnceEach(app) BY <1>2, <1>5 DEF OnceEach
<1>9. ShownState BY <1>2 DEF ShownState
<1> QED BY <1>1, <1>3, <1>4, <1>6, <1>7, <1>8, <1>9 DEF Told, Based, Log

(* Where no press comes in the post-roll of another session, every logged    *)
(* dictation ends once, or waits for its decode or its insert, and the state *)
(* shown is that of the newest thing under way (session.ts:607-610,          *)
(* 1166-1195, 1294-1416).                                                    *)
THEOREM DictationLog == ~PressInRoll => (Spec => []EndsOnce)
<1> SUFFICES ASSUME ~PressInRoll PROVE Spec => []EndsOnce OBVIOUS
<1>1. Told /\ [Next]_vars => Told' BY ToldKept
<1>2. Told => EndsOnce
  <2> SUFFICES ASSUME Told PROVE EndsOnce OBVIOUS
  <2>0. app \in Apps /\ OnceEach(app) /\ ShownState BY BasedFields DEF Told, Log
  <2>1. app.work \in Seq(Sessions) /\ app.said \in [Sessions -> Seq({"started"} \cup Ends)]
    BY <2>0, AppFields
  <2>2. DOMAIN app.work = 1..Len(app.work) /\ Range(app.work) = {app.work[i] : i \in 1..Len(app.work)}
    BY <2>1, LenProperties, RangeEquality
  <2>3. ASSUME NEW s \in Sessions
        PROVE  LET flying == s \in app.inserts \/ \E i \in DOMAIN app.work : app.work[i] = s
               IN Len(app.said[s]) = IF app.said[s] = <<>> THEN 0 ELSE IF flying THEN 1 ELSE 2
    <3>1. app.said[s] # <<>> <=> Len(app.said[s]) # 0 BY <2>1, EmptySeq
    <3>2. CASE s \in app.inserts \cup Range(app.work)
      <4>1. Len(app.said[s]) = 1 BY <2>0, <3>2 DEF OnceEach
      <4> QED BY <2>2, <3>1, <3>2, <4>1
    <3>3. CASE s \notin app.inserts \cup Range(app.work)
      <4>1. Len(app.said[s]) \in {0, 2} BY <2>0, <3>3 DEF OnceEach
      <4> QED BY <2>2, <3>1, <3>3, <4>1
    <3> QED BY <3>2, <3>3
  <2> QED BY <2>0, <2>3 DEF EndsOnce, ShownState
<1> QED BY InitTold, <1>1, <1>2, PTL DEF Spec

-----------------------------------------------------------------------------
(* The audio.                                                                *)

Heeded == Told /\ Audio

(* The first packets of a session, and one more.                             *)
LEMMA PacketsGrow ==
  ASSUME NEW s \in Sessions, NEW q \in Seq(Packets), q = PacketsOf(s, Len(q)),
         NEW p \in Packets, p.s = s, p.n = Len(q)
  PROVE  Append(q, p) = PacketsOf(s, Len(Append(q, p)))
<1> DEFINE r == Append(q, p)
<1>1. /\ r \in Seq(Packets) /\ Len(r) = Len(q) + 1 /\ Len(q) \in Nat
      /\ \A i \in 1..Len(q) : r[i] = q[i]
      /\ r[Len(q) + 1] = p
  BY PipeWritten
<1>2. p = [s |-> s, n |-> Len(q)] BY DEF Packets
<1>3. \A i \in 1..Len(q) : q[i] = [s |-> s, n |-> i - 1] BY DEF PacketsOf
<1> HIDE DEF r
<1>4. \A i \in 1..Len(r) : r[i] = [s |-> s, n |-> i - 1]
  <2> SUFFICES ASSUME NEW i \in 1..Len(r) PROVE r[i] = [s |-> s, n |-> i - 1] OBVIOUS
  <2>1. CASE i \in 1..Len(q) BY <1>1, <1>3, <2>1
  <2>2. CASE i = Len(q) + 1 BY <1>1, <1>2, <2>2
  <2> QED BY <1>1, <2>1, <2>2
<1>5. r \in [1..Len(r) -> Packets] BY <1>1, LenProperties
<1>6. r = PacketsOf(s, Len(r)) BY <1>4, <1>5 DEF PacketsOf
<1> QED BY <1>6 DEF r

LEMMA PacketsNone == Len(<<>>) = 0 /\ \A s : <<>> = PacketsOf(s, 0)
<1>1. <<>> \in Seq({}) /\ Len(<<>>) = 0 BY EmptySeq
<1>2. <<>> \in [1..0 -> {}] BY <1>1, LenProperties
<1>3. \A s : PacketsOf(s, 0) \in [1..0 -> {}] BY DEF PacketsOf
<1>4. ASSUME NEW s PROVE <<>> = PacketsOf(s, 0) BY <1>2, <1>3
<1> QED BY <1>1, <1>4

(* The first of the pipe is before the others.                               *)
LEMMA TurnRead ==
  ASSUME NEW q \in Seq(Packets), q # <<>>, InTurn(q)
  PROVE  /\ Head(q) \in Packets /\ Head(q) \in Range(q) /\ InTurn(Tail(q))
         /\ Range(Tail(q)) = Range(q) \ {Head(q)}
         /\ \A x \in Range(q) : x = Head(q) \/ Before(Head(q), x)
<1> DEFINE r == Tail(q)
           h == Head(q)
<1>1. /\ h \in Packets /\ h = q[1] /\ r \in Seq(Packets)
      /\ Len(q) \in Nat \ {0} /\ Len(r) = Len(q) - 1
      /\ \A i \in 1..Len(r) : r[i] = q[i + 1]
      /\ Range(q) = Range(r) \cup {h}
  BY PipeRead
<1> HIDE DEF r, h
<1>2. Range(r) = {r[i] : i \in 1..Len(r)} BY <1>1, RangeEquality
<1>3. \A x \in Range(r) : Before(h, x)
  <2> SUFFICES ASSUME NEW x \in Range(r) PROVE Before(h, x) OBVIOUS
  <2>1. PICK i \in 1..Len(r) : x = r[i] BY <1>2
  <2>2. 1 \in 1..Len(q) /\ i + 1 \in 1..Len(q) /\ 1 < i + 1 /\ x = q[i + 1] BY <1>1, <2>1
  <2> QED BY <1>1, <2>2 DEF InTurn
<1>4. h \notin Range(r)
  <2>1. ~Before(h, h) BY <1>1 DEF Before, Packets, Sessions
  <2> QED BY <1>3, <2>1
<1>5. InTurn(r)
  <2> SUFFICES ASSUME NEW i \in 1..Len(r), NEW j \in 1..Len(r), i < j PROVE Before(r[i], r[j])
    BY DEF InTurn
  <2>1. i + 1 \in 1..Len(q) /\ j + 1 \in 1..Len(q) /\ i + 1 < j + 1 BY <1>1
  <2>2. Before(q[i + 1], q[j + 1]) BY <2>1 DEF InTurn
  <2> QED BY <1>1, <2>2
<1> QED BY <1>1, <1>3, <1>4, <1>5 DEF r, h

LEMMA TurnWritten ==
  ASSUME NEW q \in Seq(Packets), InTurn(q), NEW p \in Packets, \A x \in Range(q) : Before(x, p)
  PROVE  InTurn(Append(q, p)) /\ Range(Append(q, p)) = Range(q) \cup {p}
<1> DEFINE r == Append(q, p)
<1>1. /\ r \in Seq(Packets) /\ Len(r) = Len(q) + 1 /\ Len(q) \in Nat
      /\ \A i \in 1..Len(q) : r[i] = q[i]
      /\ r[Len(q) + 1] = p /\ Range(r) = Range(q) \cup {p}
  BY PipeWritten
<1>2. Range(q) = {q[i] : i \in 1..Len(q)} BY RangeEquality
<1> HIDE DEF r
<1>3. InTurn(r)
  <2> SUFFICES ASSUME NEW i \in 1..Len(r), NEW j \in 1..Len(r), i < j PROVE Before(r[i], r[j])
    BY DEF InTurn
  <2>1. i \in 1..Len(q) /\ r[i] = q[i] BY <1>1
  <2>2. CASE j \in 1..Len(q) BY <1>1, <2>1, <2>2 DEF InTurn
  <2>3. CASE j = Len(q) + 1
    <3>1. q[i] \in Range(q) BY <1>2, <2>1
    <3> QED BY <1>1, <2>1, <2>3, <3>1
  <2> QED BY <1>1, <2>2, <2>3
<1> QED BY <1>1, <1>3 DEF r

(* What has been read of each session, and what is read next.                *)
LEMMA GotFields ==
  ASSUME Typed
  PROVE  /\ Early \in Sessions \cup {NoSession} /\ (Early = NoSession <=> app.early = <<>>)
         /\ \A s \in Sessions : Got(s) \in Nat /\ wrote[s] \in 0..MaxPackets
         /\ app.early # <<>> => Len(app.early) \in Nat \ {0}
         /\ Len(app.cur.chunks) \in Nat /\ Len(app.early) \in Nat
         /\ MaxPackets \in Nat
<1>1. /\ app.early \in Seq(Packets) /\ app.cur.chunks \in Seq(Packets)
      /\ wrote \in [Sessions -> 0..MaxPackets] /\ MaxPackets \in Nat
  BY AppFields, Bounds DEF Typed, TypeOK
<1>2. app.early # <<>> => Len(app.early) \in Nat \ {0} BY <1>1, EmptySeq
<1>3. Len(app.cur.chunks) \in Nat /\ Len(app.early) \in Nat BY <1>1, LenProperties
<1>4. app.early # <<>> => app.early[1] \in Packets
  <2> SUFFICES ASSUME app.early # <<>> PROVE app.early[1] \in Packets OBVIOUS
  <2>1. 1 \in 1..Len(app.early) BY <1>2
  <2> QED BY <1>1, <2>1, ElementOfSeq
<1>5. Early \in Sessions \cup {NoSession} /\ (Early = NoSession <=> app.early = <<>>)
  BY <1>4 DEF Early, Packets, Sessions, NoSession
<1>6. \A s \in Sessions : Got(s) \in Nat /\ wrote[s] \in 0..MaxPackets
  BY <1>1, <1>3 DEF Got
<1> QED BY <1>1, <1>2, <1>3, <1>5, <1>6

(* What neither reads nor writes audio leaves it as it is.                   *)
LEMMA AudioSame ==
  ASSUME Heeded, Told', packets' = packets, wrote' = wrote,
         \A s \in Sessions : Logged(s)' <=> Logged(s),
         app'.cur.id = app.cur.id, app'.cur.chunks = app.cur.chunks,
         app'.early = app.early, app'.kept = app.kept,
         app.cur = NoCur => app'.cur = NoCur,
         \A s \in Sessions : Begun(s) => Begun(s)'
  PROVE  Heeded'
<1>1. \A s \in Sessions : Got(s)' = Got(s) BY DEF Got, Early
<1>2. Early' = Early BY DEF Early
<1>3. Typed BY DEF Heeded, Told, Based
<1>4. Unread'
  <2>1. \A p \in Packets : Got(p.s)' = Got(p.s) BY <1>1 DEF Packets
  <2>2. Unread BY DEF Heeded, Audio
  <2>3. InTurn(packets)' BY <2>2 DEF Unread, InTurn
  <2>4. \A s \in Sessions : Got(s)' <= wrote'[s] BY <1>1, <2>2 DEF Unread
  <2>5. \A p \in Packets : p \in Range(packets') <=> Got(p.s)' <= p.n /\ p.n < wrote'[p.s]
    BY <2>1, <2>2 DEF Unread
  <2>6. \A p \in Range(packets') : app'.cur.id <= p.s /\ Early' <= p.s BY <1>2, <2>2 DEF Unread
  <2> QED BY <2>3, <2>4, <2>5, <2>6 DEF Unread
<1>5. HaveStarts' BY DEF Heeded, Audio, HaveStarts
<1>6. ReadInTurn'
  <2>1. ReadInTurn BY DEF Heeded, Audio
  <2>2. app.early # <<>> => Early \in Sessions BY <1>3, GotFields
  <2>3. app'.early # <<>> => app'.cur = NoCur /\ Begun(Early)' BY <1>2, <2>1, <2>2 DEF ReadInTurn, Begun
  <2> QED BY <1>2, <2>1, <2>3 DEF ReadInTurn
<1>7. AudioIsItsOwn' BY DEF Heeded, Audio, AudioIsItsOwn, Logged
<1> QED BY <1>4, <1>5, <1>6, <1>7 DEF Heeded, Audio

(* The helper writes a packet.                                               *)
LEMMA AudioWritten ==
  ASSUME Heeded, Told', NEW N \in SUBSET Messages, HelperMoves(N), NEW s \in Sessions, s = live'.id,
         wrote' = [wrote EXCEPT ![s] = wrote[s] + 1],
         packets' = Append(packets, [s |-> s, n |-> wrote[s]])
  PROVE  Heeded'
<1>0. Based /\ Based' /\ Typed /\ Typed' BY DEF Heeded, Told, Based
<1>1. /\ app' = app /\ Range(lines') = Range(lines) \cup N
      /\ \A t \in Sessions : wrote[t] > 0 /\ live.id # t => live'.id # t
  BY <1>0, MovesKeep
<1>2. /\ wrote \in [Sessions -> 0..MaxPackets] /\ wrote' \in [Sessions -> 0..MaxPackets]
      /\ packets \in Seq(Packets) /\ ids \in Nat /\ ids' \in Nat
      /\ \A t \in Sessions : wrote[t] > 0 => t <= ids
  <2>1. /\ wrote \in [Sessions -> 0..MaxPackets] /\ packets \in Seq(Packets) /\ ids \in Nat
        /\ \A t \in Sessions : wrote[t] > 0 => t <= ids
    BY <1>0, BasedFields
  <2>2. wrote' \in [Sessions -> 0..MaxPackets] /\ ids' \in 0..MaxSessions BY <1>0 DEF Typed, TypeOK
  <2> QED BY <2>1, <2>2
<1>3. wrote[s] \in 0..MaxPackets - 1 /\ wrote'[s] = wrote[s] + 1 /\ MaxPackets \in Nat
      /\ \A t \in Sessions : t # s => wrote'[t] = wrote[t]
  <2>1. wrote'[s] = wrote[s] + 1 /\ \A t \in Sessions : t # s => wrote'[t] = wrote[t] BY <1>2
  <2>2. wrote'[s] \in 0..MaxPackets /\ wrote[s] \in 0..MaxPackets /\ MaxPackets \in Nat
    BY <1>0, <1>2, GotFields
  <2> QED BY <2>1, <2>2
<1>4. ids <= s
  <2>1. live'.id # NoSession /\ live' # NoLive BY DEF Sessions, NoSession, NoLive
  <2>2. s = ids' BY <1>0, <2>1, BasedFields DEF Typed, Numbered
  <2>3. ids' \in {ids, ids + 1} BY DEF HelperMoves, Captures
  <2> QED BY <1>2, <2>2, <2>3
<1>5. ~Logged(s)
  <2>1. Logged(s) => wrote[s] > 0 /\ live.id # s BY DEF Heeded, Told, Log, LoggedIsOver
  <2> QED BY <1>1, <2>1
<1> DEFINE p == [s |-> s, n |-> wrote[s]]
<1>6. p \in Packets /\ p.s = s /\ p.n = wrote[s] BY <1>3 DEF Packets
<1>7. Unread /\ HaveStarts /\ ReadInTurn /\ AudioIsItsOwn BY DEF Heeded, Audio
<1>8. \A t \in Sessions : (Logged(t)' <=> Logged(t)) /\ (t # s => Got(t)' = Got(t))
  BY <1>1, <1>3 DEF Got, Logged, Early
<1>9. Got(s)' = Got(s) BY <1>1, <1>5 DEF Got, Logged, Early
<1>10. Early' = Early /\ Early \in Sessions \cup {NoSession} /\ \A t \in Sessions : Got(t) \in Nat
  BY <1>0, <1>1, GotFields DEF Early
<1> HIDE DEF p
<1>11. \A x \in Range(packets) : Before(x, p)
  <2> SUFFICES ASSUME NEW x \in Range(packets) PROVE Before(x, p) OBVIOUS
  <2>1. x \in Packets BY <1>2, PipeTyped
  <2>2. x.s \in Sessions /\ x.n \in Nat BY <2>1, <1>3 DEF Packets
  <2>3. Got(x.s) <= x.n /\ x.n < wrote[x.s] BY <1>7, <2>1 DEF Unread
  <2>4. wrote[x.s] > 0 /\ wrote[x.s] \in Nat BY <1>2, <1>3, <2>2, <2>3
  <2>5. x.s <= ids BY <1>2, <2>2, <2>4
  <2>6. x.s \in Nat /\ s \in Nat BY <2>2 DEF Sessions
  <2> QED BY <1>2, <1>4, <1>6, <2>2, <2>3, <2>5, <2>6 DEF Before
<1>12. packets' = Append(packets, p) BY DEF p
<1>13. InTurn(packets') /\ Range(packets') = Range(packets) \cup {p}
  <2>1. InTurn(packets) BY <1>7 DEF Unread
  <2> QED BY <1>2, <1>6, <1>11, <1>12, <2>1, TurnWritten
<1>14. Unread'
  <2>1. \A t \in Sessions : Got(t)' <= wrote'[t]
    <3> SUFFICES ASSUME NEW t \in Sessions PROVE Got(t)' <= wrote'[t] OBVIOUS
    <3>1. Got(t) <= wrote[t] BY <1>7 DEF Unread
    <3>2. Got(t) \in Nat /\ wrote[t] \in Nat BY <1>2, <1>3, <1>10
    <3> QED BY <1>3, <1>8, <1>9, <3>1, <3>2
  <2>2. ASSUME NEW x \in Packets
        PROVE  x \in Range(packets') <=> Got(x.s)' <= x.n /\ x.n < wrote'[x.s]
    <3>0. x.s \in Sessions /\ x.n \in Nat /\ Got(x.s) \in Nat BY <1>3, <1>10 DEF Packets
    <3>1. x \in Range(packets) <=> Got(x.s) <= x.n /\ x.n < wrote[x.s] BY <1>7 DEF Unread
    <3>2. CASE x.s # s
      <4>1. x # p BY <1>6, <3>2
      <4> QED BY <1>3, <1>8, <1>13, <3>0, <3>1, <3>2, <4>1
    <3>3. CASE x.s = s
      <4>1. Got(s) <= wrote[s] /\ Got(s) \in Nat /\ wrote[s] \in Nat BY <1>3, <1>7, <1>10 DEF Unread
      <4>2. x = p <=> x.n = wrote[s] BY <1>6, <3>3 DEF Packets
      <4>3. Got(x.s)' = Got(s) /\ wrote'[x.s] = wrote[s] + 1 BY <1>3, <1>9, <3>3
      <4> QED BY <1>13, <3>0, <3>1, <3>3, <4>1, <4>2, <4>3
    <3> QED BY <3>2, <3>3
  <2>3. ASSUME NEW x \in Range(packets') PROVE app'.cur.id <= x.s /\ Early' <= x.s
    <3>1. CASE x \in Range(packets) BY <1>1, <1>7, <1>10, <3>1 DEF Unread
    <3>2. CASE x = p
      <4>1. app.cur.id = NoSession \/ (app.cur.id \in Sessions /\ app.cur.id <= ids)
        <5>1. app \in Apps BY <1>0, BasedFields
        <5>2. app.cur # NoCur => wrote[app.cur.id] > 0 BY DEF Heeded, Told, Log, Listens
        <5>3. app.cur.id \in Sessions \cup {NoSession} /\ (app.cur = NoCur <=> app.cur.id = NoSession)
          BY <5>1, AppFields
        <5>4. CASE app.cur = NoCur BY <5>3, <5>4
        <5>5. CASE app.cur # NoCur
          <6>1. app.cur.id \in Sessions BY <5>3, <5>5
          <6> QED BY <1>2, <5>2, <5>5, <6>1
        <5> QED BY <5>4, <5>5
      <4>2. Early = NoSession \/ (Early \in Sessions /\ Early <= ids)
        <5>1. CASE app.early = <<>> BY <5>1 DEF Early
        <5>2. CASE app.early # <<>>
          <6>1. PICK m \in Range(lines) : m.type = "started" /\ m.id = Early
            BY <1>7, <5>2 DEF ReadInTurn, Begun
          <6>2. wrote[m.id] > 0 BY <6>1 DEF Heeded, Told, LinesWait, StartWaits
          <6>3. Early \in Sessions BY <1>0, <5>2, GotFields
          <6> QED BY <1>2, <6>1, <6>2, <6>3
        <5> QED BY <5>1, <5>2
      <4> QED BY <1>1, <1>2, <1>4, <1>6, <1>10, <3>2, <4>1, <4>2 DEF Sessions, NoSession
    <3> QED BY <1>13, <3>1, <3>2
  <2> QED BY <1>13, <2>1, <2>2, <2>3 DEF Unread
<1>15. HaveStarts'
  <2> SUFFICES ASSUME NEW t \in Sessions, wrote'[t] > 0
               PROVE  Logged(t)' \/ app'.cur.id = t \/ Begun(t)'
    BY DEF HaveStarts
  <2>1. Begun(t) => Begun(t)' BY <1>1 DEF Begun
  <2>2. CASE wrote[t] > 0 BY <1>1, <1>7, <1>8, <2>1, <2>2 DEF HaveStarts
  <2>3. CASE ~(wrote[t] > 0)
    <3>1. t = s BY <1>3, <2>3
    <3>2. wrote[s] = 0 BY <1>3, <2>3, <3>1
    <3>3. Started(s) \in N
      <4>1. packets' # packets
        <5>1. p \in Range(packets') BY <1>13
        <5>2. p \in Range(packets) => p.n < wrote[p.s] BY <1>6, <1>7 DEF Unread
        <5>3. wrote[s] \in Int BY <1>3
        <5> QED BY <1>6, <5>1, <5>2, <5>3
      <4> QED BY <3>2, <4>1 DEF HelperMoves, Captures
    <3>4. Started(s).type = "started" /\ Started(s).id = s BY DEF Started
    <3> QED BY <1>1, <3>1, <3>3, <3>4 DEF Begun
  <2> QED BY <2>2, <2>3
<1>16. ReadInTurn'
  <2>1. app.early # <<>> => Begun(Early)'
    <3> SUFFICES ASSUME app.early # <<>> PROVE Begun(Early)' OBVIOUS
    <3>1. Begun(Early) BY <1>7 DEF ReadInTurn
    <3> QED BY <1>1, <1>10, <3>1 DEF Begun
  <2> QED BY <1>1, <1>7, <1>10, <2>1 DEF ReadInTurn
<1>17. AudioIsItsOwn'
  <2> SUFFICES ASSUME NEW t \in Sessions, app'.said[t] # <<>>
               PROVE  app'.kept[t] = [i \in 1..wrote'[t] |-> [s |-> t, n |-> i - 1]]
    BY DEF AudioIsItsOwn
  <2>1. Logged(t) BY <1>1 DEF Logged
  <2>2. wrote'[t] = wrote[t] BY <1>3, <1>5, <2>1
  <2> QED BY <1>1, <1>7, <2>1, <2>2 DEF AudioIsItsOwn, Logged
<1> QED BY <1>14, <1>15, <1>16, <1>17 DEF Heeded, Audio

LEMMA AudioMoves ==
  ASSUME Heeded, Told', NEW N \in SUBSET Messages, HelperMoves(N)
  PROVE  Heeded'
<1>0. Based /\ Based' BY DEF Heeded, Told
<1>1. app' = app /\ Range(lines') = Range(lines) \cup N BY <1>0, MovesKeep
<1>2. CASE wrote' = wrote /\ packets' = packets
  <2>1. \A s \in Sessions : (Logged(s)' <=> Logged(s)) /\ (Begun(s) => Begun(s)')
    BY <1>1 DEF Logged, Begun
  <2> QED BY <1>1, <1>2, <2>1, AudioSame
<1>3. CASE /\ live'.id \in Sessions /\ wrote' = [wrote EXCEPT ![live'.id] = wrote[live'.id] + 1]
           /\ packets' = Append(packets, [s |-> live'.id, n |-> wrote[live'.id]])
  <2> DEFINE s == live'.id
  <2>1. /\ s \in Sessions /\ s = live'.id /\ wrote' = [wrote EXCEPT ![s] = wrote[s] + 1]
        /\ packets' = Append(packets, [s |-> s, n |-> wrote[s]])
    BY <1>3
  <2> HIDE DEF s
  <2> QED BY <2>1, AudioWritten
<1> QED BY <1>2, <1>3 DEF HelperMoves, Captures

(* What is read of the pipe, and what is not.                                *)
LEMMA UnreadSame ==
  ASSUME Unread, wrote' = wrote, packets' = packets, \A s \in Sessions : Got(s)' = Got(s),
         \A p \in Range(packets) : app'.cur.id <= p.s /\ Early' <= p.s
  PROVE  Unread'
<1>1. \A p \in Packets : Got(p.s)' = Got(p.s) BY DEF Packets
<1>2. InTurn(packets)' BY DEF Unread, InTurn
<1>3. \A s \in Sessions : Got(s)' <= wrote'[s] BY DEF Unread
<1>4. \A p \in Packets : p \in Range(packets') <=> Got(p.s)' <= p.n /\ p.n < wrote'[p.s]
  BY <1>1 DEF Unread
<1> QED BY <1>2, <1>3, <1>4 DEF Unread

LEMMA NextRead ==
  ASSUME Heeded, packets # <<>>, NEW p, p = Head(packets)
  PROVE  /\ p \in Packets /\ p.s \in Sessions /\ p.n \in Nat /\ p \in Range(packets)
         /\ Got(p.s) = p.n /\ p.n < wrote[p.s] /\ ~Logged(p.s)
         /\ app.cur.id <= p.s /\ Early <= p.s
         /\ InTurn(Tail(packets)) /\ Range(Tail(packets)) = Range(packets) \ {p}
         /\ \A x \in Range(packets) : x = p \/ Before(p, x)
<1>1. Based /\ Typed /\ Unread BY DEF Heeded, Told, Based, Audio
<1>2. packets \in Seq(Packets) /\ InTurn(packets) BY <1>1, BasedFields DEF Unread
<1>3. /\ p \in Packets /\ p \in Range(packets) /\ InTurn(Tail(packets))
      /\ Range(Tail(packets)) = Range(packets) \ {p}
      /\ \A x \in Range(packets) : x = p \/ Before(p, x)
  BY <1>2, TurnRead
<1>4. /\ p.s \in Sessions /\ p.n \in 0..MaxPackets - 1 /\ MaxPackets \in Nat
      /\ Got(p.s) \in Nat /\ wrote[p.s] \in 0..MaxPackets
  BY <1>1, <1>3, GotFields DEF Packets
<1>5. Got(p.s) <= p.n /\ p.n < wrote[p.s] BY <1>1, <1>3 DEF Unread
<1>6. Got(p.s) = p.n
  <2> SUFFICES ASSUME Got(p.s) < p.n PROVE FALSE BY <1>4, <1>5
  <2> DEFINE x == [s |-> p.s, n |-> Got(p.s)]
  <2>1. x \in Packets /\ x.s = p.s /\ x.n = Got(p.s) BY <1>4, <1>5 DEF Packets
  <2> HIDE DEF x
  <2>2. Got(x.s) <= x.n /\ x.n < wrote[x.s] BY <1>4, <1>5, <2>1
  <2>3. x \in Range(packets) BY <1>1, <2>1, <2>2 DEF Unread
  <2>4. x # p BY <1>4, <2>1
  <2>5. Before(p, x) BY <1>3, <2>3, <2>4
  <2> QED BY <1>4, <2>1, <2>5 DEF Before, Sessions
<1>7. ~Logged(p.s)
  <2>1. Logged(p.s) => Got(p.s) = wrote[p.s] BY DEF Got
  <2> QED BY <1>4, <1>5, <1>6, <2>1
<1> QED BY <1>1, <1>3, <1>4, <1>5, <1>6, <1>7 DEF Unread

LEMMA UnreadNext ==
  ASSUME Heeded, packets # <<>>, NEW p, p = Head(packets), packets' = Tail(packets), wrote' = wrote,
         Got(p.s)' = p.n + 1, \A s \in Sessions \ {p.s} : Got(s)' = Got(s),
         \A x \in Range(packets') : app'.cur.id <= x.s /\ Early' <= x.s
  PROVE  Unread'
<1>1. /\ p \in Packets /\ p.s \in Sessions /\ p.n \in Nat /\ Got(p.s) = p.n /\ p.n < wrote[p.s]
      /\ InTurn(Tail(packets)) /\ Range(Tail(packets)) = Range(packets) \ {p}
  BY NextRead
<1>2. Unread /\ Typed BY DEF Heeded, Audio, Told, Based
<1>3. \A s \in Sessions : Got(s) \in Nat /\ wrote[s] \in 0..MaxPackets /\ MaxPackets \in Nat
  BY <1>2, GotFields
<1>4. \A s \in Sessions : Got(s)' <= wrote'[s]
  <2> SUFFICES ASSUME NEW s \in Sessions PROVE Got(s)' <= wrote[s] OBVIOUS
  <2>1. CASE s = p.s BY <1>1, <1>3, <2>1
  <2>2. CASE s # p.s BY <1>2, <2>2 DEF Unread
  <2> QED BY <2>1, <2>2
<1>5. ASSUME NEW x \in Packets
      PROVE  x \in Range(packets') <=> Got(x.s)' <= x.n /\ x.n < wrote'[x.s]
  <2>1. x \in Range(packets) <=> Got(x.s) <= x.n /\ x.n < wrote[x.s] BY <1>2 DEF Unread
  <2>2. x.s \in Sessions /\ x.n \in Nat BY <1>3 DEF Packets
  <2>3. CASE x.s = p.s
    <3>1. x = p <=> x.n = p.n BY <1>1, <2>3 DEF Packets
    <3>2. Got(x.s)' = p.n + 1 /\ Got(x.s) = p.n BY <1>1, <2>3
    <3> QED BY <1>1, <2>1, <2>2, <3>1, <3>2
  <2>4. CASE x.s # p.s
    <3>1. x # p /\ Got(x.s)' = Got(x.s) BY <2>2, <2>4
    <3> QED BY <1>1, <2>1, <3>1
  <2> QED BY <2>3, <2>4
<1>6. InTurn(packets)' BY <1>1 DEF InTurn
<1> QED BY <1>4, <1>5, <1>6 DEF Unread

(* When nothing of the session is left in the pipe, all of it has been read. *)
LEMMA AudioWhole ==
  ASSUME Heeded, app.cur # NoCur, \A p \in Range(packets) : p.s # app.cur.id
  PROVE  LET s == app.cur.id
         IN /\ s \in Sessions /\ ~Logged(s) /\ Got(s) = wrote[s]
            /\ app.cur.chunks = PacketsOf(s, wrote[s]) /\ app.early = <<>>
<1> DEFINE s == app.cur.id
<1>1. Based /\ Typed /\ Unread /\ ReadInTurn /\ app \in Apps BY BasedFields DEF Heeded, Told, Audio, Based
<1>2. s \in Sessions BY <1>1, AppFields
<1>3. ~Logged(s) BY DEF Heeded, Told, Log, Listens
<1>4. Got(s) = Len(app.cur.chunks) BY <1>3 DEF Got
<1>5. /\ Got(s) \in Nat /\ wrote[s] \in 0..MaxPackets /\ MaxPackets \in Nat /\ Got(s) <= wrote[s]
  BY <1>1, <1>2, GotFields DEF Unread
<1>6. Got(s) = wrote[s]
  <2> SUFFICES ASSUME Got(s) < wrote[s] PROVE FALSE BY <1>5
  <2> DEFINE x == [s |-> s, n |-> Got(s)]
  <2>1. x \in Packets /\ x.s = s /\ x.n = Got(s) BY <1>2, <1>5 DEF Packets
  <2> HIDE DEF x
  <2>2. Got(x.s) <= x.n /\ x.n < wrote[x.s] BY <1>5, <2>1
  <2>3. x \in Range(packets) BY <1>1, <2>1, <2>2 DEF Unread
  <2> QED BY <2>1, <2>3
<1> QED BY <1>1, <1>2, <1>3, <1>4, <1>6 DEF ReadInTurn

LEMMA EndedAudio ==
  ASSUME Heeded, app.cur.end # "no", \A p \in Range(packets) : p.s # app.cur.id,
         NEW b, b = EndedCur(app)
  PROVE  /\ b.cur = NoCur /\ b.early = <<>> /\ app.early = <<>>
         /\ app.cur.id \in Sessions /\ Got(app.cur.id) = wrote[app.cur.id]
         /\ \A t \in Sessions : b.said[t] # <<>> <=> Logged(t) \/ t = app.cur.id
         /\ \A t \in Sessions : b.said[t] # <<>> => b.kept[t] = PacketsOf(t, wrote[t])
<1>1. /\ Told /\ app \in Apps /\ AudioIsItsOwn BY BasedFields DEF Heeded, Told, Audio
<1>2. /\ b.cur = NoCur /\ b.early = app.early /\ app.cur # NoCur
      /\ \A t \in Sessions : b.said[t] # <<>> <=> Logged(t) \/ t = app.cur.id
  BY <1>1, EndedTold
<1>3. /\ app.cur.id \in Sessions /\ Got(app.cur.id) = wrote[app.cur.id] /\ app.early = <<>>
      /\ app.cur.chunks = PacketsOf(app.cur.id, wrote[app.cur.id]) /\ ~Logged(app.cur.id)
  BY <1>2, AudioWhole
<1>4. b.kept = [app.kept EXCEPT ![app.cur.id] = app.cur.chunks] BY <1>1, EndedIs
<1>5. app.kept \in [Sessions -> Seq(Packets)] BY <1>1, AppFields
<1>6. ASSUME NEW t \in Sessions, b.said[t] # <<>> PROVE b.kept[t] = PacketsOf(t, wrote[t])
  <2>1. CASE t = app.cur.id BY <1>3, <1>4, <1>5, <2>1
  <2>2. CASE t # app.cur.id
    <3>1. Logged(t) BY <1>2, <1>6, <2>2
    <3>2. app.kept[t] = PacketsOf(t, wrote[t]) BY <1>1, <3>1 DEF AudioIsItsOwn, Logged, PacketsOf
    <3> QED BY <1>4, <1>5, <2>2, <3>2
  <2> QED BY <2>1, <2>2
<1> QED BY <1>2, <1>3, <1>6

(* Nothing of a later session is read before the end of this one is.         *)
LEMMA NoLater ==
  ASSUME Heeded, NEW s \in Sessions, NEW t \in Sessions, Ending(s), s < t, wrote[t] > 0, Begun(t),
         \A m \in Range(lines) : m.type = "ended" => m.id >= t
  PROVE  FALSE
<1>1. Based BY DEF Heeded, Told
<1>2. s \in Nat /\ t \in Nat BY Bounds DEF Sessions
<1>3. CASE \E m \in Range(lines) : m.type = "ended" /\ m.id = s BY <1>2, <1>3
<1>4. CASE live.id = s
  <2>1. live # NoLive BY <1>4 DEF NoLive, Sessions, NoSession
  <2>2. live.id = ids /\ t <= ids /\ ids \in Nat BY <1>1, <2>1, BasedFields
  <2> QED BY <1>2, <1>4, <2>2
<1>5. CASE \A m \in Range(lines) : m.type = "started" => m.id <= s BY <1>2, <1>5 DEF Begun
<1> QED BY <1>3, <1>4, <1>5 DEF Ending

(* The line of a session's start.                                            *)
LEMMA StartedAudio ==
  ASSUME Heeded, Told', ReadStarted
  PROVE  Heeded'
<1> DEFINE h == Head(lines)
           b == IF app.cur.end # "no" THEN EndedCur(app) ELSE app
<1>1. /\ lines # <<>> /\ lines' = Tail(lines) /\ h.type = "started" /\ app' = StartedNow(app, h.id)
      /\ UNCHANGED helperVars /\ packets' = packets
      /\ \A i \in DOMAIN packets : packets[i].s >= h.id
  BY DEF ReadStarted, Read
<1>2. /\ Told /\ Based /\ Typed /\ app \in Apps /\ lines \in Seq(Messages) /\ packets \in Seq(Packets)
      /\ Unread /\ HaveStarts /\ ReadInTurn /\ AudioIsItsOwn /\ Listens
  BY BasedFields DEF Heeded, Told, Based, Audio, Log
<1>3. /\ h \in Range(lines) /\ h.id \in Sessions /\ Range(lines) = Range(lines') \cup {h}
  BY <1>1, <1>2, ReadIs
<1>4. /\ wrote[h.id] > 0 /\ app.cur.id < h.id /\ \A s \in Sessions : Logged(s) => s < h.id
  BY <1>1, <1>2, <1>3 DEF Told, LinesWait, StartWaits
<1>5. wrote' = wrote BY <1>1 DEF helperVars
<1>6. \A x \in Range(packets) : x.s >= h.id /\ x.s # app.cur.id
  <2>1. \A x \in Range(packets) : x.s >= h.id BY <1>1 DEF Range
  <2>2. Range(packets) \subseteq Packets /\ app.cur.id \in Sessions \cup {NoSession}
    BY <1>2, AppFields, PipeTyped
  <2>3. app.cur.id \in Nat /\ h.id \in Nat /\ \A x \in Range(packets) : x.s \in Nat
    BY <1>3, <2>2 DEF Packets, Sessions, NoSession
  <2> QED BY <1>4, <2>1, <2>3
<1>7. /\ app'.cur.id = h.id /\ app'.cur.chunks = app.early /\ app'.early = <<>>
      /\ app'.said = b.said /\ app'.kept = b.kept
  BY <1>1, <1>2, <1>3, StartedIs DEF Fields
<1> HIDE DEF h
<1>8. /\ \A t \in Sessions : b.said[t] # <<>> <=> Logged(t) \/ t = app.cur.id
      /\ \A t \in Sessions : b.said[t] # <<>> => b.kept[t] = PacketsOf(t, wrote[t])
      /\ app.cur.id \in Sessions => Got(app.cur.id) = wrote[app.cur.id] /\ app.early = <<>>
  <2>1. CASE app.cur.end # "no"
    <3>1. b = EndedCur(app) BY <2>1
    <3> HIDE DEF b
    <3> QED BY <1>6, <2>1, <3>1, EndedAudio
  <2>2. CASE app.cur.end = "no"
    <3>1. app.cur.id \notin Sessions
      <4> SUFFICES ASSUME app.cur.id \in Sessions PROVE FALSE OBVIOUS
      <4>1. app.cur # NoCur BY <1>2, AppFields DEF NoCur, NoSession, Sessions
      <4>2. Ending(app.cur.id) BY <1>2, <2>2, <4>1 DEF Listens
      <4>3. Begun(h.id) BY <1>1, <1>3 DEF Begun, h
      <4>4. \A m \in Range(lines) : m.type = "ended" => m.id >= h.id
        <5> SUFFICES ASSUME NEW m \in Range(lines), m.type = "ended" PROVE m.id >= h.id OBVIOUS
        <5>1. Ordered(lines) BY <1>2 DEF Told, LinesWait
        <5>2. h.type = "started" BY <1>1 DEF h
        <5>3. m # h BY <5>2
        <5>4. InOrder(h, m) BY <1>1, <1>2, <1>3, <5>1, <5>3, OrderedTail DEF h
        <5>5. h.id <= m.id BY <5>2, <5>4 DEF InOrder
        <5>6. m.id \in Nat /\ h.id \in Nat BY <1>2, <1>3, PipeTyped, MessageKinds DEF Sessions
        <5> QED BY <5>5, <5>6
      <4> DEFINE s == app.cur.id
                 t == h.id
      <4>5. s \in Sessions /\ t \in Sessions /\ Ending(s) /\ s < t /\ wrote[t] > 0 /\ Begun(t)
            /\ \A m \in Range(lines) : m.type = "ended" => m.id >= t
        BY <1>3, <1>4, <4>2, <4>3, <4>4
      <4> HIDE DEF s, t
      <4> QED BY <4>5, NoLater
    <3>2. b = app BY <2>2
    <3>3. \A t \in Sessions : Logged(t) => app.kept[t] = PacketsOf(t, wrote[t])
      BY <1>2 DEF AudioIsItsOwn, Logged, PacketsOf
    <3> QED BY <3>1, <3>2, <3>3 DEF Logged
  <2> QED BY <2>1, <2>2
<1> HIDE DEF b
<1>9. h.id \in Nat /\ ~Logged(h.id) /\ h.id # app.cur.id
  <2>1. h.id \in Nat /\ ~(h.id < h.id) BY <1>3 DEF Sessions
  <2> QED BY <1>3, <1>4, <2>1
<1>10. /\ Early \in Sessions \cup {NoSession} /\ (Early = NoSession <=> app.early = <<>>)
       /\ \A s \in Sessions : Got(s) \in Nat /\ wrote[s] \in 0..MaxPackets /\ MaxPackets \in Nat
  BY <1>2, GotFields
<1>11. app.early # <<>> => Early = h.id
  <2> SUFFICES ASSUME app.early # <<>>, Early # h.id PROVE FALSE OBVIOUS
  <2>1. Early \in Sessions /\ Early \in Nat BY <1>10 DEF Sessions, NoSession
  <2>2. PICK m \in Range(lines) : m.type = "started" /\ m.id = Early BY <1>2 DEF ReadInTurn, Begun
  <2>3. m # h BY <2>2
  <2>4. Ordered(lines) BY <1>2 DEF Told, LinesWait
  <2>5. InOrder(h, m) BY <1>1, <1>2, <1>3, <2>3, <2>4, OrderedTail DEF h
  <2>6. h.type = "started" BY <1>1 DEF h
  <2>7. h.id < Early BY <2>2, <2>5, <2>6 DEF InOrder
  <2>8. Got(h.id) = 0 BY <1>9 DEF Got
  <2> DEFINE x == [s |-> h.id, n |-> 0]
  <2>9. x \in Packets /\ x.s = h.id /\ x.n = 0
    BY <1>3, <1>4, <1>10 DEF Packets
  <2> HIDE DEF x
  <2>10. Got(x.s) <= x.n /\ x.n < wrote[x.s] BY <1>3, <1>4, <1>10, <2>8, <2>9
  <2>11. x \in Range(packets) BY <1>2, <2>9, <2>10 DEF Unread
  <2>12. Early <= h.id BY <1>2, <2>9, <2>11 DEF Unread
  <2> QED BY <1>9, <2>1, <2>7, <2>12
<1>12. Early' = NoSession BY <1>7 DEF Early
<1>13. \A t \in Sessions : Logged(t)' <=> Logged(t) \/ t = app.cur.id BY <1>7, <1>8 DEF Logged
<1>14. ASSUME NEW t \in Sessions PROVE Got(t)' = Got(t)
  <2>1. CASE Logged(t) BY <1>5, <1>13, <2>1 DEF Got
  <2>2. CASE ~Logged(t) /\ t = app.cur.id BY <1>5, <1>8, <1>13, <2>2 DEF Got
  <2>3. CASE ~Logged(t) /\ t # app.cur.id /\ t = h.id
    <3>1. Got(t)' = Len(app.early) BY <1>7, <1>13, <2>3 DEF Got
    <3>2. CASE app.early = <<>>
      <4>1. Early # t /\ Len(app.early) = 0 BY <1>10, <3>2, PacketsNone DEF Sessions, NoSession
      <4> QED BY <2>3, <3>1, <4>1 DEF Got
    <3>3. CASE app.early # <<>> BY <1>11, <2>3, <3>1, <3>3 DEF Got
    <3> QED BY <3>2, <3>3
  <2>4. CASE ~Logged(t) /\ t # app.cur.id /\ t # h.id
    <3>1. Early # t BY <1>10, <1>11, <2>4 DEF Sessions, NoSession
    <3>2. Early' # t BY <1>12 DEF Sessions, NoSession
    <3> QED BY <1>7, <1>13, <2>4, <3>1, <3>2 DEF Got
  <2> QED BY <2>1, <2>2, <2>3, <2>4
<1>15. Unread'
  <2>1. \A p \in Range(packets) : app'.cur.id <= p.s /\ Early' <= p.s
    <3> SUFFICES ASSUME NEW p \in Range(packets) PROVE h.id <= p.s /\ NoSession <= p.s
      BY <1>7, <1>12
    <3>1. p \in Packets BY <1>2, PipeTyped
    <3>2. p.s \in Nat BY <3>1 DEF Packets, Sessions
    <3> QED BY <1>6, <1>9, <3>2 DEF NoSession
  <2> QED BY <1>1, <1>2, <1>5, <1>14, <2>1, UnreadSame
<1>16. HaveStarts'
  <2> SUFFICES ASSUME NEW t \in Sessions, wrote[t] > 0
               PROVE  Logged(t)' \/ app'.cur.id = t \/ Begun(t)'
    BY <1>5 DEF HaveStarts
  <2>1. Logged(t) \/ app.cur.id = t \/ Begun(t) BY <1>2 DEF HaveStarts
  <2>2. CASE Begun(t) BY <1>3, <1>7, <2>2 DEF Begun
  <2> QED BY <1>13, <2>1, <2>2
<1>17. ReadInTurn'
  <2>1. app'.cur.chunks = PacketsOf(app'.cur.id, Len(app'.cur.chunks))
    <3>1. CASE app.early = <<>> BY <1>7, <3>1, PacketsNone
    <3>2. CASE app.early # <<>> BY <1>2, <1>7, <1>11, <3>2 DEF ReadInTurn
    <3> QED BY <3>1, <3>2
  <2>2. app'.early = PacketsOf(Early', Len(app'.early)) BY <1>7, PacketsNone
  <2> QED BY <1>7, <2>1, <2>2 DEF ReadInTurn
<1>18. AudioIsItsOwn' BY <1>5, <1>7, <1>8 DEF AudioIsItsOwn, PacketsOf
<1> QED BY <1>15, <1>16, <1>17, <1>18 DEF Heeded, Audio

(* A packet.                                                                 *)
LEMMA PacketIs ==
  ASSUME Heeded, ReadPacket, NEW p, p = Head(packets)
  PROVE  /\ packets # <<>> /\ packets' = Tail(packets) /\ app' = Heard(app, p) /\ lines' = lines
         /\ UNCHANGED helperVars /\ wrote' = wrote
         /\ app.cur.id = p.s \/ Begun(p.s)
         /\ \A s \in Sessions : Ending(s) /\ s < p.s => Begun(p.s) = FALSE
         /\ \A x \in Range(packets') : x \in Range(packets) /\ x # p /\ x.s \in Nat /\ p.s <= x.s
<1>1. /\ packets # <<>> /\ packets' = Tail(packets) /\ app' = Heard(app, p) /\ lines' = lines
      /\ UNCHANGED helperVars /\ \A i \in DOMAIN lines : lines[i].type = "ended" => lines[i].id >= p.s
  BY DEF ReadPacket
<1>2. wrote' = wrote BY <1>1 DEF helperVars
<1>3. /\ p \in Packets /\ p.s \in Sessions /\ p.n \in Nat /\ p.n < wrote[p.s] /\ ~Logged(p.s)
      /\ Range(Tail(packets)) = Range(packets) \ {p}
      /\ \A x \in Range(packets) : x = p \/ Before(p, x)
  BY <1>1, NextRead
<1>4. Typed /\ HaveStarts /\ packets \in Seq(Packets) /\ wrote[p.s] \in Nat
  BY <1>3, BasedFields DEF Heeded, Told, Based, Audio
<1>5. app.cur.id = p.s \/ Begun(p.s) BY <1>3, <1>4 DEF HaveStarts
<1>6. \A m \in Range(lines) : m.type = "ended" => m.id >= p.s BY <1>1 DEF Range
<1>7. ASSUME NEW s \in Sessions, Ending(s), s < p.s PROVE Begun(p.s) = FALSE
  <2> DEFINE t == p.s
  <2>1. t \in Sessions /\ wrote[t] > 0 /\ s < t /\ \A m \in Range(lines) : m.type = "ended" => m.id >= t
    BY <1>3, <1>4, <1>6, <1>7
  <2> HIDE DEF t
  <2>2. ~Begun(t) BY <1>7, <2>1, NoLater
  <2>3. Begun(t) \in BOOLEAN BY DEF Begun
  <2> QED BY <2>2, <2>3 DEF t
<1>8. ASSUME NEW x \in Range(packets')
      PROVE  x \in Range(packets) /\ x # p /\ x.s \in Nat /\ p.s <= x.s
  <2>1. x \in Range(packets) /\ x # p BY <1>1, <1>3, <1>8
  <2>2. x \in Packets BY <1>4, <2>1, PipeTyped
  <2>3. x.s \in Nat /\ p.s \in Nat BY <1>3, <2>2 DEF Packets, Sessions
  <2>4. Before(p, x) BY <1>3, <2>1
  <2> QED BY <2>1, <2>3, <2>4 DEF Before
<1> QED BY <1>1, <1>2, <1>5, <1>7, <1>8

(* The first packet of the next session ends the one that drains.            *)
LEMMA PacketEnds ==
  ASSUME Heeded, Told', ReadPacket, NEW p, p = Head(packets),
         app.cur.end # "no", app.cur.chunks # <<>>, p.n = 0
  PROVE  Heeded'
<1> DEFINE b == EndedCur(app)
<1>0. p = Head(packets) /\ b = EndedCur(app) /\ p.n = 0 OBVIOUS
<1> HIDE DEF b
<1>1. /\ packets # <<>> /\ packets' = Tail(packets) /\ app' = Heard(app, p) /\ lines' = lines
      /\ wrote' = wrote /\ (app.cur.id = p.s \/ Begun(p.s))
      /\ \A x \in Range(packets') : x \in Range(packets) /\ x # p /\ x.s \in Nat /\ p.s <= x.s
  BY <1>0, PacketIs
<1>2. /\ p \in Packets /\ p.s \in Sessions /\ Got(p.s) = p.n /\ ~Logged(p.s) /\ app.cur.id <= p.s
      /\ Range(Tail(packets)) = Range(packets) \ {p}
  BY <1>0, <1>1, NextRead
<1>3. Based /\ Typed /\ app \in Apps /\ HaveStarts /\ ReadInTurn
  BY BasedFields DEF Heeded, Told, Based, Audio
<1>4. app.cur.id # p.s
  <2> SUFFICES ASSUME app.cur.id = p.s PROVE FALSE OBVIOUS
  <2>1. Len(app.cur.chunks) = 0 BY <1>0, <1>2 DEF Got
  <2>2. app.cur.chunks \in Seq(Packets) BY <1>3, AppFields
  <2> QED BY <2>1, <2>2, EmptySeq
<1>5. \A x \in Range(packets) : x.s # app.cur.id
  <2> SUFFICES ASSUME NEW x \in Range(packets), x.s = app.cur.id PROVE FALSE OBVIOUS
  <2>1. x \in Range(packets') BY <1>1, <1>2, <1>4
  <2>2. p.s \in Nat BY <1>2 DEF Sessions
  <2> QED BY <1>1, <1>2, <1>4, <2>1, <2>2
<1>6. /\ b.cur = NoCur /\ b.early = <<>> /\ app.early = <<>>
      /\ app.cur.id \in Sessions /\ Got(app.cur.id) = wrote[app.cur.id]
      /\ \A t \in Sessions : b.said[t] # <<>> <=> Logged(t) \/ t = app.cur.id
      /\ \A t \in Sessions : b.said[t] # <<>> => b.kept[t] = PacketsOf(t, wrote[t])
  BY <1>0, <1>5, EndedAudio
<1>7. /\ app'.cur = NoCur /\ app'.early = <<p>> /\ app'.said = b.said /\ app'.kept = b.kept
  <2> DEFINE c == IF app.cur.end # "no" /\ app.cur.chunks # <<>> /\ p.n = 0 THEN EndedCur(app) ELSE app
  <2>1. c = b BY <1>0
  <2>2. /\ c.cur = NoCur => app'.cur = NoCur /\ app'.early = IF p.n = 0 THEN <<p>>
                                 ELSE IF c.early = <<>> THEN c.early ELSE Append(c.early, p)
        /\ \A f \in Fields \ {"cur", "early"} : app'[f] = c[f]
    BY <1>1, <1>2, <1>3, HeardIs
  <2> HIDE DEF c
  <2> QED BY <1>0, <1>6, <2>1, <2>2 DEF Fields
<1>8. Len(<<p>>) = 1 /\ <<p>>[1] = p /\ <<p>> # <<>> /\ <<p>> = PacketsOf(p.s, 1)
  <2>1. <<>> \in Seq(Packets) /\ <<>> = PacketsOf(p.s, Len(<<>>)) /\ Len(<<>>) = 0
    BY PacketsNone, EmptySeq
  <2> DEFINE q == Append(<<>>, p)
  <2>2. q = PacketsOf(p.s, Len(q))
    BY <1>0, <1>2, <2>1, PacketsGrow
  <2>3. q = <<p>> /\ Len(<<p>>) = 1 /\ <<p>>[1] = p OBVIOUS
  <2> HIDE DEF q
  <2> QED BY <2>2, <2>3, PacketsNone
<1>9. Early' = p.s /\ app'.cur.id = NoSession BY <1>7, <1>8 DEF Early, NoCur
<1>10. \A t \in Sessions : Logged(t)' <=> Logged(t) \/ t = app.cur.id BY <1>6, <1>7 DEF Logged
<1>11. Got(p.s)' = p.n + 1
  <2>1. Got(p.s)' = Len(app'.early) BY <1>2, <1>4, <1>9, <1>10 DEF Got, Sessions, NoSession
  <2> QED BY <1>0, <1>7, <1>8, <2>1
<1>12. ASSUME NEW t \in Sessions, t # p.s PROVE Got(t)' = Got(t)
  <2>1. CASE Logged(t) BY <1>1, <1>10, <2>1 DEF Got
  <2>2. CASE ~Logged(t) /\ t = app.cur.id BY <1>1, <1>6, <1>10, <2>2 DEF Got
  <2>3. CASE ~Logged(t) /\ t # app.cur.id
    <3>1. Early # t BY <1>6 DEF Early, Sessions, NoSession
    <3>2. Early' # t /\ app'.cur.id # t BY <1>9, <1>12 DEF Sessions, NoSession
    <3> QED BY <1>10, <2>3, <3>1, <3>2 DEF Got
  <2> QED BY <2>1, <2>2, <2>3
<1>13. Unread'
  <2>1. \A x \in Range(packets') : app'.cur.id <= x.s /\ Early' <= x.s
    BY <1>1, <1>9 DEF NoSession
  <2> QED BY <1>0, <1>1, <1>11, <1>12, <2>1, UnreadNext
<1>14. Begun(p.s)' /\ \A t \in Sessions : Begun(t)' <=> Begun(t) BY <1>1, <1>4 DEF Begun
<1>15. HaveStarts' BY <1>1, <1>3, <1>10, <1>14 DEF HaveStarts
<1>16. ReadInTurn'
  <2>1. app'.cur.chunks = PacketsOf(app'.cur.id, Len(app'.cur.chunks))
    BY <1>7, PacketsNone DEF NoCur
  <2>2. app'.early = PacketsOf(Early', Len(app'.early)) BY <1>7, <1>8, <1>9
  <2>3. Begun(Early)' BY <1>9, <1>14 DEF Begun
  <2> QED BY <1>7, <2>1, <2>2, <2>3 DEF ReadInTurn
<1>17. AudioIsItsOwn' BY <1>1, <1>6, <1>7 DEF AudioIsItsOwn, PacketsOf
<1> QED BY <1>13, <1>15, <1>16, <1>17 DEF Heeded, Audio

(* A packet of the session that listens or drains.                           *)
LEMMA PacketHeard ==
  ASSUME Heeded, Told', ReadPacket, NEW p, p = Head(packets), app.cur # NoCur, NEW s, s = app.cur.id,
         ~(app.cur.end # "no" /\ app.cur.chunks # <<>> /\ p.n = 0)
  PROVE  Heeded'
<1>0. p = Head(packets) /\ s = app.cur.id /\ ~(app.cur.end # "no" /\ app.cur.chunks # <<>> /\ p.n = 0)
  OBVIOUS
<1>1. /\ packets # <<>> /\ packets' = Tail(packets) /\ app' = Heard(app, p) /\ lines' = lines
      /\ wrote' = wrote /\ (s = p.s \/ Begun(p.s))
      /\ \A t \in Sessions : Ending(t) /\ t < p.s => Begun(p.s) = FALSE
      /\ \A x \in Range(packets') : x \in Range(packets) /\ x # p /\ x.s \in Nat /\ p.s <= x.s
  BY <1>0, PacketIs
<1>2. /\ p \in Packets /\ p.s \in Sessions /\ p.n \in Nat /\ Got(p.s) = p.n /\ ~Logged(p.s) /\ s <= p.s
      /\ Range(Tail(packets)) = Range(packets) \ {p}
      /\ \A x \in Range(packets) : x = p \/ Before(p, x)
  BY <1>0, <1>1, NextRead
<1>3. Based /\ Typed /\ app \in Apps /\ Unread /\ HaveStarts /\ ReadInTurn /\ Listens
  BY BasedFields DEF Heeded, Told, Based, Audio, Log
<1>4. s \in Sessions /\ s \in Nat /\ p.s \in Nat /\ app.cur.chunks \in Seq(Packets)
  <2>1. s \in Sessions /\ app.cur.chunks \in Seq(Packets) BY <1>0, <1>3, AppFields
  <2> QED BY <1>2, <2>1 DEF Sessions
<1>5. ~Logged(s) /\ wrote[s] > 0 /\ (app.cur.end = "no" => Ending(s))
  BY <1>0, <1>3 DEF Listens
<1>6. Early = NoSession /\ app.early = <<>> BY <1>3 DEF ReadInTurn, Early
<1>7. /\ \A t \in Sessions : Got(t) \in Nat /\ wrote[t] \in 0..MaxPackets
      /\ MaxPackets \in Nat
  BY <1>3, GotFields
<1>8. p.s = s
  <2> SUFFICES ASSUME s < p.s PROVE FALSE BY <1>2, <1>4
  <2>1. s # p.s BY <1>4
  <2>2. Begun(p.s) BY <1>1, <2>1
  <2>3. app.cur.end # "no" BY <1>1, <1>4, <1>5, <2>2
  <2>4. p.n = 0
    <3>1. Early # p.s BY <1>2, <1>6 DEF Sessions, NoSession
    <3> QED BY <1>0, <1>2, <2>1, <3>1 DEF Got
  <2>5. app.cur.chunks = <<>> BY <1>0, <2>3, <2>4
  <2>6. Got(s) = 0 BY <1>0, <1>5, <2>5, PacketsNone DEF Got
  <2> DEFINE x == [s |-> s, n |-> 0]
  <2>7. x \in Packets /\ x.s = s /\ x.n = 0 BY <1>4, <1>5, <1>7 DEF Packets
  <2> HIDE DEF x
  <2>8. Got(x.s) <= x.n /\ x.n < wrote[x.s] BY <1>4, <1>5, <1>7, <2>6, <2>7
  <2>9. x \in Range(packets) BY <1>3, <2>7, <2>8 DEF Unread
  <2>10. x # p BY <2>1, <2>7
  <2>11. Before(p, x) BY <1>2, <2>9, <2>10
  <2> QED BY <1>4, <2>7, <2>11 DEF Before
<1>9. /\ app'.cur.id = s /\ app'.cur.chunks = Append(app.cur.chunks, p) /\ app'.early = <<>>
      /\ app'.said = app.said /\ app'.kept = app.kept
  <2> DEFINE c == IF app.cur.end # "no" /\ app.cur.chunks # <<>> /\ p.n = 0 THEN EndedCur(app) ELSE app
  <2>1. c = app BY <1>0
  <2>2. /\ c.cur # NoCur =>
             app'.cur = [c.cur EXCEPT !.chunks = Append(c.cur.chunks, p)] /\ app'.early = c.early
        /\ \A f \in Fields \ {"cur", "early"} : app'[f] = c[f]
    BY <1>1, <1>2, <1>3, HeardIs
  <2> HIDE DEF c
  <2>3. app'.cur = [app.cur EXCEPT !.chunks = Append(app.cur.chunks, p)] /\ app'.early = app.early
    BY <2>1, <2>2
  <2>4. app.cur \in [id : Sessions, chunks : Seq(Packets), end : {"no"} \cup Reasons,
                     stopping : BOOLEAN]
    BY <1>3, AppFields DEF Curs
  <2>5. app'.cur.id = app.cur.id /\ app'.cur.chunks = Append(app.cur.chunks, p) BY <2>3, <2>4
  <2>6. app'.said = app.said /\ app'.kept = app.kept BY <2>1, <2>2 DEF Fields
  <2> QED BY <1>0, <1>6, <2>3, <2>5, <2>6
<1>10. Got(s) = Len(app.cur.chunks) BY <1>0, <1>5 DEF Got
<1>11. Len(Append(app.cur.chunks, p)) = Len(app.cur.chunks) + 1
  BY <1>2, <1>4, PipeWritten
<1>12. Early' = NoSession BY <1>9 DEF Early
<1>13. \A t \in Sessions : Logged(t)' <=> Logged(t) BY <1>9 DEF Logged
<1>14. Got(p.s)' = p.n + 1
  <2>1. Got(s)' = Len(app'.cur.chunks) BY <1>4, <1>5, <1>9, <1>13 DEF Got
  <2>2. Got(s)' = Got(s) + 1 BY <1>9, <1>10, <1>11, <2>1
  <2> QED BY <1>2, <1>8, <2>2
<1>15. ASSUME NEW t \in Sessions, t # p.s PROVE Got(t)' = Got(t)
  <2>1. Early # t /\ Early' # t BY <1>6, <1>12 DEF Sessions, NoSession
  <2> QED BY <1>0, <1>1, <1>8, <1>9, <1>13, <1>15, <2>1 DEF Got
<1>16. Unread'
  <2>1. \A x \in Range(packets') : app'.cur.id <= x.s /\ Early' <= x.s
    BY <1>1, <1>8, <1>9, <1>12 DEF NoSession
  <2> QED BY <1>0, <1>1, <1>14, <1>15, <2>1, UnreadNext
<1>17. HaveStarts' BY <1>0, <1>1, <1>3, <1>9, <1>13 DEF HaveStarts, Begun
<1>18. ReadInTurn'
  <2>1. app.cur.chunks = PacketsOf(s, Len(app.cur.chunks)) BY <1>0, <1>3 DEF ReadInTurn
  <2>2. p.n = Len(app.cur.chunks) BY <1>2, <1>8, <1>10
  <2> DEFINE q == app.cur.chunks
  <2>3. q \in Seq(Packets) /\ q = PacketsOf(s, Len(q)) /\ p.n = Len(q) BY <1>4, <2>1, <2>2
  <2> HIDE DEF q
  <2>4. Append(q, p) = PacketsOf(s, Len(Append(q, p))) BY <1>2, <1>4, <1>8, <2>3, PacketsGrow
  <2>5. app'.cur.chunks = PacketsOf(app'.cur.id, Len(app'.cur.chunks)) BY <1>9, <2>4 DEF q
  <2>6. app'.early = PacketsOf(Early', Len(app'.early)) BY <1>9, PacketsNone
  <2> QED BY <1>9, <2>5, <2>6 DEF ReadInTurn
<1>19. AudioIsItsOwn' BY <1>1, <1>9 DEF Heeded, Audio, AudioIsItsOwn
<1> QED BY <1>16, <1>17, <1>18, <1>19 DEF Heeded, Audio

(* A packet of the next session, whose line is still to come.                *)
LEMMA PacketEarly ==
  ASSUME Heeded, Told', ReadPacket, NEW p, p = Head(packets), app.cur = NoCur
  PROVE  Heeded'
<1>1. /\ packets # <<>> /\ packets' = Tail(packets) /\ app' = Heard(app, p) /\ lines' = lines
      /\ wrote' = wrote /\ (app.cur.id = p.s \/ Begun(p.s))
      /\ \A t \in Sessions : Ending(t) /\ t < p.s => Begun(p.s) = FALSE
      /\ \A x \in Range(packets') : x \in Range(packets) /\ x # p /\ x.s \in Nat /\ p.s <= x.s
  BY PacketIs
<1>2. /\ p \in Packets /\ p.s \in Sessions /\ p.n \in Nat /\ Got(p.s) = p.n /\ ~Logged(p.s)
      /\ Early <= p.s
  BY <1>1, NextRead
<1>3. /\ Based /\ Typed /\ app \in Apps /\ HaveStarts /\ ReadInTurn /\ LinesWait
      /\ app.early \in Seq(Packets)
  BY BasedFields, AppFields DEF Heeded, Told, Based, Audio
<1>4. app.cur.id = NoSession /\ app.cur.end = "no" BY DEF NoCur
<1>5. Begun(p.s) BY <1>1, <1>2, <1>4 DEF Sessions, NoSession
<1>6. /\ Early \in Sessions \cup {NoSession} /\ (Early = NoSession <=> app.early = <<>>)
      /\ app.early # <<>> => Len(app.early) \in Nat \ {0}
  BY <1>3, GotFields
<1>7. app.early # <<>> => Early = p.s
  <2> SUFFICES ASSUME app.early # <<>>, Early # p.s PROVE FALSE OBVIOUS
  <2>1. Early \in Sessions BY <1>6
  <2>2. Early < p.s BY <1>2, <2>1 DEF Sessions
  <2>3. PICK m \in Range(lines) : m.type = "started" /\ m.id = Early BY <1>3 DEF ReadInTurn, Begun
  <2>4. Ending(Early) BY <1>3, <2>3 DEF LinesWait, StartWaits
  <2> QED BY <1>1, <1>5, <2>1, <2>2, <2>4
<1>8. p.n = Len(app.early)
  <2>1. CASE app.early = <<>>
    <3>1. Early # p.s BY <1>2, <1>6, <2>1 DEF Sessions, NoSession
    <3> QED BY <1>2, <1>4, <2>1, <3>1, PacketsNone DEF Got, Sessions, NoSession
  <2>2. CASE app.early # <<>> BY <1>2, <1>4, <1>7, <2>2 DEF Got, Sessions, NoSession
  <2> QED BY <2>1, <2>2
<1>9. app.early = PacketsOf(p.s, Len(app.early))
  <2>1. CASE app.early = <<>> BY <2>1, PacketsNone
  <2>2. CASE app.early # <<>> BY <1>3, <1>7, <2>2 DEF ReadInTurn
  <2> QED BY <2>1, <2>2
<1> DEFINE q == app.early
           r == Append(q, p)
<1>10. /\ r = PacketsOf(p.s, Len(r)) /\ r # <<>> /\ Len(r) = Len(q) + 1 /\ Len(q) \in Nat
       /\ q = <<>> => r = <<p>>
  <2>1. q \in Seq(Packets) /\ q = PacketsOf(p.s, Len(q)) /\ p.n = Len(q) BY <1>3, <1>8, <1>9
  <2> HIDE DEF q
  <2>2. r = PacketsOf(p.s, Len(r)) BY <1>2, <2>1, PacketsGrow
  <2>3. r # <<>> /\ Len(r) = Len(q) + 1 /\ Len(q) \in Nat BY <1>2, <2>1, PipeWritten
  <2>4. q = <<>> => r = <<p>> OBVIOUS
  <2> QED BY <2>2, <2>3, <2>4
<1>11. q = <<>> <=> p.n = 0
  <2>1. q # <<>> => Len(q) \in Nat \ {0} BY <1>6
  <2> QED BY <1>8, <2>1, PacketsNone
<1> HIDE DEF r
<1>12. /\ app'.cur = NoCur /\ app'.early = r /\ app'.said = app.said /\ app'.kept = app.kept
  <2> DEFINE c == IF app.cur.end # "no" /\ app.cur.chunks # <<>> /\ p.n = 0 THEN EndedCur(app) ELSE app
  <2>1. c = app BY <1>4
  <2>2. /\ c.cur = NoCur => app'.cur = NoCur /\ app'.early = IF p.n = 0 THEN <<p>>
                                 ELSE IF c.early = <<>> THEN c.early ELSE Append(c.early, p)
        /\ \A f \in Fields \ {"cur", "early"} : app'[f] = c[f]
    BY <1>1, <1>2, <1>3, HeardIs
  <2> HIDE DEF c
  <2>3. app'.cur = NoCur /\ app'.early = IF p.n = 0 THEN <<p>> ELSE IF q = <<>> THEN q ELSE r
    BY <2>1, <2>2 DEF q, r
  <2>4. app'.early = r BY <1>10, <1>11, <2>3
  <2> QED BY <2>1, <2>2, <2>3, <2>4 DEF Fields
<1>13. Early' = p.s /\ app'.cur.id = NoSession
  <2>1. r[1] = [s |-> p.s, n |-> 0]
    <3> DEFINE k == Len(r)
    <3>1. k \in Nat \ {0} /\ r = PacketsOf(p.s, k) BY <1>10
    <3> HIDE DEF k
    <3> QED BY <3>1 DEF PacketsOf
  <2> QED BY <1>10, <1>12, <2>1 DEF Early, NoCur
<1>14. \A t \in Sessions : Logged(t)' <=> Logged(t) BY <1>12 DEF Logged
<1>15. Got(p.s)' = p.n + 1
  <2>1. Got(p.s)' = Len(app'.early) BY <1>2, <1>13, <1>14 DEF Got, Sessions, NoSession
  <2> QED BY <1>8, <1>10, <1>12, <2>1
<1>16. ASSUME NEW t \in Sessions, t # p.s PROVE Got(t)' = Got(t)
  <2>1. Early # t BY <1>6, <1>7, <1>16 DEF Sessions, NoSession
  <2>2. Early' # t /\ app'.cur.id # t /\ app.cur.id # t BY <1>4, <1>13, <1>16 DEF Sessions, NoSession
  <2> QED BY <1>1, <1>14, <2>1, <2>2 DEF Got
<1>17. Unread'
  <2>1. \A x \in Range(packets') : app'.cur.id <= x.s /\ Early' <= x.s
    BY <1>1, <1>13 DEF NoSession
  <2> QED BY <1>1, <1>15, <1>16, <2>1, UnreadNext
<1>18. \A t \in Sessions : Begun(t)' <=> Begun(t) BY <1>1 DEF Begun
<1>19. HaveStarts'
  <2>1. \A t \in Sessions : app.cur.id # t BY <1>4 DEF Sessions, NoSession
  <2> QED BY <1>1, <1>3, <1>14, <1>18, <2>1 DEF HaveStarts
<1>20. ReadInTurn'
  <2>1. app'.cur.chunks = PacketsOf(app'.cur.id, Len(app'.cur.chunks))
    BY <1>12, PacketsNone DEF NoCur
  <2>2. app'.early = PacketsOf(Early', Len(app'.early)) BY <1>10, <1>12, <1>13
  <2>3. Begun(Early)' BY <1>1, <1>5, <1>13 DEF Begun
  <2> QED BY <1>12, <2>1, <2>2, <2>3 DEF ReadInTurn
<1>21. AudioIsItsOwn' BY <1>1, <1>12 DEF Heeded, Audio, AudioIsItsOwn
<1> QED BY <1>17, <1>19, <1>20, <1>21 DEF Heeded, Audio

LEMMA PacketAudio ==
  ASSUME Heeded, Told', ReadPacket
  PROVE  Heeded'
<1>1. PICK p : p = Head(packets) OBVIOUS
<1>2. CASE app.cur.end # "no" /\ app.cur.chunks # <<>> /\ p.n = 0 BY <1>1, <1>2, PacketEnds
<1>3. CASE app.cur # NoCur /\ ~(app.cur.end # "no" /\ app.cur.chunks # <<>> /\ p.n = 0)
  <2>1. PICK s : s = app.cur.id OBVIOUS
  <2> QED BY <1>1, <1>3, <2>1, PacketHeard
<1>4. CASE app.cur = NoCur BY <1>1, <1>4, PacketEarly
<1> QED BY <1>2, <1>3, <1>4

(* The session that listens ends, with all its audio.                        *)
LEMMA AllRead ==
  ASSUME Heeded, Told', packets' = packets, wrote' = wrote, lines' = lines,
         app'.cur = NoCur, app'.early = <<>>, app.early = <<>>,
         NEW c, c = app.cur.id, c \in Sessions => Got(c) = wrote[c],
         \A t \in Sessions : Logged(t)' <=> Logged(t) \/ t = c,
         \A t \in Sessions : Logged(t)' => app'.kept[t] = PacketsOf(t, wrote[t])
  PROVE  Heeded'
<1>1. Unread /\ HaveStarts /\ packets \in Seq(Packets)
  BY BasedFields DEF Heeded, Told, Audio
<1>2. Early = NoSession /\ Early' = NoSession /\ app'.cur.id = NoSession BY DEF Early, NoCur
<1>3. ASSUME NEW t \in Sessions PROVE Got(t)' = Got(t)
  <2>1. CASE Logged(t) BY <2>1 DEF Got
  <2>2. CASE ~Logged(t) /\ t = c BY <2>2 DEF Got
  <2>3. CASE ~Logged(t) /\ t # c BY <1>2, <2>3 DEF Got, Sessions, NoSession
  <2> QED BY <2>1, <2>2, <2>3
<1>4. Unread'
  <2>1. \A p \in Range(packets) : app'.cur.id <= p.s /\ Early' <= p.s
    <3> SUFFICES ASSUME NEW p \in Range(packets) PROVE NoSession <= p.s BY <1>2
    <3>1. p \in Packets BY <1>1, PipeTyped
    <3> QED BY <3>1 DEF Packets, Sessions, NoSession
  <2> QED BY <1>1, <1>3, <2>1, UnreadSame
<1>5. HaveStarts' BY <1>1 DEF HaveStarts, Begun
<1>6. ReadInTurn'
  <2>1. app'.cur.chunks = <<>> BY DEF NoCur
  <2> QED BY <2>1, PacketsNone DEF ReadInTurn
<1>7. AudioIsItsOwn' BY DEF AudioIsItsOwn, Logged, PacketsOf
<1> QED BY <1>4, <1>5, <1>6, <1>7 DEF Heeded, Audio

LEMMA DrainAudio ==
  ASSUME Heeded, Told', DrainEnds
  PROVE  Heeded'
<1>1. PICK b : b = EndedCur(app) OBVIOUS
<1>2. PICK c : c = app.cur.id OBVIOUS
<1>3. /\ app.cur.end # "no" /\ app' = b /\ lines' = lines /\ packets' = packets /\ wrote' = wrote
      /\ \A p \in Range(packets) : p.s # app.cur.id
  BY <1>1 DEF DrainEnds, pipes, helperVars, Range
<1>4. /\ b.cur = NoCur /\ b.early = <<>> /\ app.early = <<>> /\ Got(c) = wrote[c]
      /\ \A t \in Sessions : b.said[t] # <<>> <=> Logged(t) \/ t = c
      /\ \A t \in Sessions : b.said[t] # <<>> => b.kept[t] = PacketsOf(t, wrote[t])
  BY <1>1, <1>2, <1>3, EndedAudio
<1> QED BY <1>2, <1>3, <1>4, AllRead DEF Logged

LEMMA GoneAudio ==
  ASSUME Heeded, Told', HelperGone
  PROVE  Heeded'
<1>1. PICK c : c = app.cur.id OBVIOUS
<1>2. /\ lines = <<>> /\ packets = <<>> /\ lines' = lines /\ packets' = packets /\ wrote' = wrote
      /\ app' = Gone(app)
  BY DEF HelperGone, pipes
<1>3. app \in Apps /\ ReadInTurn /\ AudioIsItsOwn /\ OnceEach(app) /\ Listens
  BY BasedFields DEF Heeded, Told, Audio, Log
<1>4. Range(lines) = {} /\ Range(packets) = {} BY <1>2, PipeEmpty
<1>5. app.early = <<>> BY <1>3, <1>4 DEF ReadInTurn, Begun
<1>6. /\ app'.cur = NoCur /\ app'.early = <<>>
      /\ app'.kept = IF app.cur = NoCur THEN app.kept ELSE [app.kept EXCEPT ![app.cur.id] = app.cur.chunks]
  BY <1>2, <1>3, GoneIs
<1>7. \A t \in Sessions : Logged(t)' <=> Logged(t) \/ (app.cur # NoCur /\ t = c)
  <2>1. app.cur # NoCur => app.said[app.cur.id] = <<>> BY <1>3 DEF Listens, Logged
  <2>2. PICK b : b = app' OBVIOUS
  <2>3. \A t \in Sessions :
          b.said[t] # <<>> <=> app.said[t] # <<>> \/ (app.cur # NoCur /\ t = app.cur.id)
    BY <1>2, <1>3, <2>1, <2>2, OnceGone
  <2> QED BY <1>1, <2>2, <2>3 DEF Logged
<1>8. app.cur = NoCur <=> c \notin Sessions BY <1>1, <1>3, AppFields DEF Sessions, NoSession
<1>9. app.cur # NoCur => Got(c) = wrote[c] /\ app.cur.chunks = PacketsOf(c, wrote[c])
  BY <1>1, <1>4, AudioWhole
<1>10. ASSUME NEW t \in Sessions, Logged(t)' PROVE app'.kept[t] = PacketsOf(t, wrote[t])
  <2>1. app.kept \in [Sessions -> Seq(Packets)] BY <1>3, AppFields
  <2>2. CASE app.cur # NoCur /\ t = c BY <1>1, <1>6, <1>9, <2>1, <2>2
  <2>3. CASE ~(app.cur # NoCur /\ t = c)
    <3>1. Logged(t) BY <1>7, <1>10, <2>3
    <3>2. app'.kept[t] = app.kept[t] BY <1>1, <1>6, <2>1, <2>3
    <3> QED BY <1>3, <3>1, <3>2 DEF AudioIsItsOwn, Logged, PacketsOf
  <2> QED BY <2>2, <2>3
<1>11. \A t \in Sessions : Logged(t)' <=> Logged(t) \/ t = c BY <1>7, <1>8
<1> QED BY <1>1, <1>2, <1>5, <1>6, <1>8, <1>9, <1>10, <1>11, AllRead

(* What is read but is no start leaves the starts.                           *)
LEMMA BegunStays ==
  ASSUME Based, lines' = lines \/ (lines # <<>> /\ lines' = Tail(lines) /\ Head(lines).type # "started")
  PROVE  \A s \in Sessions : Begun(s) => Begun(s)'
<1>1. CASE lines' = lines BY <1>1 DEF Begun
<1>2. CASE lines # <<>> /\ lines' = Tail(lines) /\ Head(lines).type # "started"
  <2>1. Range(lines) = Range(lines') \cup {Head(lines)} BY <1>2, ReadIs
  <2> QED BY <1>2, <2>1 DEF Begun
<1> QED BY <1>1, <1>2

(* One more event of a dictation that is logged.                             *)
LEMMA LoggedStays ==
  ASSUME app \in Apps, NEW s \in Sessions, NEW what \in Ends, Len(app.said[s]) = 1,
         app'.said = [app.said EXCEPT ![s] = Append(app.said[s], what)]
  PROVE  \A t \in Sessions : Logged(t)' <=> Logged(t)
<1>1. app.said \in [Sessions -> Seq({"started"} \cup Ends)] BY AppFields
<1>2. /\ Len(Append(app.said[s], what)) = Len(app.said[s]) + 1
      /\ app.said[s] # <<>> <=> Len(app.said[s]) # 0
  BY OneMore
<1>3. app'.said[s] = Append(app.said[s], what) /\ \A t \in Sessions : t # s => app'.said[t] = app.said[t]
  BY <1>1
<1>4. Len(app'.said[s]) = 2 BY <1>2, <1>3
<1>5. app'.said[s] # <<>> BY <1>4, EmptySeq
<1> QED BY <1>2, <1>3, <1>5 DEF Logged

LEMMA EndReadAudio ==
  ASSUME Heeded, Told', ReadEnded
  PROVE  Heeded'
<1>1. Based BY DEF Heeded, Told
<1>2. /\ lines # <<>> /\ lines' = Tail(lines) /\ Head(lines).type = "ended"
      /\ UNCHANGED <<helperVars, packets, commands>>
      /\ app.cur.id = app'.cur.id /\ app'.cur.chunks = app.cur.chunks
      /\ \A f \in Fields \ {"cur"} : app'[f] = app[f]
  BY <1>1, EndReadIs
<1>3. app'.early = app.early /\ app'.kept = app.kept /\ app'.said = app.said BY <1>2 DEF Fields
<1>4. app.cur = NoCur => app'.cur = NoCur
  <2>1. app \in Apps /\ app' \in Apps BY BasedFields DEF Heeded, Told, Based, Typed, TypeOK
  <2> QED BY <1>2, <2>1, AppFields
<1>5. \A s \in Sessions : Begun(s) => Begun(s)' BY <1>1, <1>2, BegunStays
<1> QED BY <1>2, <1>3, <1>4, <1>5, AudioSame DEF helperVars, Logged

LEMMA AnswerAudio ==
  ASSUME Heeded, Told', ReadAnswer
  PROVE  Heeded'
<1>0. Based /\ Log /\ app \in Apps BY BasedFields DEF Heeded, Told
<1>1. /\ lines # <<>> /\ lines' = Tail(lines) /\ Head(lines).type # "started" /\ UNCHANGED helperVars
      /\ packets' = packets /\ \E what \in Ends : app' = Answered(app, Head(lines).id, what)
  BY DEF ReadAnswer, Read, Ends
<1>2. PICK s \in Sessions : s = Head(lines).id BY <1>0, <1>1, ReadIs
<1>3. PICK what \in Ends : app' = Answered(app, s, what) BY <1>1, <1>2
<1>4. \A t \in Sessions : Begun(t) => Begun(t)' BY <1>0, <1>1, BegunStays
<1>5. CASE s \notin app.inserts
  <2>1. app' = app BY <1>3, <1>5 DEF Answered
  <2> QED BY <1>1, <1>4, <2>1, AudioSame DEF helperVars, Logged
<1>6. CASE s \in app.inserts
  <2>0. ASSUME NEW b, b = app'
        PROVE  /\ b \in Apps /\ b.inserts = app.inserts \ {s} /\ b.late = RemoveFirst(app.late, s)
               /\ b.said = [app.said EXCEPT ![s] = Append(app.said[s], what)]
               /\ b.state = IF app.cur # NoCur \/ app.state = "starting" THEN app.state
                            ELSE IF app.work # <<>> THEN "transcribing"
                            ELSE IF app.inserts \ {s} # {} THEN "inserting" ELSE "idle"
               /\ \A f \in Fields \ {"inserts", "late", "said", "state"} : b[f] = app[f]
    <3>1. b = Answered(app, s, what) BY <1>3, <2>0
    <3> QED BY ONLY <1>0, <1>2, <1>6, <3>1, AnsweredIs
  <2>1. app'.said = [app.said EXCEPT ![s] = Append(app.said[s], what)] BY <2>0
  <2>2. \A f \in Fields \ {"inserts", "late", "said", "state"} : app'[f] = app[f] BY <2>0
  <2>3. app'.cur = app.cur /\ app'.early = app.early /\ app'.kept = app.kept BY <2>2 DEF Fields
  <2>4. Len(app.said[s]) = 1 BY <1>0, <1>6 DEF Log, OnceEach
  <2>5. \A t \in Sessions : Logged(t)' <=> Logged(t) BY <1>0, <2>1, <2>4, LoggedStays
  <2> QED BY <1>1, <1>4, <2>3, <2>5, AudioSame DEF helperVars
<1> QED BY <1>5, <1>6

LEMMA KeyReadAudio ==
  ASSUME Heeded, Told', ReadKey
  PROVE  Heeded'
<1>1. Based BY DEF Heeded, Told
<1>2. /\ lines # <<>> /\ lines' = Tail(lines) /\ Head(lines).type = "key"
      /\ UNCHANGED <<helperVars, packets>>
      /\ \A f \in Fields \ {"asked", "late"} : app'[f] = app[f]
  BY <1>1, KeyReadIs
<1>3. app'.cur = app.cur /\ app'.early = app.early /\ app'.kept = app.kept /\ app'.said = app.said
  BY <1>2 DEF Fields
<1>4. \A s \in Sessions : Begun(s) => Begun(s)' BY <1>1, <1>2, BegunStays
<1> QED BY <1>2, <1>3, <1>4, AudioSame DEF helperVars, Logged

LEMMA StopByAudio ==
  ASSUME Heeded, Told', StopBy
  PROVE  Heeded'
<1>1. Based BY DEF Heeded, Told
<1>2. /\ UNCHANGED <<helperVars, lines, packets>> /\ app.cur # NoCur
      /\ app'.cur.id = app.cur.id /\ app'.cur.chunks = app.cur.chunks
      /\ \A f \in Fields \ {"cur"} : app'[f] = app[f]
  BY <1>1, StopByIs
<1>3. app'.early = app.early /\ app'.kept = app.kept /\ app'.said = app.said BY <1>2 DEF Fields
<1>4. \A s \in Sessions : Begun(s) => Begun(s)' BY <1>2 DEF Begun
<1> QED BY <1>2, <1>3, <1>4, AudioSame DEF helperVars, Logged

LEMMA DecodeAudio ==
  ASSUME Heeded, Told', NEW words \in BOOLEAN, NEW clipboard \in BOOLEAN, DecodeEnds(words, clipboard)
  PROVE  Heeded'
<1>0. Based /\ Log /\ app \in Apps BY BasedFields DEF Heeded, Told
<1>1. /\ app.work # <<>> /\ Head(app.work) \in Sessions /\ UNCHANGED <<helperVars, lines, packets>>
      /\ \A f \in {"cur", "early", "kept", "asked"} : app'[f] = app[f]
      /\ \/ app'.said = app.said
         \/ \E what \in Ends : app'.said =
              [app.said EXCEPT ![Head(app.work)] = Append(app.said[Head(app.work)], what)]
  BY <1>0, DecodeEndsIs
<1>2. app'.cur = app.cur /\ app'.early = app.early /\ app'.kept = app.kept BY <1>1
<1>3. \A t \in Sessions : Logged(t)' <=> Logged(t)
  <2>1. CASE app'.said = app.said BY <2>1 DEF Logged
  <2>2. ASSUME NEW what \in Ends, NEW s \in Sessions, s = Head(app.work),
               app'.said = [app.said EXCEPT ![s] = Append(app.said[s], what)]
        PROVE  \A t \in Sessions : Logged(t)' <=> Logged(t)
    <3>1. app.work \in Seq(Sessions) BY <1>0, AppFields
    <3>2. s \in Range(app.work) BY <1>1, <2>2, <3>1, PipeRead
    <3>3. Len(app.said[s]) = 1 BY <1>0, <3>2 DEF Log, OnceEach
    <3> QED BY <1>0, <2>2, <3>3, LoggedStays
  <2> QED BY <1>1, <2>1, <2>2
<1>4. \A s \in Sessions : Begun(s) => Begun(s)' BY <1>1 DEF Begun
<1> QED BY <1>1, <1>2, <1>3, <1>4, AudioSame DEF helperVars

LEMMA HeededKept ==
  ASSUME Heeded, ~PressInRoll, [Next]_vars
  PROVE  Heeded'
<1>1. Told' BY ToldKept DEF Heeded
<1>2. Based BY DEF Heeded, Told
<1>3. CASE User \/ Helper
  <2>1. PICK N \in SUBSET Messages : HelperMoves(N) BY <1>2, <1>3, EveryMove
  <2> QED BY <1>1, <2>1, AudioMoves
<1>4. CASE ReadStarted BY <1>1, <1>4, StartedAudio
<1>5. CASE ReadEnded BY <1>1, <1>5, EndReadAudio
<1>6. CASE ReadAnswer BY <1>1, <1>6, AnswerAudio
<1>7. CASE ReadKey BY <1>1, <1>7, KeyReadAudio
<1>8. CASE ReadPacket BY <1>1, <1>8, PacketAudio
<1>9. CASE DrainEnds BY <1>1, <1>9, DrainAudio
<1>10. CASE StopBy BY <1>1, <1>10, StopByAudio
<1>11. CASE HelperGone BY <1>1, <1>11, GoneAudio
<1>12. CASE \E words, clipboard \in BOOLEAN : DecodeEnds(words, clipboard)
  BY <1>1, <1>12, DecodeAudio
<1>13. CASE UNCHANGED vars
  <2>1. UNCHANGED helperVars /\ lines' = lines /\ packets' = packets /\ app' = app
    BY <1>13 DEF vars, pipes
  <2>2. \A s \in Sessions : Begun(s) => Begun(s)' BY <2>1 DEF Begun
  <2> QED BY <1>1, <2>1, <2>2, AudioSame DEF helperVars, Logged
<1> QED BY <1>3, <1>4, <1>5, <1>6, <1>7, <1>8, <1>9, <1>10, <1>11, <1>12, <1>13 DEF Next, App

LEMMA InitHeeded == Init => Heeded
<1> SUFFICES ASSUME Init PROVE Heeded OBVIOUS
<1>1. Told BY InitTold
<1>2. /\ packets = <<>> /\ lines = <<>> /\ app.cur = NoCur /\ app.early = <<>>
      /\ \A s \in Sessions : wrote[s] = 0 /\ app.said[s] = <<>>
  BY DEF Init
<1>3. Range(<<>>) = {} /\ Len(<<>>) = 0 BY PipeEmpty, PacketsNone
<1>4. \A s \in Sessions : Got(s) = 0
  BY <1>2, <1>3 DEF Got, Logged, NoCur, Early, Sessions, NoSession
<1>5. InTurn(packets) BY <1>2, <1>3 DEF InTurn
<1>6. ASSUME NEW p \in Packets
      PROVE  p \in Range(packets) <=> Got(p.s) <= p.n /\ p.n < wrote[p.s]
  <2>1. p.s \in Sessions /\ p.n \in Nat BY <1>1, GotFields DEF Packets, Told, Based
  <2> QED BY <1>2, <1>3, <1>4, <2>1
<1>7. Unread BY <1>2, <1>3, <1>4, <1>5, <1>6 DEF Unread
<1>8. HaveStarts /\ AudioIsItsOwn BY <1>2 DEF HaveStarts, AudioIsItsOwn
<1>9. ReadInTurn BY <1>2, PacketsNone DEF ReadInTurn, NoCur
<1> QED BY <1>1, <1>7, <1>8, <1>9 DEF Heeded, Audio

(* Where no press comes in the post-roll of another session, each dictation  *)
(* is decoded from its own audio, all of it and in order, whichever pipe is  *)
(* read first (session.ts:848-898, 1020-1041).                               *)
THEOREM DictationAudio == ~PressInRoll => (Spec => []AudioIsItsOwn)
<1> SUFFICES ASSUME ~PressInRoll PROVE Spec => []AudioIsItsOwn OBVIOUS
<1>1. Heeded /\ [Next]_vars => Heeded' BY HeededKept
<1>2. Heeded => AudioIsItsOwn BY DEF Heeded, Audio
<1> QED BY InitHeeded, <1>1, <1>2, PTL DEF Spec

-----------------------------------------------------------------------------
(* The texts and the keys.                                                   *)

LEMMA WholeIs ==
  /\ DictationInv <=> Heeded /\ Texts /\ SendsMeant /\ KeysFind
  /\ DictationInv =>
       /\ Based /\ Told /\ LinesWait /\ Log /\ app \in Apps /\ lines \in Seq(Messages)
       /\ commands \in Seq(Commands) /\ sends \in [Sessions -> Nat]
       /\ pressed \in Seq([id : Sessions, ask : Keys])
       /\ pasting.id \in Sessions \cup {NoSession} /\ pasting.send \in BOOLEAN
       /\ pasting = NoPaste <=> pasting.id = NoSession
       /\ OneText(commands) /\ KeysWait /\ AsksMeant /\ TextsMeant /\ LatestIsLast /\ OnceEach(app)
<1>1. DictationInv <=> Heeded /\ Texts /\ SendsMeant /\ KeysFind
  BY DEF DictationInv, Heeded, Told, Based, Typed
<1> SUFFICES ASSUME DictationInv
             PROVE  /\ Based /\ Told /\ LinesWait /\ Log /\ app \in Apps /\ lines \in Seq(Messages)
                    /\ commands \in Seq(Commands) /\ sends \in [Sessions -> Nat]
                    /\ pressed \in Seq([id : Sessions, ask : Keys])
                    /\ pasting.id \in Sessions \cup {NoSession} /\ pasting.send \in BOOLEAN
                    /\ pasting = NoPaste <=> pasting.id = NoSession
                    /\ OneText(commands) /\ KeysWait /\ AsksMeant /\ TextsMeant /\ LatestIsLast
                    /\ OnceEach(app)
  BY <1>1
<1>2. TypeOK /\ Based /\ Told /\ LinesWait /\ Log BY <1>1 DEF Heeded, Told, Based, Typed
<1>3. /\ commands \in Seq(Commands) /\ sends \in [Sessions -> Nat] /\ app \in Apps
      /\ pressed \in Seq([id : Sessions, ask : Keys]) /\ lines \in Seq(Messages)
  BY <1>2 DEF TypeOK
<1>4. OneText(commands) /\ KeysWait /\ AsksMeant /\ TextsMeant /\ LatestIsLast /\ OnceEach(app)
  BY <1>1, <1>2 DEF Texts, SendsMeant, KeysFind, Log
<1> QED BY <1>2, <1>3, <1>4, FieldTypes

(* What is decoded has its start in the log.                                 *)
LEMMA DecodingLogged == OnceEach(app) => \A s \in Decoding : Len(app.said[s]) = 1 /\ Logged(s)
<1> SUFFICES ASSUME OnceEach(app), NEW s \in Decoding PROVE Len(app.said[s]) = 1 /\ Logged(s) OBVIOUS
<1>1. PICK q : q = app.said[s] OBVIOUS
<1>2. Len(q) = 1 BY <1>1 DEF OnceEach, Decoding
<1>3. Len(<<>>) = 0 BY EmptySeq
<1>4. q # <<>>
  <2>1. q = <<>> => Len(q) = 0 BY ONLY <1>3
  <2> QED BY ONLY <1>2, <2>1
<1>5. Logged(s) BY <1>1, <1>4 DEF Logged
<1> QED BY <1>1, <1>2, <1>5

(* The sessions that keys are for are the newest of all that wrote.          *)
LEMMA KeyForNewest ==
  ASSUME Told, activation # "idle"
  PROVE  /\ KeyFor \in Sessions /\ helper = "up"
         /\ \A s \in Sessions : wrote[s] > 0 => s <= KeyFor
<1>1. Based /\ OthersOver BY DEF Told
<1>2. helper = "up" BY <1>1 DEF Based, Down
<1>3. KeyFor \in Sessions
  BY <1>1, BasedFields DEF Based, Typed, TypeOK, Numbered, KeyFor
<1>4. ASSUME NEW s \in Sessions, wrote[s] > 0 PROVE s <= KeyFor
  <2>1. CASE live # NoLive BY <1>1, <1>4, <2>1, BasedFields DEF KeyFor
  <2>2. CASE live = NoLive
    <3>1. s # live.id BY <1>1, <2>2, BasedFields, Bounds
    <3> QED BY <1>1, <1>2, <1>4, <2>2, <3>1 DEF OthersOver, KeyFor
  <2> QED BY <2>1, <2>2
<1> QED BY <1>2, <1>3, <1>4

LEMMA KeyComesLate ==
  ASSUME DictationInv, NEW s, KeyComes(s)
  PROVE  /\ s \in Sessions /\ app.cur.id <= s
         /\ \A t \in Sessions : Logged(t) => t <= s
<1>1. Based /\ Told /\ Log /\ app \in Apps /\ lines \in Seq(Messages) /\ KeysWait BY WholeIs
<1>2. CASE activation # "idle" /\ s = KeyFor
  <2>1. s \in Sessions /\ \A t \in Sessions : wrote[t] > 0 => t <= s BY <1>1, <1>2, KeyForNewest
  <2>2. \A t \in Sessions : Logged(t) => t <= s BY <1>1, <2>1 DEF Log, LoggedIsOver
  <2>3. app.cur.id <= s
    <3>1. CASE app.cur # NoCur
      <4>1. app.cur.id \in Sessions BY <1>1, <3>1, AppFields
      <4> QED BY <1>1, <2>1, <3>1, <4>1 DEF Log, Listens
    <3>2. CASE app.cur = NoCur BY <2>1, <3>2, Bounds DEF NoCur, NoSession
    <3> QED BY <3>1, <3>2
  <2> QED BY <2>1, <2>2, <2>3
<1>3. ASSUME NEW m \in Range(lines), m.type = "key", m.id = s
      PROVE  s \in Sessions /\ app.cur.id <= s /\ \A t \in Sessions : Logged(t) => t <= s
  <2>1. m \in Messages BY <1>1, PipeTyped
  <2>2. KeyWaits(m) BY <1>1, <1>3 DEF KeysWait
  <2> QED BY <1>3, <2>1, <2>2, MessageKinds DEF KeyWaits
<1> QED BY <1>2, <1>3 DEF KeyComes

(* At most one text of a session is among the commands.                      *)
LEMMA OneTextTail ==
  ASSUME NEW q \in Seq(Commands), q # <<>>, OneText(q)
  PROVE  /\ OneText(Tail(q)) /\ Range(Tail(q)) \subseteq Range(q) /\ Head(q) \in Range(q)
         /\ Head(q) \in Commands
         /\ Head(q).type = "insert" =>
              \A c \in Range(Tail(q)) : c.type = "insert" => c.id # Head(q).id
<1> DEFINE r == Tail(q)
<1>1. /\ r \in Seq(Commands) /\ Len(q) \in Nat \ {0} /\ Len(r) = Len(q) - 1
      /\ \A i \in 1..Len(r) : r[i] = q[i + 1]
      /\ Head(q) = q[1] /\ Range(q) = Range(r) \cup {Head(q)} /\ Head(q) \in Commands
  BY PipeRead
<1>2. Range(r) = {r[i] : i \in 1..Len(r)} BY <1>1, RangeEquality
<1> HIDE DEF r
<1>3. ASSUME NEW i \in 1..Len(r), NEW j \in 1..Len(r), i < j, r[i].type = "insert", r[j].type = "insert"
      PROVE  r[i].id # r[j].id
  <2>1. i + 1 \in 1..Len(q) /\ j + 1 \in 1..Len(q) /\ i + 1 < j + 1 BY <1>1, <1>3
  <2>2. r[i] = q[i + 1] /\ r[j] = q[j + 1] BY <1>1
  <2> QED BY <1>3, <2>1, <2>2 DEF OneText
<1>4. ASSUME Head(q).type = "insert", NEW c \in Range(r), c.type = "insert" PROVE c.id # Head(q).id
  <2>1. PICK i \in 1..Len(r) : c = r[i] BY <1>2
  <2>2. 1 \in 1..Len(q) /\ i + 1 \in 1..Len(q) /\ 1 < i + 1 BY <1>1
  <2>3. c = q[i + 1] /\ Head(q) = q[1] BY <1>1, <2>1
  <2> QED BY <1>4, <2>2, <2>3 DEF OneText
<1>5. OneText(r) BY <1>3 DEF OneText
<1> QED BY <1>1, <1>4, <1>5 DEF r

LEMMA OneTextMore ==
  ASSUME NEW q \in Seq(Commands), NEW c \in Commands, OneText(q),
         c.type = "insert" => \A x \in Range(q) : x.type = "insert" => x.id # c.id
  PROVE  OneText(Append(q, c)) /\ Range(Append(q, c)) = Range(q) \cup {c}
<1> DEFINE r == Append(q, c)
<1>1. /\ Len(r) = Len(q) + 1 /\ Len(q) \in Nat /\ \A i \in 1..Len(q) : r[i] = q[i]
      /\ r[Len(q) + 1] = c /\ Range(r) = Range(q) \cup {c}
  BY PipeWritten
<1>2. Range(q) = {q[i] : i \in 1..Len(q)} BY RangeEquality
<1> HIDE DEF r
<1>3. ASSUME NEW i \in 1..Len(r), NEW j \in 1..Len(r), i < j, r[i].type = "insert", r[j].type = "insert"
      PROVE  r[i].id # r[j].id
  <2>1. i \in 1..Len(q) /\ r[i] = q[i] BY <1>1, <1>3
  <2>2. CASE j \in 1..Len(q)
    <3>1. r[j] = q[j] BY <1>1, <2>2
    <3> QED BY <1>3, <2>1, <2>2, <3>1 DEF OneText
  <2>3. CASE j = Len(q) + 1
    <3>1. r[j] = c BY <1>1, <2>3
    <3>2. r[i] \in Range(q) BY <1>2, <2>1
    <3> QED BY <1>3, <3>1, <3>2
  <2> QED BY <1>1, <2>2, <2>3
<1> QED BY <1>1, <1>3 DEF OneText, r

(* What a step of the helper does to the texts that are out.                 *)
TextMoves ==
  /\ Range(commands') \subseteq Range(commands) /\ OneText(commands')
  /\ \A c \in Range(commands') : c.type = "insert" => c.id # pasting'.id
  /\ pasting' # NoPaste => Out(pasting'.id) /\ (pasting'.send => Meant(pasting'.id))
  /\ \/ sends' = sends
     \/ \E s \in Sessions :
          /\ Out(s) /\ Meant(s) /\ sends' = [sends EXCEPT ![s] = sends[s] + 1]
          /\ pasting'.id # s /\ \A c \in Range(commands') : c.type = "insert" => c.id # s

LEMMA TextsMoved ==
  ASSUME DictationInv, app' = app, Range(pressed) \subseteq Range(pressed'), TextMoves,
         Based'
  PROVE  Texts' /\ TextsMeant'
<1>1. /\ sends \in [Sessions -> Nat] /\ OneText(commands) /\ TextsMeant /\ Texts
      /\ commands \in Seq(Commands)
      /\ pasting'.send \in BOOLEAN /\ (pasting' = NoPaste => pasting'.send = FALSE)
  <2>1. TypeOK' BY DEF Based, Typed
  <2>2. pasting' = NoPaste \/ pasting' \in [id : Sessions, send : BOOLEAN] BY <2>1 DEF TypeOK
  <2>3. NoPaste.send = FALSE BY DEF NoPaste
  <2>4. pasting'.send \in BOOLEAN /\ (pasting' = NoPaste => pasting'.send = FALSE) BY <2>2, <2>3
  <2> QED BY <2>4, WholeIs
<1>2. \A s : Meant(s) => Meant(s)' BY DEF Meant
<1>3. \A s : Logged(s)' <=> Logged(s) BY DEF Logged
<1>4. \A s : (s \in Decoding)' <=> s \in Decoding BY DEF Decoding
<1>5. PICK t : \/ sends' = sends /\ t = NoSession
               \/ /\ t \in Sessions /\ Out(t) /\ Meant(t) /\ sends' = [sends EXCEPT ![t] = sends[t] + 1]
                  /\ pasting'.id # t /\ \A c \in Range(commands') : c.type = "insert" => c.id # t
  BY DEF TextMoves
<1>6. \A s \in Sessions : s # t => sends'[s] = sends[s] BY <1>1, <1>5
<1>7. t \in Sessions => sends'[t] = 1 /\ Out(t) /\ Meant(t)
  <2> SUFFICES ASSUME t \in Sessions PROVE sends'[t] = 1 /\ Out(t) /\ Meant(t) OBVIOUS
  <2>1. t # NoSession BY Bounds
  <2> QED BY <1>1, <1>5, <2>1 DEF Out
<1>8. ASSUME NEW s \in Sessions, Out(s), s # t PROVE Out(s)'
  BY <1>3, <1>4, <1>6, <1>8 DEF Out
<1>9. ASSUME NEW c \in Range(commands'), c.type = "insert"
      PROVE  Out(c.id)' /\ c.id # pasting'.id
  <2>1. c \in Range(commands) /\ c.id # pasting'.id BY <1>9 DEF TextMoves
  <2>2. c \in Commands BY <1>1, <2>1, PipeTyped
  <2>3. c.id \in Sessions BY <1>9, <2>2, CommandKinds
  <2>4. c.id # t BY <1>5, <1>9, <2>3, Bounds
  <2>5. Out(c.id) BY <1>1, <1>9, <2>1 DEF Texts
  <2> QED BY <1>8, <2>1, <2>3, <2>4, <2>5
<1>10. PICK p : p = pasting' OBVIOUS
<1>15. p # NoPaste => p.id \in Sessions /\ Out(p.id)'
  <2> SUFFICES ASSUME p # NoPaste PROVE p.id \in Sessions /\ Out(p.id)' OBVIOUS
  <2>1. TypeOK' BY DEF Based, Typed
  <2>2. p.id \in Sessions BY <1>10, <2>1 DEF TypeOK
  <2>3. Out(p.id) BY <1>10 DEF TextMoves
  <2>4. p.id # t BY <1>5, <1>10, <2>2, Bounds
  <2> QED BY <1>8, <2>2, <2>3, <2>4
<1>11. ASSUME NEW s \in Sessions, sends'[s] > 0
       PROVE  sends'[s] = 1 /\ Logged(s)' /\ s \notin Decoding' /\ Meant(s)'
  <2>1. CASE s = t BY <1>2, <1>3, <1>4, <1>7, <2>1 DEF Out
  <2>2. CASE s # t
    <3>1. sends[s] = sends'[s] BY <1>6, <2>2
    <3> QED BY <1>1, <1>2, <1>3, <1>4, <1>11, <3>1 DEF Texts, TextsMeant
  <2> QED BY <2>1, <2>2
<1>12. Texts'
  <2>1. OneText(commands') BY DEF TextMoves
  <2>2. pasting' # NoPaste => Out(pasting.id)' BY <1>10, <1>15
  <2> QED BY <1>9, <1>11, <2>1, <2>2 DEF Texts
<1>13. \A c \in Range(commands') :
         c.type = "send" \/ (c.type = "insert" /\ c.send) => Meant(c.id)'
  BY <1>1, <1>2 DEF TextMoves, TextsMeant
<1>14. p.send => Meant(p.id)'
  BY <1>1, <1>2, <1>10 DEF TextMoves
<1> QED BY <1>10, <1>11, <1>12, <1>13, <1>14 DEF TextsMeant

(* Nothing is taken, or what is taken is not a text; the pasting one may get *)
(* its send key.                                                             *)
LEMMA TextsLeft ==
  ASSUME DictationInv, sends' = sends,
         commands' \in {commands, <<>>} \/ (commands # <<>> /\ commands' = Tail(commands)),
         \/ pasting' = pasting
         \/ pasting' = NoPaste
         \/ /\ pasting' = [pasting EXCEPT !.send = TRUE]
            /\ pasting # NoPaste /\ Meant(pasting.id)
  PROVE  TextMoves
<1>1. /\ commands \in Seq(Commands) /\ OneText(commands) /\ Texts /\ TextsMeant
      /\ pasting \in [id : Sessions, send : BOOLEAN] \cup {NoPaste}
  BY WholeIs DEF Based, Typed, TypeOK
<1>2. Range(commands') \subseteq Range(commands) /\ OneText(commands')
  <2>1. CASE commands' = commands BY <1>1, <2>1
  <2>2. CASE commands' = <<>>
    <3>1. Range(<<>>) = {} /\ Len(<<>>) = 0 BY PipeEmpty, EmptySeq
    <3>2. OneText(<<>>) BY <3>1 DEF OneText
    <3> QED BY <2>2, <3>1, <3>2
  <2>3. CASE commands # <<>> /\ commands' = Tail(commands) BY <1>1, <2>3, OneTextTail
  <2> QED BY <2>1, <2>2, <2>3
<1>3. /\ pasting' # NoPaste => pasting # NoPaste /\ pasting'.id = pasting.id
      /\ pasting'.id \in {pasting.id, NoSession}
      /\ pasting'.send => pasting.send \/ Meant(pasting.id)
  <2>1. NoPaste.id = NoSession /\ NoPaste.send = FALSE BY DEF NoPaste
  <2>2. CASE pasting' = [pasting EXCEPT !.send = TRUE] /\ pasting # NoPaste /\ Meant(pasting.id)
    BY <1>1, <2>2
  <2> QED BY <2>1, <2>2
<1>4. \A c \in Range(commands') : c.type = "insert" => c.id # pasting'.id
  <2> SUFFICES ASSUME NEW c \in Range(commands'), c.type = "insert" PROVE c.id # pasting'.id OBVIOUS
  <2>1. c \in Range(commands) /\ c \in Commands BY <1>1, <1>2, PipeTyped
  <2>2. c.id # pasting.id /\ c.id \in Sessions BY <1>1, <2>1, CommandKinds DEF Texts
  <2> QED BY <1>3, <2>2, Bounds
<1>5. pasting' # NoPaste => Out(pasting'.id) /\ (pasting'.send => Meant(pasting'.id))
  <2> SUFFICES ASSUME pasting' # NoPaste
               PROVE  Out(pasting'.id) /\ (pasting'.send => Meant(pasting'.id))
    OBVIOUS
  <2>1. PICK p : p = pasting' OBVIOUS
  <2>2. pasting # NoPaste /\ p.id = pasting.id /\ (p.send => pasting.send \/ Meant(pasting.id))
    BY <1>3, <2>1
  <2>3. Out(p.id) /\ (p.send => Meant(p.id)) BY <1>1, <2>2 DEF Texts, TextsMeant
  <2> QED BY <2>1, <2>3
<1> QED BY <1>2, <1>4, <1>5 DEF TextMoves

(* The text that waits for its receipt is settled.                           *)
LEMMA PasteMoves ==
  ASSUME DictationInv, pasting # NoPaste, NEW ok \in BOOLEAN, pasting' = NoPaste, commands' = commands,
         sends' = IF ok /\ pasting.send THEN [sends EXCEPT ![pasting.id] = @ + 1] ELSE sends
  PROVE  TextMoves
<1>1. CASE ~(ok /\ pasting.send) BY <1>1, TextsLeft
<1>2. CASE ok /\ pasting.send
  <2> DEFINE s == pasting.id
  <2>1. /\ s \in Sessions /\ Texts /\ TextsMeant /\ OneText(commands) /\ commands \in Seq(Commands)
        /\ NoPaste.id = NoSession
    BY WholeIs DEF NoPaste
  <2>2. Out(s) /\ Meant(s) BY <1>2, <2>1 DEF Texts, TextsMeant
  <2>3. sends' = [sends EXCEPT ![s] = sends[s] + 1] BY <1>2
  <2>4. ASSUME NEW c \in Range(commands'), c.type = "insert" PROVE c.id # s /\ c.id # pasting'.id
    <3>1. c \in Range(commands) /\ c \in Commands BY <2>1, <2>4, PipeTyped
    <3> QED BY <2>1, <2>4, <3>1, CommandKinds, Bounds DEF Texts
  <2>5. pasting'.id # s BY <2>1, Bounds
  <2> HIDE DEF s
  <2> QED BY <2>1, <2>2, <2>3, <2>4, <2>5 DEF TextMoves
<1> QED BY <1>1, <1>2

(* A text is taken from the commands, with no other waiting for its receipt. *)
LEMMA InsertMoves ==
  ASSUME DictationInv, pasting = NoPaste, commands # <<>>, commands' = Tail(commands),
         NEW c, c = Head(commands), c.type = "insert",
         \/ pasting' = [id |-> c.id, send |-> c.send] /\ sends' = sends
         \/ pasting' = NoPaste /\ sends' = sends
         \/ pasting' = NoPaste /\ c.send /\ sends' = [sends EXCEPT ![c.id] = @ + 1]
  PROVE  TextMoves
<1>1. /\ commands \in Seq(Commands) /\ OneText(commands) /\ Texts /\ TextsMeant
      /\ NoPaste.id = NoSession /\ NoPaste.send = FALSE
  BY WholeIs DEF NoPaste
<1>2. /\ OneText(commands') /\ Range(commands') \subseteq Range(commands)
      /\ c \in Range(commands) /\ c \in Commands
      /\ \A x \in Range(commands') : x.type = "insert" => x.id # c.id
  BY <1>1, OneTextTail
<1>3. c.id \in Sessions /\ Out(c.id) /\ (c.send => Meant(c.id))
  BY <1>1, <1>2, CommandKinds DEF Texts, TextsMeant
<1>4. \A x \in Range(commands') : x.type = "insert" => x.id \in Sessions
  BY <1>1, <1>2, PipeTyped, CommandKinds
<1>5. CASE pasting' = [id |-> c.id, send |-> c.send] /\ sends' = sends
  <2>1. PICK p : p = pasting' OBVIOUS
  <2>2. p.id = c.id /\ p.send = c.send BY <1>5, <2>1
  <2>3. Out(p.id) /\ (p.send => Meant(p.id)) BY <1>3, <2>2
  <2> QED BY <1>2, <1>5, <2>1, <2>2, <2>3 DEF TextMoves
<1>6. CASE pasting' = NoPaste /\ sends' = sends
  BY <1>1, <1>2, <1>4, <1>6, Bounds DEF TextMoves
<1>7. CASE pasting' = NoPaste /\ c.send /\ sends' = [sends EXCEPT ![c.id] = @ + 1]
  <2>1. PICK s \in Sessions : s = c.id BY <1>3
  <2>2. Out(s) /\ Meant(s) /\ sends' = [sends EXCEPT ![s] = sends[s] + 1] BY <1>3, <1>7, <2>1
  <2>3. pasting'.id # s BY <1>1, <1>7, Bounds
  <2>4. \A x \in Range(commands') : x.type = "insert" => x.id # pasting'.id
    BY <1>1, <1>4, <1>7, Bounds
  <2> QED BY <1>2, <1>7, <2>1, <2>2, <2>3, <2>4 DEF TextMoves
<1> QED BY <1>5, <1>6, <1>7

LEMMA EveryText ==
  ASSUME DictationInv, User \/ Helper
  PROVE  TextMoves
<1>1. CASE User
  <2>1. UNCHANGED <<pasting, sends, commands>> BY <1>1 DEF User, Press, Release, KeyDown
  <2> QED BY <2>1, TextsLeft
<1>2. ASSUME UNCHANGED <<pasting, sends, commands>> PROVE TextMoves BY <1>2, TextsLeft
<1>3. CASE Helper
  <2>1. CASE FirstSample BY <1>2, <2>1 DEF FirstSample
  <2>2. CASE Sample BY <1>2, <2>2 DEF Sample
  <2>3. CASE RollEnds BY <1>2, <2>3 DEF RollEnds
  <2>4. CASE KeysLapse BY <1>2, <2>4 DEF KeysLapse, pipes
  <2>5. CASE Dies
    <3>1. commands' = <<>> /\ pasting' = NoPaste /\ sends' = sends BY <2>5 DEF Dies
    <3> QED BY <3>1, TextsLeft
  <2>6. CASE TakeSettled
    <3>1. commands # <<>> /\ commands' = Tail(commands) /\ pasting' = pasting /\ sends' = sends
      BY <2>6 DEF TakeSettled, Take
    <3> QED BY <3>1, TextsLeft
  <2>7. CASE TakeStop
    <3>1. commands # <<>> /\ commands' = Tail(commands) /\ pasting' = pasting /\ sends' = sends
      BY <2>7 DEF TakeStop, Take
    <3> QED BY <3>1, TextsLeft
  <2>8. CASE TakeSend
    <3>1. PICK c : c = Head(commands) OBVIOUS
    <3>2. /\ commands # <<>> /\ commands' = Tail(commands) /\ sends' = sends /\ c.type = "send"
          /\ pasting' = IF pasting.id = c.id THEN [pasting EXCEPT !.send = TRUE] ELSE pasting
      BY <2>8, <3>1 DEF TakeSend, Take
    <3>3. commands \in Seq(Commands) /\ TextsMeant /\ (pasting = NoPaste <=> pasting.id = NoSession)
      BY WholeIs
    <3>4. c \in Range(commands) /\ c \in Commands BY <3>1, <3>2, <3>3, PipeRead
    <3>5. Meant(c.id) /\ c.id \in Sessions BY <3>2, <3>3, <3>4, CommandKinds DEF TextsMeant
    <3>6. CASE pasting.id = c.id
      <4>1. pasting # NoPaste /\ Meant(pasting.id) /\ pasting' = [pasting EXCEPT !.send = TRUE]
        BY <3>2, <3>3, <3>5, <3>6, Bounds
      <4> QED BY <3>2, <4>1, TextsLeft
    <3>7. CASE pasting.id # c.id BY <3>2, <3>7, TextsLeft
    <3> QED BY <3>6, <3>7
  <2>9. ASSUME NEW ok \in BOOLEAN, PasteEnds(ok) PROVE TextMoves
    BY <2>9, PasteMoves DEF PasteEnds, PasteSettles
  <2>10. ASSUME NEW ok \in BOOLEAN, TakeInsert(ok) PROVE TextMoves
    <3>1. CASE pasting # NoPaste BY <2>10, <3>1, PasteMoves DEF TakeInsert, PasteSettles
    <3>2. CASE pasting = NoPaste
      <4>1. PICK c : c = Head(commands) OBVIOUS
      <4>2. /\ commands # <<>> /\ commands' = Tail(commands) /\ c.type = "insert"
            /\ \/ pasting' = [id |-> c.id, send |-> c.send] /\ sends' = sends
               \/ /\ pasting' = NoPaste
                  /\ sends' = IF ok /\ c.send THEN [sends EXCEPT ![c.id] = @ + 1] ELSE sends
        BY <2>10, <3>2, <4>1 DEF TakeInsert, Take
      <4>3. CASE ok /\ c.send BY <3>2, <4>1, <4>2, <4>3, InsertMoves
      <4>4. CASE ~(ok /\ c.send) BY <3>2, <4>1, <4>2, <4>4, InsertMoves
      <4> QED BY <4>3, <4>4
    <3> QED BY <3>1, <3>2
  <2>11. ASSUME NEW ok \in BOOLEAN, Stopped(ok) PROVE TextMoves
    <3>1. /\ pasting' = NoPaste /\ commands' = commands
          /\ sends' = IF ok /\ pasting.send THEN [sends EXCEPT ![pasting.id] = @ + 1] ELSE sends
      BY <2>11 DEF Stopped
    <3>2. CASE pasting # NoPaste BY <3>1, <3>2, PasteMoves
    <3>3. CASE pasting = NoPaste
      <4>1. sends' = sends BY <3>1, <3>3 DEF NoPaste
      <4> QED BY <3>1, <4>1, TextsLeft
    <3> QED BY <3>2, <3>3
  <2> QED BY <1>3, <2>1, <2>2, <2>3, <2>4, <2>5, <2>6, <2>7, <2>8, <2>9, <2>10, <2>11 DEF Helper
<1> QED BY <1>1, <1>3

(* What the helper writes of keys, and which may still come.                 *)
LEMMA KeysMoved ==
  ASSUME DictationInv, Heeded', NEW N \in SUBSET Messages, HelperMoves(N)
  PROVE  KeysWait' /\ AsksMeant' /\ KeysFind'
<1>1. /\ Based /\ Told /\ Log /\ app \in Apps /\ KeysWait /\ AsksMeant /\ KeysFind
      /\ Based'
  BY WholeIs DEF Heeded, Told
<1>2. /\ app' = app /\ Range(lines') = Range(lines) \cup N /\ Range(pressed) \subseteq Range(pressed')
      /\ Hands(N) /\ \A n \in N : NewLine(n)
  BY DEF HelperMoves, Tells, Hands
<1>3. \A s : (Meant(s) => Meant(s)') /\ (Logged(s)' <=> Logged(s)) /\ (Finds(s) => Finds(s)')
  BY <1>2 DEF Meant, Logged, Finds
<1>4. AsksMeant' BY <1>1, <1>2, <1>3 DEF AsksMeant
<1>5. ASSUME NEW n \in N, n.type = "key"
      PROVE  KeyComes(n.id) /\ [id |-> n.id, ask |-> n.ask] \in Range(pressed')
  BY <1>2, <1>5 DEF NewLine, KeyComes
<1>6. KeysWait'
  <2> SUFFICES ASSUME NEW m \in Range(lines'), m.type = "key" PROVE KeyWaits(m)' BY DEF KeysWait
  <2>1. CASE m \in Range(lines)
    <3>1. KeyWaits(m) BY <1>1, <2>1 DEF KeysWait
    <3> QED BY <1>2, <1>3, <3>1 DEF KeyWaits
  <2>2. CASE m \in N
    <3>1. KeyComes(m.id) /\ [id |-> m.id, ask |-> m.ask] \in Range(pressed') BY <1>5, <2>2
    <3>2. app.cur.id <= m.id /\ \A t \in Sessions : Logged(t) => t <= m.id BY <3>1, KeyComesLate
    <3> QED BY <1>2, <1>3, <3>1, <3>2 DEF KeyWaits
  <2> QED BY <1>2, <2>1, <2>2
<1>7. ASSUME NEW s \in Sessions, KeyComes(s)' PROVE Finds(s)'
  <2>1. CASE KeyComes(s) BY <1>1, <1>3, <2>1 DEF KeysFind
  <2>2. ASSUME NEW m \in N, m.type = "key", m.id = s PROVE KeyComes(s) BY <1>5, <2>2
  <2>3. CASE activation' # "idle" /\ s = KeyFor'
    <3>1. CASE activation # "idle" /\ KeyFor' = KeyFor BY <2>1, <2>3, <3>1 DEF KeyComes
    <3>2. CASE live'.id = ids + 1
      <4>1. ids \in Nat /\ \A t \in Sessions : wrote[t] > 0 => t <= ids BY <1>1, BasedFields
      <4>2. s = ids + 1
        <5>1. live'.id # NoSession BY <3>2, <4>1 DEF NoSession
        <5>2. live' # NoLive BY <5>1 DEF NoLive
        <5> QED BY <2>3, <3>2, <5>2 DEF KeyFor
      <4>3. ~(wrote[s] > 0) BY <4>1, <4>2
      <4>4. ~Logged(s) BY <1>1, <4>3 DEF Log, LoggedIsOver
      <4>5. app.cur.id # s
        <5> SUFFICES ASSUME app.cur.id = s PROVE FALSE OBVIOUS
        <5>1. app.cur # NoCur BY <1>1, AppFields, Bounds
        <5> QED BY <1>1, <4>3, <5>1 DEF Log, Listens
      <4>6. Finds(s) BY <4>4, <4>5 DEF Finds
      <4> QED BY <1>3, <4>6
    <3> QED BY <1>2, <2>3, <3>1, <3>2 DEF Hands
  <2> QED BY <1>2, <1>7, <2>1, <2>2, <2>3 DEF KeyComes
<1>8. LatestIsLast'
  <2>1. helper = "up" BY DEF HelperMoves
  <2> QED BY <1>1, <1>2, <2>1 DEF LatestIsLast, KeysFind
<1> QED BY <1>4, <1>6, <1>7, <1>8 DEF KeysFind

LEMMA SendsMoved ==
  ASSUME DictationInv, Heeded', ~PressInRoll, User \/ Helper
  PROVE  DictationInv'
<1>1. Based /\ Based' BY WholeIs DEF Heeded, Told
<1>2. PICK N \in SUBSET Messages : HelperMoves(N) BY <1>1, EveryMove
<1>3. app' = app /\ Range(pressed) \subseteq Range(pressed') BY <1>2 DEF HelperMoves, Hands
<1>4. TextMoves BY EveryText
<1>5. Texts' /\ TextsMeant' BY <1>1, <1>3, <1>4, TextsMoved
<1>6. KeysWait' /\ AsksMeant' /\ KeysFind' BY <1>2, KeysMoved
<1>7. SendsMeant' BY <1>5, <1>6 DEF SendsMeant
<1>8. (DictationInv <=> Heeded /\ Texts /\ SendsMeant /\ KeysFind)'
  BY DEF DictationInv, Heeded, Told, Based, Typed
<1> QED BY <1>5, <1>6, <1>7, <1>8

(* What a turn of the app makes of the sessions: which are logged and wait   *)
(* for their decodes,                                                        *)
NewLog(S) == \A s \in Sessions : Logged(s)' <=> Logged(s) \/ s \in S

Decodes ==
  \/ NewLog({}) /\ app'.work = app.work /\ app'.latest = app.latest
  \/ /\ app.cur.end = "cancel" /\ NewLog({app.cur.id})
     /\ app'.work = app.work /\ app'.latest = app.latest
  \/ /\ app.cur.end = "release" /\ NewLog({app.cur.id})
     /\ app'.work = Append(app.work, app.cur.id) /\ app'.latest = app.cur.id
  \/ /\ app.work # <<>> /\ NewLog({})
     /\ app'.work = Tail(app.work)
     /\ app'.latest = IF app.latest = Head(app.work) THEN NoSession ELSE app.latest

(* which listens, after the line h,                                          *)
ListensAfter(h) ==
  \/ lines' \in {lines, Tail(lines)} /\ app'.cur = NoCur
  \/ /\ lines' = lines \/ (lines # <<>> /\ lines' = Tail(lines))
     /\ app'.cur.id = app.cur.id /\ app'.cur.end = app.cur.end
  \/ /\ lines # <<>> /\ lines' = Tail(lines) /\ h.type = "ended"
     /\ app.cur.id = h.id /\ app'.cur.id = h.id /\ app'.cur.end = h.reason
  \/ /\ lines # <<>> /\ lines' = Tail(lines) /\ h.type = "started"
     /\ app'.cur.id = h.id /\ app'.cur.end = "no"

(* what was asked of a session,                                              *)
AsksAfter(h) == ReadKey \/ (app'.asked = app.asked /\ (lines' = lines \/ h.type # "key"))

(* and what goes to the helper.                                              *)
Commanded(c) ==
  /\ c.type = "insert" => c.id \in Decoding \ Decoding' /\ (c.send => Meant(c.id))
  /\ c.type = "send" => Meant(c.id)

Turns(h) ==
  /\ UNCHANGED <<helper, activation, live, last, pasting, wrote, pressed, sends>>
  /\ Decodes /\ ListensAfter(h) /\ AsksAfter(h)
  /\ \A s \in Sessions : app'.asked[s] = "send" => app.asked[s] = "send" \/ Meant(s)
  /\ \A s \in Range(app'.late) : s \in Range(app.late) \/ Logged(s)
  /\ commands' = commands \/ \E c \in Commands : commands' = Append(commands, c) /\ Commanded(c)

LEMMA LogGrows ==
  ASSUME Told, Told', Decodes
  PROVE  /\ \A s \in Sessions : Logged(s) => Logged(s)'
         /\ \A s \in Sessions : Logged(s)' => Logged(s) \/ (s = app.cur.id /\ app.cur # NoCur)
         /\ \A s \in Sessions : Logged(s) /\ s \notin Decoding => s \notin Decoding'
         /\ app.cur.id \in Sessions => ~Logged(app.cur.id)
<1>1. Based /\ Log /\ app \in Apps BY BasedFields DEF Told
<1>2. app.cur # NoCur <=> app.cur.id \in Sessions BY <1>1, AppFields, Bounds
<1>3. app.cur.id \in Sessions => ~Logged(app.cur.id) BY <1>1, <1>2 DEF Log, Listens
<1>4. /\ \A s \in Sessions : Logged(s) => Logged(s)'
      /\ \A s \in Sessions : Logged(s)' => Logged(s) \/ s = app.cur.id
  BY DEF Decodes, NewLog
<1>5. ASSUME NEW s \in Sessions, Logged(s), s \notin Decoding PROVE s \notin Decoding'
  <2>1. app.work \in Seq(Sessions) BY <1>1, AppFields
  <2>2. CASE app'.work = app.work BY <1>5, <2>2 DEF Decoding
  <2>3. CASE app.cur.end = "release" /\ app'.work = Append(app.work, app.cur.id)
    <3>1. app.cur.id \in Sessions BY <1>1, <2>3, AppFields
    <3>2. Range(Append(app.work, app.cur.id)) = Range(app.work) \cup {app.cur.id}
      BY <2>1, <3>1, PipeWritten
    <3> QED BY <1>3, <1>5, <2>3, <3>1, <3>2 DEF Decoding
  <2>4. CASE app.work # <<>> /\ app'.work = Tail(app.work)
    <3>1. Range(app.work) = Range(Tail(app.work)) \cup {Head(app.work)} BY <2>1, <2>4, PipeRead
    <3> QED BY <1>5, <2>4, <3>1 DEF Decoding
  <2> QED BY <2>2, <2>3, <2>4 DEF Decodes
<1> QED BY <1>2, <1>3, <1>4, <1>5

(* The texts that are out stay so, and one more may go out.                  *)
LEMMA TextsTurned ==
  ASSUME DictationInv, Told', NEW h, Turns(h)
  PROVE  Texts' /\ TextsMeant'
<1>1. /\ Based /\ Told /\ Log /\ OneText(commands) /\ Texts /\ TextsMeant /\ commands \in Seq(Commands)
      /\ sends \in [Sessions -> Nat] /\ pasting.id \in Sessions \cup {NoSession}
      /\ pasting = NoPaste <=> pasting.id = NoSession
      /\ OnceEach(app) /\ app \in Apps
  BY WholeIs
<1>2. /\ UNCHANGED <<pasting, pressed, sends>> /\ Decodes
      /\ commands' = commands \/ \E c \in Commands : commands' = Append(commands, c) /\ Commanded(c)
  BY DEF Turns
<1>3. /\ \A s \in Sessions : Logged(s) => Logged(s)'
      /\ \A s \in Sessions : Logged(s) /\ s \notin Decoding => s \notin Decoding'
  BY <1>1, <1>2, LogGrows
<1>4. \A s \in Sessions : Out(s) => Out(s)' BY <1>2, <1>3 DEF Out
<1>5. \A s : Meant(s)' <=> Meant(s) BY <1>2 DEF Meant
<1>6. PICK p : p = pasting OBVIOUS
<1>7. p # NoPaste => Out(p.id)' BY <1>1, <1>4, <1>6 DEF Texts
<1>8. p.send => Meant(p.id)' BY <1>1, <1>5, <1>6 DEF TextsMeant
<1>9. \A s \in Sessions : sends[s] > 0 =>
        sends[s] = 1 /\ Logged(s)' /\ s \notin Decoding' /\ Meant(s)'
  BY <1>1, <1>3, <1>5 DEF Texts, TextsMeant
<1>10. ASSUME NEW x \in Range(commands)
       PROVE  /\ x.type = "insert" => Out(x.id)' /\ Out(x.id) /\ x.id # pasting.id
              /\ x.type = "send" \/ (x.type = "insert" /\ x.send) => Meant(x.id)'
  <2>1. x \in Commands BY <1>1, <1>10, PipeTyped
  <2>2. x.type = "insert" => Out(x.id) /\ x.id # pasting.id BY <1>1, <1>10 DEF Texts
  <2>3. x.type = "send" \/ (x.type = "insert" /\ x.send) => Meant(x.id) BY <1>1, <1>10 DEF TextsMeant
  <2>4. x.type = "insert" => Out(x.id)' BY <1>4, <2>1, <2>2, CommandKinds
  <2> QED BY <1>5, <2>2, <2>3, <2>4
<1>11. CASE commands' = commands
  <2>1. Texts' BY <1>1, <1>2, <1>6, <1>7, <1>9, <1>10, <1>11 DEF Texts
  <2>2. TextsMeant' BY <1>2, <1>6, <1>8, <1>9, <1>10, <1>11 DEF TextsMeant
  <2> QED BY <2>1, <2>2
<1>12. ASSUME NEW c \in Commands, commands' = Append(commands, c), Commanded(c)
       PROVE  Texts' /\ TextsMeant'
  <2>1. ASSUME c.type = "insert"
        PROVE  /\ ~Out(c.id) /\ c.id \in Sessions /\ Out(c.id)' /\ c.id # pasting.id
    <3>1. c.id \in Decoding \ Decoding' /\ c.id \in Sessions BY <1>12, <2>1, CommandKinds DEF Commanded
    <3>2. ~Out(c.id) BY <3>1 DEF Out
    <3>3. sends[c.id] = 0
      <4>1. ~(sends[c.id] > 0) BY <1>1, <3>1 DEF Texts
      <4> QED BY <1>1, <3>1, <4>1
    <3>4. Logged(c.id) BY <1>1, <3>1, DecodingLogged
    <3>5. Out(c.id)' BY <1>2, <1>3, <3>1, <3>3, <3>4 DEF Out
    <3>6. c.id # pasting.id
      <4>1. pasting # NoPaste => Out(pasting.id) BY <1>1 DEF Texts
      <4> QED BY <1>1, <3>1, <3>2, <4>1, Bounds
    <3> QED BY <3>1, <3>2, <3>5, <3>6
  <2>2. c.type = "insert" => \A x \in Range(commands) : x.type = "insert" => x.id # c.id
    BY <1>10, <2>1
  <2>3. OneText(commands') /\ Range(commands') = Range(commands) \cup {c}
    BY <1>1, <1>12, <2>2, OneTextMore
  <2>4. c.type = "send" \/ (c.type = "insert" /\ c.send) => Meant(c.id)'
    BY <1>5, <1>12 DEF Commanded
  <2>5. Texts' BY <1>1, <1>2, <1>6, <1>7, <1>9, <1>10, <2>1, <2>3 DEF Texts
  <2>6. TextsMeant' BY <1>2, <1>6, <1>8, <1>9, <1>10, <2>3, <2>4 DEF TextsMeant
  <2> QED BY <2>5, <2>6
<1> QED BY <1>2, <1>11, <1>12

(* A key that comes after a turn came before it too, and is for the session  *)
(* whose line is read or for a newer one.                                    *)
LEMMA KeyComesStill ==
  ASSUME Told, Told', NEW h, h = Head(lines), Turns(h), NEW s \in Sessions, KeyComes(s)'
  PROVE  /\ KeyComes(s)
         /\ h.type = "started" /\ lines # <<>> /\ lines' = Tail(lines) => h.id <= s
         /\ h.type = "ended" /\ lines # <<>> /\ lines' = Tail(lines) => h.id # s \/ h.reason # "cancel"
         /\ Range(lines') \subseteq Range(lines)
<1>1. /\ Based /\ LinesWait /\ lines \in Seq(Messages) BY BasedFields DEF Told
<1>2. UNCHANGED <<activation, live, last>> /\ ListensAfter(h) BY DEF Turns
<1>3. lines' # lines => lines # <<>> /\ lines' = Tail(lines)
  <2>1. lines' \in {lines, Tail(lines)} BY <1>2 DEF ListensAfter
  <2>2. ASSUME lines = <<>>, lines' = Tail(lines) PROVE lines' = lines
    BY <2>2
  <2> QED BY <2>1, <2>2
<1>4. lines' # lines => /\ h \in Range(lines) /\ h.id \in Sessions
                        /\ Range(lines') \subseteq Range(lines)
                        /\ \A n \in Range(lines') : InOrder(h, n)
  BY <1>1, <1>3, ReadIs, OrderedTail DEF LinesWait
<1>5. CASE activation' # "idle" /\ s = KeyFor'
  <2>1. activation # "idle" /\ s = KeyFor BY <1>2, <1>5 DEF KeyFor
  <2>2. \A t \in Sessions : wrote[t] > 0 => t <= s BY <2>1, KeyForNewest
  <2>3. ASSUME h.type = "started", lines # <<>>, lines' = Tail(lines) PROVE h.id <= s
    <3>1. h \in Range(lines) /\ h.id \in Sessions BY <1>1, <2>3, ReadIs
    <3>2. StartWaits(h) BY <1>1, <2>3, <3>1 DEF LinesWait
    <3> QED BY <2>2, <3>1, <3>2 DEF StartWaits
  <2>4. ASSUME h.type = "ended", lines # <<>>, lines' = Tail(lines) PROVE h.id # s \/ h.reason # "cancel"
    <3>1. h \in Range(lines) BY <1>1, <2>4, ReadIs
    <3> QED BY <1>1, <2>1, <2>4, <3>1 DEF LinesWait, KeysOpen
  <2> QED BY <1>4, <2>1, <2>3, <2>4 DEF KeyComes
<1>6. ASSUME NEW m \in Range(lines'), m.type = "key", m.id = s
      PROVE  /\ KeyComes(s)
             /\ h.type = "started" /\ lines # <<>> /\ lines' = Tail(lines) => h.id <= s
             /\ h.type = "ended" /\ lines # <<>> /\ lines' = Tail(lines) => h.id # s \/ h.reason # "cancel"
  <2>1. m \in Range(lines) BY <1>4, <1>6
  <2>2. lines # <<>> /\ lines' = Tail(lines) => InOrder(h, m)
    BY <1>1, <1>6, OrderedTail DEF LinesWait
  <2> QED BY <1>6, <2>1, <2>2 DEF InOrder, KeyComes
<1> QED BY <1>4, <1>5, <1>6 DEF KeyComes

(* The latest is the last of those that wait for their decodes.              *)
LEMMA LastOfTail ==
  ASSUME NEW q \in Seq(Sessions), q # <<>>, NEW latest, latest = Last(q),
         \A i, j \in 1..Len(q) : i < j => q[i] # q[j],
         NEW next, next = IF latest = Head(q) THEN NoSession ELSE latest
  PROVE  next = IF Tail(q) = <<>> THEN NoSession ELSE Last(Tail(q))
<1> DEFINE r == Tail(q)
<1>1. /\ r \in Seq(Sessions) /\ Len(q) \in Nat \ {0} /\ Len(r) = Len(q) - 1 /\ Head(q) = q[1]
      /\ \A i \in 1..Len(r) : r[i] = q[i + 1]
  BY PipeRead
<1>2. r = <<>> <=> Len(r) = 0 BY <1>1, EmptySeq
<1> HIDE DEF r
<1>3. Last(q) = q[Len(q)] /\ Last(r) = r[Len(r)] BY DEF Last
<1>4. CASE Len(q) = 1
  <2>1. r = <<>> BY <1>1, <1>2, <1>4
  <2>2. latest = Head(q) BY <1>1, <1>3, <1>4
  <2> QED BY <2>1, <2>2 DEF r
<1>5. CASE Len(q) # 1
  <2>1. Len(r) \in 1..Len(r) /\ Len(r) + 1 = Len(q) /\ 1 \in 1..Len(q) /\ Len(q) \in 1..Len(q) /\ 1 < Len(q)
    BY <1>1, <1>5
  <2>2. Last(r) = q[Len(q)] BY <1>1, <1>3, <2>1
  <2>3. q[1] # q[Len(q)] BY <2>1
  <2>4. r # <<>> BY <1>2, <2>1
  <2> QED BY <1>1, <1>3, <2>2, <2>3, <2>4 DEF r
<1> QED BY <1>4, <1>5

LEMMA LatestTurned ==
  ASSUME DictationInv, helper' = helper, Decodes
  PROVE  LatestIsLast'
<1> SUFFICES ASSUME helper # "gone"
             PROVE  app'.latest = IF app'.work = <<>> THEN NoSession ELSE Last(app'.work)
  BY DEF LatestIsLast
<1>1. /\ app \in Apps /\ OnceEach(app)
      /\ app.latest = IF app.work = <<>> THEN NoSession ELSE Last(app.work)
  BY WholeIs DEF LatestIsLast
<1>2. app.work \in Seq(Sessions) BY <1>1, AppFields
<1>3. CASE app'.work = app.work /\ app'.latest = app.latest BY <1>1, <1>3
<1>4. CASE app.cur.end = "release" /\ app'.work = Append(app.work, app.cur.id) /\ app'.latest = app.cur.id
  <2>1. app.cur.id \in Sessions BY <1>1, <1>4, AppFields
  <2> DEFINE q == Append(app.work, app.cur.id)
  <2>2. q # <<>> /\ Len(q) = Len(app.work) + 1 /\ q[Len(app.work) + 1] = app.cur.id
    BY <1>2, <2>1, PipeWritten
  <2> HIDE DEF q
  <2>3. Last(q) = app.cur.id BY <2>2 DEF Last
  <2> QED BY <1>4, <2>2, <2>3 DEF q
<1>5. CASE /\ app.work # <<>> /\ app'.work = Tail(app.work)
           /\ app'.latest = IF app.latest = Head(app.work) THEN NoSession ELSE app.latest
  <2>1. app.latest = Last(app.work) BY <1>1, <1>5
  <2>2. \A i, j \in 1..Len(app.work) : i < j => app.work[i] # app.work[j] BY <1>1 DEF OnceEach
  <2> QED BY <1>2, <1>5, <2>1, <2>2, LastOfTail
<1> QED BY <1>3, <1>4, <1>5 DEF Decodes

LEMMA KeysTurned ==
  ASSUME DictationInv, Heeded', NEW h, h = Head(lines), Turns(h)
  PROVE  KeysWait' /\ AsksMeant' /\ KeysFind'
<1>1. /\ Based /\ Told /\ Told' /\ Log /\ app \in Apps /\ lines \in Seq(Messages)
      /\ KeysWait /\ AsksMeant /\ KeysFind
  BY WholeIs DEF Heeded
<1>2. /\ UNCHANGED <<helper, activation, live, last, pressed>> /\ Decodes /\ ListensAfter(h)
      /\ \A s \in Sessions : app'.asked[s] = "send" => app.asked[s] = "send" \/ Meant(s)
      /\ \A s \in Range(app'.late) : s \in Range(app.late) \/ Logged(s)
  BY DEF Turns
<1>3. \A s : Meant(s)' <=> Meant(s) BY <1>2 DEF Meant
<1>4. /\ \A s \in Sessions : Logged(s) => Logged(s)'
      /\ \A s \in Sessions : Logged(s)' => Logged(s) \/ (s = app.cur.id /\ app.cur # NoCur)
      /\ app.cur.id \in Sessions => ~Logged(app.cur.id)
  BY <1>1, <1>2, LogGrows
<1>5. Range(app'.late) \subseteq Sessions
  <2>1. app' \in Apps BY <1>1, BasedFields DEF Told, Based, Typed, TypeOK
  <2>2. app'.late \in Seq(Sessions) BY <2>1, AppFields
  <2> QED BY <2>2, PipeTyped
<1>6. AsksMeant' BY <1>1, <1>2, <1>3, <1>4, <1>5 DEF AsksMeant
<1>7. ASSUME NEW s \in Sessions, KeyComes(s)'
      PROVE  /\ KeyComes(s) /\ Finds(s) /\ app.cur.id <= s
             /\ \A t \in Sessions : Logged(t) => t <= s
             /\ h.type = "started" /\ lines # <<>> /\ lines' = Tail(lines) => h.id <= s
             /\ h.type = "ended" /\ lines # <<>> /\ lines' = Tail(lines) => h.id # s \/ h.reason # "cancel"
             /\ Range(lines') \subseteq Range(lines)
  <2>1. /\ KeyComes(s)
        /\ h.type = "started" /\ lines # <<>> /\ lines' = Tail(lines) => h.id <= s
        /\ h.type = "ended" /\ lines # <<>> /\ lines' = Tail(lines) => h.id # s \/ h.reason # "cancel"
        /\ Range(lines') \subseteq Range(lines)
    BY <1>1, <1>7, KeyComesStill
  <2>2. app.cur.id <= s /\ \A t \in Sessions : Logged(t) => t <= s BY <2>1, KeyComesLate
  <2>3. Finds(s) BY <1>1, <2>1 DEF KeysFind
  <2> QED BY <2>1, <2>2, <2>3
<1>8. KeysWait'
  <2> SUFFICES ASSUME NEW m \in Range(lines'), m.type = "key" PROVE KeyWaits(m)' BY DEF KeysWait
  <2>1. m.id \in Sessions
    <3>1. lines' \in Seq(Messages) BY <1>1 DEF Told, Based, Typed, TypeOK
    <3>2. m \in Messages BY <3>1, PipeTyped
    <3> QED BY <3>2, MessageKinds
  <2>2. KeyComes(m.id)' BY DEF KeyComes
  <2>3. /\ m \in Range(lines) /\ app.cur.id <= m.id /\ \A t \in Sessions : Logged(t) => t <= m.id
        /\ h.type = "started" /\ lines # <<>> /\ lines' = Tail(lines) => h.id <= m.id
    BY <1>7, <2>1, <2>2
  <2>4. [id |-> m.id, ask |-> m.ask] \in Range(pressed) BY <1>1, <2>3 DEF KeysWait, KeyWaits
  <2>5. app'.cur.id <= m.id
    <3>1. NoCur.id = 0 /\ m.id \in Nat BY <2>1, Bounds DEF NoCur, NoSession
    <3>2. 0 <= m.id BY <3>1
    <3> QED BY <1>2, <2>3, <3>1, <3>2 DEF ListensAfter
  <2>6. \A t \in Sessions : Logged(t)' => t <= m.id BY <1>4, <2>3
  <2> QED BY <1>2, <2>4, <2>5, <2>6 DEF KeyWaits
<1>9. ASSUME NEW s \in Sessions, KeyComes(s)' PROVE Finds(s)'
  <2>1. app'.cur.id = s => app'.cur.end # "cancel"
    <3>1. NoCur.id # s BY Bounds DEF NoCur
    <3> QED BY <1>2, <1>7, <1>9, <3>1 DEF ListensAfter, Finds
  <2>2. Logged(s)' => app'.latest \in {s, NoSession}
    <3> SUFFICES ASSUME Logged(s)' PROVE app'.latest \in {s, NoSession} OBVIOUS
    <3>1. CASE Logged(s)
      <4>1. app.latest \in {s, NoSession} BY <1>7, <1>9, <3>1 DEF Finds
      <4>2. ASSUME app.cur.end = "release" PROVE FALSE
        <5>1. app.cur # NoCur BY <4>2 DEF NoCur
        <5>2. s < app.cur.id /\ app.cur.id \in Sessions
          BY <1>1, <3>1, <5>1, AppFields DEF Log, LoggedIsOver
        <5>3. app.cur.id <= s BY <1>7, <1>9
        <5> QED BY <5>2, <5>3, Bounds
      <4> QED BY <1>2, <4>1, <4>2 DEF Decodes
    <3>2. CASE ~Logged(s)
      <4>1. s = app.cur.id /\ app.cur.end # "cancel" BY <1>4, <1>7, <1>9, <3>2 DEF Finds
      <4> QED BY <1>2, <3>2, <4>1 DEF Decodes, NewLog
    <3> QED BY <3>1, <3>2
  <2> QED BY <2>1, <2>2 DEF Finds
<1>10. LatestIsLast' BY <1>2, LatestTurned
<1> QED BY <1>6, <1>8, <1>9, <1>10 DEF KeysFind

LEMMA SendsTurned ==
  ASSUME DictationInv, Heeded', NEW h, h = Head(lines), Turns(h)
  PROVE  DictationInv'
<1>1. Texts' /\ TextsMeant' BY TextsTurned DEF Heeded
<1>2. KeysWait' /\ AsksMeant' /\ KeysFind' BY KeysTurned
<1>3. SendsMeant' BY <1>1, <1>2 DEF SendsMeant
<1>4. (DictationInv <=> Heeded /\ Texts /\ SendsMeant /\ KeysFind)'
  BY DEF DictationInv, Heeded, Told, Based, Typed
<1> QED BY <1>1, <1>2, <1>3, <1>4

(* The turns, one by one.                                                    *)
LEMMA SameDecodes ==
  ASSUME app'.work = app.work, app'.latest = app.latest, \A t \in Sessions : Logged(t)' <=> Logged(t)
  PROVE  Decodes
<1>1. NewLog({}) BY DEF NewLog
<1> QED BY <1>1 DEF Decodes

LEMMA EndedDecodes ==
  ASSUME Told, app.cur.end # "no", NEW b, b = EndedCur(app),
         app'.work = b.work, app'.latest = b.latest, app'.said = b.said
  PROVE  Decodes /\ b.late = app.late /\ b.asked = app.asked /\ b.cur = NoCur
<1>1. app \in Apps BY BasedFields DEF Told
<1>2. /\ b.late = app.late /\ b.asked = app.asked /\ b.cur = NoCur
      /\ \A s \in Sessions : b.said[s] # <<>> <=> Logged(s) \/ s = app.cur.id
  BY EndedTold
<1>3. IF app.cur.end = "cancel" THEN b.work = app.work /\ b.latest = app.latest
      ELSE b.work = Append(app.work, app.cur.id) /\ b.latest = app.cur.id
  BY <1>1, EndedIs
<1>4. NewLog({app.cur.id}) BY <1>2 DEF NewLog, Logged
<1>5. app.cur.end \in {"cancel", "release"} BY <1>1, AppFields
<1> QED BY <1>2, <1>3, <1>4, <1>5 DEF Decodes

LEMMA StartedTurns ==
  ASSUME DictationInv, ReadStarted, NEW h, h = Head(lines)
  PROVE  Turns(h)
<1> DEFINE b == IF app.cur.end # "no" THEN EndedCur(app) ELSE app
<1>1. /\ lines # <<>> /\ lines' = Tail(lines) /\ h.type = "started" /\ app' = StartedNow(app, h.id)
      /\ UNCHANGED <<helperVars, packets, commands>>
  BY DEF ReadStarted, Read
<1>2. Told /\ Based /\ app \in Apps BY WholeIs
<1>3. h.id \in Sessions BY <1>1, <1>2, ReadIs
<1>4. /\ app'.cur.id = h.id /\ app'.cur.end = "no"
      /\ \A f \in Fields \ {"cur", "early", "state"} : app'[f] = b[f]
  <2> DEFINE t == h.id
  <2>1. t \in Sessions /\ app' = StartedNow(app, t) BY <1>1, <1>3
  <2> HIDE DEF t
  <2>2. app'.cur.id = t /\ app'.cur.end = "no" BY <1>2, <2>1, StartedIs
  <2>3. \A f \in Fields \ {"cur", "early", "state"} : app'[f] = b[f] BY <1>2, <2>1, StartedIs
  <2> QED BY <2>2, <2>3 DEF t
<1>5. b = IF app.cur.end # "no" THEN EndedCur(app) ELSE app OBVIOUS
<1> HIDE DEF b
<1>6. /\ app'.work = b.work /\ app'.latest = b.latest /\ app'.said = b.said /\ app'.late = b.late
      /\ app'.asked = b.asked
  BY <1>4 DEF Fields
<1>7. Decodes /\ b.late = app.late /\ b.asked = app.asked
  <2>1. CASE app.cur.end # "no" BY <1>2, <1>5, <1>6, <2>1, EndedDecodes
  <2>2. CASE app.cur.end = "no"
    <3>1. b = app BY <1>5, <2>2
    <3>2. \A t \in Sessions : Logged(t)' <=> Logged(t) BY <1>6, <3>1 DEF Logged
    <3> QED BY <1>6, <3>1, <3>2, SameDecodes
  <2> QED BY <2>1, <2>2
<1>8. ListensAfter(h) BY <1>1, <1>4 DEF ListensAfter
<1>9. AsksAfter(h) BY <1>1, <1>6, <1>7 DEF AsksAfter
<1> QED BY <1>1, <1>6, <1>7, <1>8, <1>9 DEF Turns, helperVars

LEMMA EndReadTurns ==
  ASSUME DictationInv, ReadEnded, NEW h, h = Head(lines)
  PROVE  Turns(h)
<1>0. Based BY WholeIs
<1>1. /\ lines # <<>> /\ lines' = Tail(lines) /\ h.type = "ended"
      /\ UNCHANGED <<helperVars, packets, commands>>
      /\ app.cur.id = app'.cur.id
      /\ app'.cur.end = IF app.cur.id = h.id /\ app.cur.end = "no" THEN h.reason ELSE app.cur.end
      /\ \A f \in Fields \ {"cur"} : app'[f] = app[f]
  BY <1>0, EndReadIs
<1>2. /\ app'.work = app.work /\ app'.latest = app.latest /\ app'.said = app.said /\ app'.late = app.late
      /\ app'.asked = app.asked
  BY <1>1 DEF Fields
<1>3. Decodes
  <2>1. \A t \in Sessions : Logged(t)' <=> Logged(t) BY <1>2 DEF Logged
  <2> QED BY <1>2, <2>1, SameDecodes
<1>4. ListensAfter(h) BY <1>1 DEF ListensAfter
<1>5. AsksAfter(h) BY <1>1, <1>2 DEF AsksAfter
<1> QED BY <1>1, <1>2, <1>3, <1>4, <1>5 DEF Turns, helperVars

LEMMA AnswerTurns ==
  ASSUME DictationInv, ReadAnswer, NEW h, h = Head(lines)
  PROVE  Turns(h)
<1>0. Based /\ Log /\ app \in Apps /\ OnceEach(app) BY WholeIs
<1>1. /\ lines # <<>> /\ lines' = Tail(lines) /\ UNCHANGED <<helperVars, packets, commands>>
      /\ h.type # "key"
      /\ \E what \in Ends : app' = Answered(app, h.id, what)
  BY DEF ReadAnswer, Read, Ends
<1>2. PICK s \in Sessions : s = h.id BY <1>0, <1>1, ReadIs
<1>3. PICK what \in Ends : app' = Answered(app, s, what) BY <1>1, <1>2
<1>4. CASE s \notin app.inserts
  <2>1. app' = app BY <1>3, <1>4 DEF Answered
  <2>2. \A t \in Sessions : Logged(t)' <=> Logged(t) BY <2>1 DEF Logged
  <2>3. Decodes BY <2>1, <2>2, SameDecodes
  <2>4. ListensAfter(h) BY <1>1, <2>1 DEF ListensAfter
  <2>5. AsksAfter(h) BY <1>1, <2>1 DEF AsksAfter
  <2> QED BY <1>1, <2>1, <2>3, <2>4, <2>5 DEF Turns, helperVars
<1>5. CASE s \in app.inserts
  <2>0. ASSUME NEW b, b = app'
        PROVE  /\ b \in Apps /\ b.inserts = app.inserts \ {s} /\ b.late = RemoveFirst(app.late, s)
               /\ b.said = [app.said EXCEPT ![s] = Append(app.said[s], what)]
               /\ b.state = IF app.cur # NoCur \/ app.state = "starting" THEN app.state
                            ELSE IF app.work # <<>> THEN "transcribing"
                            ELSE IF app.inserts \ {s} # {} THEN "inserting" ELSE "idle"
               /\ \A f \in Fields \ {"inserts", "late", "said", "state"} : b[f] = app[f]
    <3>1. b = Answered(app, s, what) BY <1>3, <2>0
    <3> QED BY ONLY <1>0, <1>2, <1>5, <3>1, AnsweredIs
  <2>1. /\ app'.said = [app.said EXCEPT ![s] = Append(app.said[s], what)]
        /\ app'.late = RemoveFirst(app.late, s)
    BY <2>0
  <2>2. \A f \in Fields \ {"inserts", "late", "said", "state"} : app'[f] = app[f] BY <2>0
  <2>3. app'.cur = app.cur /\ app'.work = app.work /\ app'.latest = app.latest /\ app'.asked = app.asked
    BY <2>2 DEF Fields
  <2>4. \A t \in Sessions : Logged(t)' <=> Logged(t)
    <3>1. Len(app.said[s]) = 1 BY <1>0, <1>5 DEF OnceEach
    <3> QED BY <1>0, <2>1, <3>1, LoggedStays
  <2>5. Range(app'.late) \subseteq Range(app.late)
    <3>1. app.late \in Seq(Sessions) BY <1>0, AppFields
    <3> QED BY <2>1, <3>1, FirstRemoved
  <2>6. Decodes BY <2>3, <2>4, SameDecodes
  <2>7. ListensAfter(h) BY <1>1, <2>3 DEF ListensAfter
  <2>8. AsksAfter(h) BY <1>1, <2>3 DEF AsksAfter
  <2> QED BY <1>1, <2>3, <2>5, <2>6, <2>7, <2>8 DEF Turns, helperVars
<1> QED BY <1>4, <1>5

LEMMA KeyReadTurns ==
  ASSUME DictationInv, ReadKey, NEW h, h = Head(lines)
  PROVE  Turns(h)
<1>0. /\ Based /\ Log /\ app \in Apps /\ KeysWait /\ AsksMeant /\ LatestIsLast /\ OnceEach(app)
      /\ lines \in Seq(Messages)
  BY WholeIs
<1>1. PICK owner : owner = KeyOwner(app) OBVIOUS
<1>2. /\ lines # <<>> /\ lines' = Tail(lines) /\ h.type = "key" /\ owner \in Sessions \cup {NoSession}
      /\ UNCHANGED <<helperVars, packets>>
      /\ app'.asked = IF owner # NoSession THEN [app.asked EXCEPT ![owner] = h.ask] ELSE app.asked
      /\ \/ commands' = commands /\ app'.late = app.late
         \/ /\ owner = NoSession /\ h.ask = "send" /\ app.late # <<>>
            /\ Send([type |-> "send", id |-> Last(app.late)])
            /\ Last(app.late) \in Range(app.late) /\ Range(app.late) \subseteq Sessions
            /\ Range(app'.late) \subseteq Range(app.late)
      /\ \A f \in Fields \ {"asked", "late"} : app'[f] = app[f]
  BY <1>0, <1>1, KeyReadIs
<1>3. /\ app'.cur = app.cur /\ app'.work = app.work /\ app'.latest = app.latest /\ app'.said = app.said
  BY <1>2 DEF Fields
<1>4. Decodes
  <2>1. \A t \in Sessions : Logged(t)' <=> Logged(t) BY <1>3 DEF Logged
  <2> QED BY <1>3, <2>1, SameDecodes
<1>5. ListensAfter(h) BY <1>2, <1>3 DEF ListensAfter
<1>6. /\ [id |-> h.id, ask |-> h.ask] \in Range(pressed) /\ app.cur.id <= h.id
      /\ \A t \in Sessions : Logged(t) => t <= h.id
      /\ h.id \in Sessions /\ helper # "gone"
  <2>1. h \in Range(lines) /\ h.id \in Sessions /\ helper # "gone" BY <1>0, <1>2, ReadIs
  <2> QED BY <1>0, <1>2, <2>1 DEF KeysWait, KeyWaits
<1>7. ASSUME h.ask = "send", NEW t \in Sessions, t <= h.id PROVE Meant(t)
  <2> DEFINE k == [id |-> h.id, ask |-> h.ask]
  <2>1. k \in Range(pressed) /\ k.ask = "send" /\ k.id >= t BY <1>6, <1>7, Bounds
  <2> QED BY <2>1 DEF Meant
<1>8. owner # NoSession => owner \in Sessions /\ owner <= h.id
  <2> SUFFICES ASSUME owner # NoSession PROVE owner \in Sessions /\ owner <= h.id OBVIOUS
  <2>1. owner \in Sessions BY <1>2
  <2>2. CASE app.cur # NoCur BY <1>1, <1>6, <2>1, <2>2 DEF KeyOwner
  <2>3. CASE app.cur = NoCur
    <3>1. owner = app.latest BY <1>1, <2>3 DEF KeyOwner
    <3>2. app.work # <<>> /\ owner = Last(app.work)
      BY <1>0, <1>6, <2>1, <3>1 DEF LatestIsLast
    <3>3. owner \in Range(app.work)
      <4>1. app.work \in Seq(Sessions) BY <1>0, AppFields
      <4>2. Len(app.work) \in 1..Len(app.work) BY <3>2, <4>1, EmptySeq, LenProperties
      <4>3. Range(app.work) = {app.work[i] : i \in 1..Len(app.work)} BY <4>1, RangeEquality
      <4> QED BY <3>2, <4>2, <4>3 DEF Last
    <3>4. Logged(owner) BY <1>0, <3>3, DecodingLogged DEF Decoding
    <3> QED BY <1>6, <2>1, <3>4
  <2> QED BY <2>2, <2>3
<1>9. \A s \in Sessions : app'.asked[s] = "send" => app.asked[s] = "send" \/ Meant(s)
  <2> SUFFICES ASSUME NEW s \in Sessions, app'.asked[s] = "send", app.asked[s] # "send" PROVE Meant(s)
    OBVIOUS
  <2>1. app.asked \in [Sessions -> Keys \cup {"insert"}] BY <1>0, AppFields
  <2>2. owner # NoSession /\ s = owner /\ h.ask = "send" BY <1>2, <2>1
  <2> QED BY <1>7, <1>8, <2>2
<1>10. \A s \in Range(app'.late) : s \in Range(app.late) \/ Logged(s) BY <1>2
<1>11. commands' = commands \/ \E c \in Commands : commands' = Append(commands, c) /\ Commanded(c)
  <2> SUFFICES ASSUME commands' # commands
               PROVE  \E c \in Commands : commands' = Append(commands, c) /\ Commanded(c)
    OBVIOUS
  <2>1. PICK t : t = Last(app.late) OBVIOUS
  <2>2. h.ask = "send" /\ t \in Sessions /\ Logged(t) /\ commands' = Append(commands, [type |-> "send", id |-> t])
    BY <1>0, <1>2, <2>1 DEF Send, AsksMeant
  <2>3. Meant(t) BY <1>6, <1>7, <2>2
  <2> DEFINE c == [type |-> "send", id |-> t]
  <2>4. c \in Commands /\ c.type = "send" /\ c.id = t BY <2>2, CommandKinds
  <2>5. commands' = Append(commands, c) BY <2>2
  <2> HIDE DEF c
  <2> QED BY <2>3, <2>4, <2>5 DEF Commanded
<1>12. AsksAfter(h) BY DEF AsksAfter
<1> QED BY <1>2, <1>4, <1>5, <1>9, <1>10, <1>11, <1>12 DEF Turns, helperVars

LEMMA PacketTurns ==
  ASSUME DictationInv, ReadPacket, NEW h, h = Head(lines)
  PROVE  Turns(h)
<1> DEFINE p == Head(packets)
           e == app.cur.end # "no" /\ app.cur.chunks # <<>> /\ p.n = 0
           b == IF e THEN EndedCur(app) ELSE app
<1>0. Told /\ Based /\ app \in Apps BY WholeIs
<1>1. /\ packets # <<>> /\ app' = Heard(app, p) /\ lines' = lines
      /\ UNCHANGED <<helperVars, lines, commands>>
  BY DEF ReadPacket
<1>2. p \in Packets
  <2>1. packets \in Seq(Packets) BY <1>0, BasedFields
  <2> QED BY <1>1, <2>1, PipeRead
<1>3. /\ IF b.cur # NoCur
         THEN app'.cur = [b.cur EXCEPT !.chunks = Append(b.cur.chunks, p)]
         ELSE app'.cur = NoCur
      /\ \A f \in Fields \ {"cur", "early"} : app'[f] = b[f]
  BY <1>0, <1>1, <1>2, HeardIs
<1>4. /\ app'.work = b.work /\ app'.latest = b.latest /\ app'.said = b.said /\ app'.late = b.late
      /\ app'.asked = b.asked
  BY <1>3 DEF Fields
<1>5. CASE e
  <2>1. b = EndedCur(app) BY <1>5
  <2> HIDE DEF b
  <2>2. Decodes /\ b.late = app.late /\ b.asked = app.asked /\ b.cur = NoCur
    BY <1>0, <1>4, <1>5, <2>1, EndedDecodes
  <2>3. ListensAfter(h) BY <1>1, <1>3, <2>2 DEF ListensAfter
  <2>4. AsksAfter(h) BY <1>1, <1>4, <2>2 DEF AsksAfter
  <2> QED BY <1>1, <1>4, <2>2, <2>3, <2>4 DEF Turns, helperVars
<1>6. CASE ~e
  <2>1. b = app BY <1>6
  <2> HIDE DEF b
  <2>2. app'.cur.id = app.cur.id /\ app'.cur.end = app.cur.end
    <3>1. CASE app.cur # NoCur
      <4>1. app.cur \in [id : Sessions, chunks : Seq(Packets), end : {"no"} \cup Reasons,
                         stopping : BOOLEAN]
        BY <1>0, <3>1, AppFields DEF Curs
      <4> QED BY <1>3, <2>1, <3>1, <4>1
    <3>2. CASE app.cur = NoCur BY <1>3, <2>1, <3>2
    <3> QED BY <3>1, <3>2
  <2>3. Decodes
    <3>1. \A t \in Sessions : Logged(t)' <=> Logged(t) BY <1>4, <2>1 DEF Logged
    <3> QED BY <1>4, <2>1, <3>1, SameDecodes
  <2>4. ListensAfter(h) BY <1>1, <2>2 DEF ListensAfter
  <2>5. AsksAfter(h) BY <1>1, <1>4, <2>1 DEF AsksAfter
  <2> QED BY <1>1, <1>4, <2>1, <2>3, <2>4, <2>5 DEF Turns, helperVars
<1> QED BY <1>5, <1>6

LEMMA DrainTurns ==
  ASSUME DictationInv, DrainEnds, NEW h, h = Head(lines)
  PROVE  Turns(h)
<1>0. Told BY WholeIs
<1>1. PICK b : b = EndedCur(app) OBVIOUS
<1>2. app.cur.end # "no" /\ app' = b /\ UNCHANGED <<helperVars, pipes>> BY <1>1 DEF DrainEnds
<1>3. Decodes /\ b.late = app.late /\ b.asked = app.asked /\ b.cur = NoCur
  BY <1>0, <1>1, <1>2, EndedDecodes
<1>4. lines' = lines /\ commands' = commands BY <1>2 DEF pipes
<1>5. ListensAfter(h) BY <1>2, <1>3, <1>4 DEF ListensAfter
<1>6. AsksAfter(h) BY <1>2, <1>3, <1>4 DEF AsksAfter
<1> QED BY <1>2, <1>3, <1>4, <1>5, <1>6 DEF Turns, helperVars

LEMMA StopByTurns ==
  ASSUME DictationInv, StopBy, NEW h, h = Head(lines)
  PROVE  Turns(h)
<1>0. Based BY WholeIs
<1>1. /\ UNCHANGED <<helperVars, lines, packets>>
      /\ Send([type |-> "stop", id |-> NoSession])
      /\ app'.cur.id = app.cur.id /\ app'.cur.end = app.cur.end
      /\ \A f \in Fields \ {"cur"} : app'[f] = app[f]
  BY <1>0, StopByIs
<1>2. /\ app'.work = app.work /\ app'.latest = app.latest /\ app'.said = app.said /\ app'.late = app.late
      /\ app'.asked = app.asked
  BY <1>1 DEF Fields
<1>3. Decodes
  <2>1. \A t \in Sessions : Logged(t)' <=> Logged(t) BY <1>2 DEF Logged
  <2> QED BY <1>2, <2>1, SameDecodes
<1>4. ListensAfter(h) BY <1>1 DEF ListensAfter
<1>5. commands' = commands \/ \E c \in Commands : commands' = Append(commands, c) /\ Commanded(c)
  <2> DEFINE c == [type |-> "stop", id |-> NoSession]
  <2>1. c \in Commands /\ Commanded(c) BY CommandKinds DEF Commanded
  <2>2. commands' = commands \/ commands' = Append(commands, c) BY <1>1 DEF Send
  <2> HIDE DEF c
  <2> QED BY <2>1, <2>2
<1>6. AsksAfter(h) BY <1>1, <1>2 DEF AsksAfter
<1> QED BY <1>1, <1>2, <1>3, <1>4, <1>5, <1>6 DEF Turns, helperVars

LEMMA DecodeTurns ==
  ASSUME DictationInv, Told', NEW words \in BOOLEAN, NEW clipboard \in BOOLEAN,
         DecodeEnds(words, clipboard), NEW h, h = Head(lines)
  PROVE  Turns(h)
<1>0. /\ Based /\ Log /\ app \in Apps /\ OnceEach(app) /\ AsksMeant BY WholeIs
<1>1. PICK s : s = Head(app.work) OBVIOUS
<1>2. /\ app.work # <<>> /\ s \in Sessions
      /\ UNCHANGED <<helperVars, lines, packets>>
      /\ app'.work = Tail(app.work)
      /\ app'.latest = IF app.latest = s THEN NoSession ELSE app.latest
      /\ \A f \in {"cur", "early", "kept", "asked"} : app'[f] = app[f]
      /\ \/ /\ \E send \in BOOLEAN : /\ send => app.asked[s] = "send"
                                   /\ Send([type |-> "insert", id |-> s, send |-> send])
            /\ app'.inserts = app.inserts \cup {s} /\ Range(app'.late) \subseteq Range(app.late) \cup {s}
            /\ app'.said = app.said
         \/ /\ Send([type |-> "settled", id |-> s])
            /\ app'.inserts = app.inserts /\ app'.late = app.late
            /\ \E what \in Ends : app'.said = [app.said EXCEPT ![s] = Append(app.said[s], what)]
  BY <1>0, <1>1, DecodeEndsIs
<1>3. s \in Decoding /\ Len(app.said[s]) = 1
  <2>1. app.work \in Seq(Sessions) BY <1>0, AppFields
  <2>2. s \in Range(app.work) BY <1>1, <1>2, <2>1, PipeRead
  <2>3. s \in Decoding BY <2>2 DEF Decoding
  <2> QED BY <1>0, <2>3, DecodingLogged
<1>4. Logged(s) BY <1>0, <1>3, DecodingLogged
<1>5. \A t \in Sessions : Logged(t)' <=> Logged(t)
  <2>1. CASE app'.said = app.said BY <2>1 DEF Logged
  <2>2. ASSUME NEW what \in Ends, app'.said = [app.said EXCEPT ![s] = Append(app.said[s], what)]
        PROVE  \A t \in Sessions : Logged(t)' <=> Logged(t)
    BY <1>0, <1>2, <1>3, <2>2, LoggedStays
  <2> QED BY <1>2, <2>1, <2>2
<1>6. Decodes
  <2>1. NewLog({}) BY <1>5 DEF NewLog
  <2> QED BY <1>1, <1>2, <2>1 DEF Decodes
<1>7. app'.cur = app.cur /\ app'.asked = app.asked BY <1>2
<1>8. ListensAfter(h) BY <1>2, <1>7 DEF ListensAfter
<1>9. \A t \in Range(app'.late) : t \in Range(app.late) \/ Logged(t) BY <1>2, <1>4
<1>10. commands' = commands \/ \E c \in Commands : commands' = Append(commands, c) /\ Commanded(c)
  <2>1. ASSUME NEW send \in BOOLEAN, send => app.asked[s] = "send",
               Send([type |-> "insert", id |-> s, send |-> send]), s \in app'.inserts
        PROVE  commands' = commands \/ \E c \in Commands : commands' = Append(commands, c) /\ Commanded(c)
    <3> DEFINE c == [type |-> "insert", id |-> s, send |-> send]
    <3>1. c \in Commands /\ c.type = "insert" /\ c.id = s /\ c.send = send BY <1>2, CommandKinds
    <3>2. commands' = commands \/ commands' = Append(commands, c) BY <2>1 DEF Send
    <3> HIDE DEF c
    <3>3. OnceEach(app') BY DEF Told, Log
    <3>4. s \notin Decoding' BY <2>1, <3>3 DEF OnceEach, Decoding
    <3>5. send => Meant(s) BY <1>0, <1>2, <2>1 DEF AsksMeant
    <3>6. Commanded(c) BY <1>3, <3>1, <3>4, <3>5 DEF Commanded
    <3> QED BY <3>1, <3>2, <3>6
  <2>2. ASSUME Send([type |-> "settled", id |-> s])
        PROVE  commands' = commands \/ \E c \in Commands : commands' = Append(commands, c) /\ Commanded(c)
    <3> DEFINE c == [type |-> "settled", id |-> s]
    <3>1. c \in Commands /\ c.type = "settled" BY <1>2, CommandKinds
    <3>2. commands' = commands \/ commands' = Append(commands, c) BY <2>2 DEF Send
    <3> HIDE DEF c
    <3>3. Commanded(c) BY <3>1 DEF Commanded
    <3> QED BY <3>1, <3>2, <3>3
  <2> QED BY <1>2, <2>1, <2>2
<1>11. AsksAfter(h) BY <1>2, <1>7 DEF AsksAfter
<1> QED BY <1>2, <1>6, <1>7, <1>8, <1>9, <1>10, <1>11 DEF Turns, helperVars

(* Once all is read, no key comes and no text is asked for by one.           *)
LEMMA GoneSends ==
  ASSUME DictationInv, Heeded', HelperGone
  PROVE  DictationInv'
<1>0. /\ Based /\ Told /\ Log /\ app \in Apps /\ AsksMeant /\ TextsMeant /\ Texts
      /\ app.cur # NoCur => ~Logged(app.cur.id)
  BY WholeIs DEF Log, Listens
<1>1. /\ lines = <<>> /\ lines' = <<>> /\ commands' = commands /\ helper = "exited" /\ helper' = "gone"
      /\ app' = Gone(app) /\ UNCHANGED <<activation, live, last, pasting, wrote, pressed, sends>>
  BY DEF HelperGone, pipes
<1>2. /\ commands = <<>> /\ pasting = NoPaste /\ activation = "idle"
      /\ Range(<<>>) = {} /\ Len(<<>>) = 0 /\ NoPaste.send = FALSE
  BY <1>0, <1>1, PipeEmpty, EmptySeq DEF Based, Down, NoPaste
<1>3. /\ app'.late = <<>> /\ app'.work = app.work /\ app'.asked = app.asked
      /\ \A s \in Sessions : Logged(s) => Logged(s)'
  <2>1. OnceEach(app) BY <1>0 DEF Log
  <2>2. app.cur # NoCur => app.said[app.cur.id] = <<>> BY <1>0 DEF Logged
  <2> DEFINE b == app'
  <2>3. b = Gone(app) BY <1>1
  <2> HIDE DEF b
  <2>4. b.late = <<>> /\ b.work = app.work /\ b.asked = app.asked BY <1>0, <2>3, GoneIs
  <2>5. \A s \in Sessions :
          b.said[s] # <<>> <=> app.said[s] # <<>> \/ (app.cur # NoCur /\ s = app.cur.id)
    BY <1>0, <2>1, <2>2, <2>3, OnceGone
  <2>6. \A s \in Sessions : Logged(s) => b.said[s] # <<>> BY <2>5 DEF Logged
  <2> QED BY <2>4, <2>6 DEF b, Logged
<1>4. \A s : Meant(s)' <=> Meant(s) BY <1>1 DEF Meant
<1>5. Texts'
  <2>1. OneText(<<>>) BY <1>2 DEF OneText
  <2>2. \A s \in Sessions : sends[s] > 0 => sends[s] = 1 /\ Logged(s)' /\ s \notin Decoding'
    BY <1>0, <1>3 DEF Texts, Decoding
  <2> QED BY <1>1, <1>2, <2>1, <2>2 DEF Texts
<1>6. SendsMeant'
  <2>1. KeysWait' BY <1>1, <1>2 DEF KeysWait
  <2>2. AsksMeant' BY <1>0, <1>2, <1>3, <1>4 DEF AsksMeant
  <2>3. TextsMeant' BY <1>0, <1>1, <1>2, <1>4 DEF TextsMeant
  <2> QED BY <2>1, <2>2, <2>3 DEF SendsMeant
<1>7. KeysFind'
  <2>1. LatestIsLast' BY <1>1 DEF LatestIsLast
  <2>2. \A s : ~KeyComes(s)' BY <1>1, <1>2 DEF KeyComes
  <2> QED BY <2>1, <2>2 DEF KeysFind
<1>8. (DictationInv <=> Heeded /\ Texts /\ SendsMeant /\ KeysFind)'
  BY DEF DictationInv, Heeded, Told, Based, Typed
<1> QED BY <1>5, <1>6, <1>7, <1>8

(* A turn of the app, but for the one that sees the helper gone.             *)
LEMMA EveryTurn ==
  ASSUME DictationInv, Told', App, ~HelperGone, NEW h, h = Head(lines)
  PROVE  Turns(h)
<1>1. CASE ReadStarted BY <1>1, StartedTurns
<1>2. CASE ReadEnded BY <1>2, EndReadTurns
<1>3. CASE ReadAnswer BY <1>3, AnswerTurns
<1>4. CASE ReadKey BY <1>4, KeyReadTurns
<1>5. CASE ReadPacket BY <1>5, PacketTurns
<1>6. CASE DrainEnds BY <1>6, DrainTurns
<1>7. CASE StopBy BY <1>7, StopByTurns
<1>8. CASE \E words, clipboard \in BOOLEAN : DecodeEnds(words, clipboard) BY <1>8, DecodeTurns
<1> QED BY <1>1, <1>2, <1>3, <1>4, <1>5, <1>6, <1>7, <1>8 DEF App

LEMMA DictationKept ==
  ASSUME DictationInv, ~PressInRoll, [Next]_vars
  PROVE  DictationInv'
<1>1. Heeded' /\ Told'
  <2>1. Heeded BY WholeIs
  <2> QED BY <2>1, HeededKept DEF Heeded
<1>2. ASSUME NEW h, h = Head(lines), Turns(h) PROVE DictationInv' BY <1>1, <1>2, SendsTurned
<1>3. PICK h : h = Head(lines) OBVIOUS
<1>4. CASE User \/ Helper BY <1>1, <1>4, SendsMoved
<1>5. CASE App
  <2>1. CASE HelperGone BY <1>1, <2>1, GoneSends
  <2>2. CASE ~HelperGone BY <1>1, <1>2, <1>3, <1>5, <2>2, EveryTurn
  <2> QED BY <2>1, <2>2
<1>6. CASE UNCHANGED vars
  <2>1. UNCHANGED helperVars /\ UNCHANGED pipes /\ app' = app BY <1>6 DEF vars
  <2>2. \A t \in Sessions : Logged(t)' <=> Logged(t) BY <2>1 DEF Logged
  <2>3. Decodes BY <2>1, <2>2, SameDecodes
  <2>4. ListensAfter(h) /\ AsksAfter(h) BY <2>1 DEF ListensAfter, AsksAfter, pipes
  <2>5. Turns(h) BY <2>1, <2>3, <2>4 DEF Turns, helperVars, pipes
  <2> QED BY <1>2, <1>3, <2>5
<1> QED BY <1>4, <1>5, <1>6 DEF Next

LEMMA InitDictation == Init => DictationInv
<1> SUFFICES ASSUME Init PROVE DictationInv OBVIOUS
<1>1. Heeded BY InitHeeded
<1>2. /\ lines = <<>> /\ commands = <<>> /\ pasting = NoPaste /\ activation = "idle"
      /\ app.work = <<>> /\ app.late = <<>> /\ app.latest = NoSession /\ NoPaste.send = FALSE
      /\ \A s \in Sessions : sends[s] = 0 /\ app.asked[s] = "insert"
  BY DEF Init, NoPaste
<1>3. Range(<<>>) = {} /\ Len(<<>>) = 0 BY PipeEmpty, EmptySeq
<1>4. OneText(<<>>) BY <1>3 DEF OneText
<1>5. Texts BY <1>2, <1>3, <1>4 DEF Texts
<1>6. KeysWait /\ AsksMeant /\ TextsMeant BY <1>2, <1>3 DEF KeysWait, AsksMeant, TextsMeant
<1>7. KeysFind BY <1>2, <1>3 DEF KeysFind, LatestIsLast, KeyComes
<1> QED BY <1>1, <1>5, <1>6, <1>7, WholeIs DEF SendsMeant

(* The parts of DictationInv hold in every state, where no press comes in    *)
(* the post-roll of another session: what waits in the pipes, what has been  *)
(* read of it, which texts are under way and whom the keys are for agree     *)
(* (session.ts:848-1041, 1166-1416).                                         *)
THEOREM DictationInvariance == ~PressInRoll => (Spec => []DictationInv)
<1> SUFFICES ASSUME ~PressInRoll PROVE Spec => []DictationInv OBVIOUS
<1>1. DictationInv /\ [Next]_vars => DictationInv' BY DictationKept
<1> QED BY InitDictation, <1>1, PTL DEF Spec

(* Where no press comes in the post-roll of another session, the send key    *)
(* follows a text once at most, and only if the user pressed Enter in its    *)
(* session or after it (session.ts:1006-1011, insert.rs:346-371, 533-560).   *)
THEOREM DictationSends == ~PressInRoll => (Spec => []SendsItsOwn)
<1>1. ASSUME DictationInv PROVE SendsItsOwn
  <2>1. /\ Texts /\ TextsMeant /\ sends \in [Sessions -> Nat]
        /\ pressed \in Seq([id : Sessions, ask : Keys])
    BY <1>1, WholeIs
  <2> SUFFICES ASSUME NEW s \in Sessions
               PROVE  /\ sends[s] <= 1
                      /\ sends[s] = 1 => \E i \in DOMAIN pressed :
                                           pressed[i].ask = "send" /\ pressed[i].id >= s
    BY DEF SendsItsOwn
  <2>2. sends[s] \in Nat /\ (sends[s] > 0 => sends[s] = 1 /\ Meant(s)) BY <2>1 DEF Texts, TextsMeant
  <2>3. ASSUME Meant(s) PROVE \E i \in DOMAIN pressed : pressed[i].ask = "send" /\ pressed[i].id >= s
    <3>1. PICK k \in Range(pressed) : k.ask = "send" /\ k.id >= s BY <2>3 DEF Meant
    <3>2. PICK i \in 1..Len(pressed) : k = pressed[i] BY <2>1, RangeEquality
    <3>3. i \in DOMAIN pressed BY <2>1, LenProperties
    <3> QED BY <3>1, <3>2, <3>3
  <2> QED BY <2>2, <2>3
<1> QED BY <1>1, DictationInvariance, PTL

(* A key that is read goes to the session it was pressed in.                 *)
LEMMA KeyGoes ==
  ASSUME DictationInv, ReadKey, NEW k, k = Head(lines), NEW owner, owner = KeyOwner(app)
  PROVE  /\ k.id \in Sessions /\ k.type = "key"
         /\ wrote[k.id] > 0 => owner \in {k.id, NoSession}
         /\ k.id = app.cur.id \/ k.id \in Decoding => owner = k.id
<1>0. /\ Based /\ Told /\ Log /\ LinesWait /\ app \in Apps /\ lines \in Seq(Messages)
      /\ LatestIsLast /\ OnceEach(app)
  BY WholeIs
<1>1. lines # <<>> /\ lines' = Tail(lines) /\ k.type = "key" BY DEF ReadKey, Read
<1>2. /\ k \in Range(lines) /\ k.id \in Sessions /\ helper # "gone" /\ k \in Messages
      /\ Range(lines) = Range(lines') \cup {k}
  BY <1>0, <1>1, ReadIs
<1>3. KeyComes(k.id) BY <1>1, <1>2 DEF KeyComes
<1>4. Finds(k.id) BY <1>2, <1>3 DEF DictationInv, KeysFind
<1>5. app.cur.id <= k.id BY <1>3, KeyComesLate
<1>6. owner = IF app.cur # NoCur THEN app.cur.id ELSE app.latest BY DEF KeyOwner
<1>7. k.id # NoSession /\ k.id \in Nat BY <1>2, Bounds
<1>8. CASE k.id = app.cur.id
  <2>1. app.cur # NoCur BY <1>7, <1>8 DEF NoCur
  <2> QED BY <1>1, <1>2, <1>6, <1>8, <2>1
<1>9. ASSUME Logged(k.id)
      PROVE  owner \in {k.id, NoSession} /\ app.cur = NoCur /\ owner = app.latest
  <2>1. app.cur = NoCur
    <3> SUFFICES ASSUME app.cur # NoCur PROVE FALSE OBVIOUS
    <3>1. k.id < app.cur.id /\ app.cur.id \in Nat
      <4>1. app.cur.id \in Sessions BY <1>0, AppFields, Bounds
      <4> QED BY <1>0, <1>2, <1>9, <4>1, Bounds DEF Log, LoggedIsOver
    <3> QED BY <1>5, <1>7, <3>1
  <2> QED BY <1>4, <1>6, <1>9, <2>1 DEF Finds
<1>10. CASE k.id \in Decoding
  <2>1. Logged(k.id) BY <1>0, <1>10, DecodingLogged
  <2>2. owner \in {k.id, NoSession} /\ owner = app.latest BY <1>9, <2>1
  <2>3. app.work \in Seq(Sessions) BY <1>0, AppFields
  <2>4. app.work # <<>>
    <3> SUFFICES ASSUME app.work = <<>> PROVE FALSE OBVIOUS
    <3> QED BY <1>10, PipeEmpty DEF Decoding
  <2>5. app.latest = Last(app.work) BY <1>0, <1>2, <2>4 DEF LatestIsLast
  <2>6. Len(app.work) \in Nat \ {0} BY <2>3, <2>4, PipeRead
  <2>7. Last(app.work) \in Sessions BY <2>3, <2>6 DEF Last
  <2>8. owner # NoSession BY <2>2, <2>5, <2>7, Bounds
  <2> QED BY <1>1, <1>2, <2>2, <2>8
<1>11. ASSUME wrote[k.id] > 0, k.id # app.cur.id PROVE owner \in {k.id, NoSession}
  <2>1. Logged(k.id) \/ Begun(k.id)
    <3>1. HaveStarts BY DEF DictationInv, Audio
    <3> QED BY <1>2, <1>11, <3>1 DEF HaveStarts
  <2>2. ASSUME NEW m \in Range(lines), m.type = "started", m.id = k.id PROVE FALSE
    <3>1. m \in Range(lines') BY <1>1, <1>2, <2>2
    <3>2. InOrder(k, m)
      <4>1. Ordered(lines) BY <1>0 DEF LinesWait
      <4> QED BY <1>0, <1>1, <3>1, <4>1, OrderedTail
    <3> QED BY <1>1, <1>7, <2>2, <3>2 DEF InOrder
  <2> QED BY <1>9, <2>1, <2>2 DEF Begun
<1> QED BY <1>1, <1>2, <1>8, <1>10, <1>11

(* No other step takes a key, or asks anything of a session.                 *)
LEMMA KeysLeft ==
  ASSUME DictationInv, ~PressInRoll, [Next]_vars, ~ReadKey
  PROVE  /\ app'.asked = app.asked
         /\ lines # <<>> /\ lines' = Tail(lines) => Head(lines).type # "key"
<1>0. /\ Based /\ Told /\ app \in Apps /\ lines \in Seq(Messages) BY WholeIs
<1>1. Told'
  <2>1. Heeded BY WholeIs
  <2> QED BY <2>1, HeededKept DEF Heeded
<1>2. lines # <<>> => Len(lines) \in Nat /\ Len(Tail(lines)) = Len(lines) - 1 BY <1>0, PipeRead
<1>3. ASSUME lines # <<>>, lines' = Tail(lines) PROVE ~(Len(lines) <= Len(lines'))
  BY <1>2, <1>3
<1>4. PICK h : h = Head(lines) OBVIOUS
<1>5. CASE User \/ Helper
  <2>1. PICK N \in SUBSET Messages : HelperMoves(N) BY <1>0, <1>5, EveryMove
  <2>2. app' = app /\ Len(lines) <= Len(lines') BY <2>1 DEF HelperMoves, Tells
  <2> QED BY <1>3, <2>2
<1>6. CASE App
  <2>1. CASE HelperGone
    <3>1. app' = Gone(app) /\ lines = <<>> BY <2>1 DEF HelperGone
    <3>2. PICK b : b = Gone(app) OBVIOUS
    <3>3. b.asked = app.asked BY <1>0, <3>2, GoneIs
    <3> QED BY <3>1, <3>2, <3>3
  <2>2. CASE ~HelperGone
    <3>1. Turns(h) BY <1>1, <1>4, <1>6, <2>2, EveryTurn
    <3>2. app'.asked = app.asked /\ (lines' = lines \/ h.type # "key") BY <3>1 DEF Turns, AsksAfter
    <3>3. Len(lines) \in Nat BY <1>0, LenProperties
    <3> QED BY <1>3, <1>4, <3>2, <3>3
  <2> QED BY <2>1, <2>2
<1>7. CASE UNCHANGED vars
  <2>1. lines' = lines /\ app' = app BY <1>7 DEF vars, pipes
  <2>2. Len(lines) \in Nat BY <1>0, LenProperties
  <2> QED BY <1>3, <2>1, <2>2
<1> QED BY <1>5, <1>6, <1>7 DEF Next

(* Where no press comes in the post-roll of another session, a key reaches   *)
(* the session it was pressed in as long as that one listens or waits for    *)
(* its decode, and another only if its own never started                     *)
(* (session.ts:994-1017).                                                    *)
THEOREM DictationKeys == ~PressInRoll => (Spec => KeysAreTheirs)
<1> SUFFICES ASSUME ~PressInRoll PROVE Spec => KeysAreTheirs OBVIOUS
<1> DEFINE Theirs ==
             /\ \A s \in Sessions : app'.asked[s] # app.asked[s] =>
                  /\ Head(lines).type = "key"
                  /\ Head(lines).id = s \/ wrote[Head(lines).id] = 0
             /\ (lines # <<>> /\ lines' = Tail(lines) /\ Head(lines).type = "key") =>
                  LET s == Head(lines).id
                  IN s = app.cur.id \/ (\E i \in DOMAIN app.work : app.work[i] = s)
                       => app'.asked[s] = Head(lines).ask
<1>1. ASSUME DictationInv, [Next]_vars PROVE Theirs
  <2>1. CASE ~ReadKey BY <1>1, <2>1, KeysLeft
  <2>2. CASE ReadKey
    <3>0. Based /\ app \in Apps BY <1>1, WholeIs
    <3>1. PICK k : k = Head(lines) OBVIOUS
    <3>2. PICK owner : owner = KeyOwner(app) OBVIOUS
    <3>3. /\ k.id \in Sessions /\ k.type = "key"
          /\ wrote[k.id] > 0 => owner \in {k.id, NoSession}
          /\ k.id = app.cur.id \/ k.id \in Decoding => owner = k.id
      BY <1>1, <2>2, <3>1, <3>2, KeyGoes
    <3>4. app'.asked = IF owner # NoSession THEN [app.asked EXCEPT ![owner] = k.ask] ELSE app.asked
      BY <2>2, <3>0, <3>1, <3>2, KeyReadIs
    <3>5. app.asked \in [Sessions -> Keys \cup {"insert"}] /\ wrote[k.id] \in Nat /\ k.id # NoSession
      BY <3>0, <3>3, AppFields, BasedFields, Bounds
    <3>6. ASSUME NEW s \in Sessions, app'.asked[s] # app.asked[s] PROVE k.id = s \/ wrote[k.id] = 0
      BY <3>3, <3>4, <3>5, <3>6
    <3>7. ASSUME k.id = app.cur.id \/ (\E i \in DOMAIN app.work : app.work[i] = k.id)
          PROVE  app'.asked[k.id] = k.ask
      <4>1. k.id = app.cur.id \/ k.id \in Decoding BY <3>7 DEF Decoding, Range
      <4> QED BY <3>3, <3>4, <3>5, <4>1
    <3> HIDE DEF Theirs
    <3> QED BY <3>1, <3>3, <3>6, <3>7 DEF Theirs
  <2> QED BY <2>1, <2>2
<1>2. ASSUME DictationInv, [Next]_vars PROVE [Theirs]_vars BY <1>1, <1>2
<1>3. KeysAreTheirs <=> [][Theirs]_vars BY DEF KeysAreTheirs
<1> HIDE DEF Theirs
<1> QED BY <1>2, <1>3, DictationInvariance, PTL DEF Spec
=============================================================================
