------------------------- MODULE Dictation_proofs -------------------------
(***************************************************************************)
(* Proofs about Dictation, for any number of sessions, packets and keys.   *)
(* The types hold always; the rest of DictationInv where no press comes in *)
(* the post-roll of another session.                                       *)
(***************************************************************************)
EXTENDS DictationInvariant, SequenceTheorems, WellFoundedInduction, TLAPS

(* The bounds are natural numbers, and sessions are numbers from 1.          *)
LEMMA Bounds ==
  /\ MaxSessions \in Nat \ {0} /\ MaxPackets \in Nat \ {0} /\ MaxKeys \in Nat \ {0}
  /\ \A s \in Sessions : s \in Nat /\ s > 0 /\ s <= MaxSessions /\ s # NoSession
BY BoundsAssumption DEF Sessions, NoSession

-----------------------------------------------------------------------------
(* Sequences as pipes.                                                       *)

(* What is in a pipe is what can be read from it, and what is written.       *)
LEMMA PipeWritten ==
  ASSUME NEW S, NEW q \in Seq(S), NEW m \in S
  PROVE  /\ Append(q, m) \in Seq(S) /\ Append(q, m) # <<>>
         /\ Len(Append(q, m)) = Len(q) + 1 /\ Len(q) \in Nat
         /\ \A i \in 1..Len(q) : Append(q, m)[i] = q[i]
         /\ Append(q, m)[Len(q) + 1] = m
         /\ Range(Append(q, m)) = Range(q) \cup {m}
<1>1. /\ Append(q, m) \in Seq(S) /\ Append(q, m) # <<>> /\ Len(q) \in Nat
      /\ Len(Append(q, m)) = Len(q) + 1
      /\ \A i \in 1..Len(q) : Append(q, m)[i] = q[i]
      /\ Append(q, m)[Len(q) + 1] = m
  BY AppendProperties, LenProperties
<1>2. Range(Append(q, m)) = {Append(q, m)[i] : i \in 1..Len(q) + 1}
  BY <1>1, RangeEquality
<1>3. Range(q) = {q[i] : i \in 1..Len(q)} BY RangeEquality
<1>4. 1..Len(q) + 1 = 1..Len(q) \cup {Len(q) + 1} BY <1>1
<1>5. Range(Append(q, m)) = Range(q) \cup {m}
  <2>1. ASSUME NEW x \in Range(Append(q, m)) PROVE x \in Range(q) \cup {m}
    BY <2>1, <1>1, <1>2, <1>3, <1>4
  <2>2. ASSUME NEW x \in Range(q) PROVE x \in Range(Append(q, m))
    BY <2>2, <1>1, <1>2, <1>3, <1>4
  <2>3. m \in Range(Append(q, m)) BY <1>1, <1>2, <1>4
  <2> QED BY <2>1, <2>2, <2>3
<1> QED BY <1>1, <1>5

LEMMA PipeRead ==
  ASSUME NEW S, NEW q \in Seq(S), q # <<>>
  PROVE  /\ Head(q) \in S /\ Head(q) = q[1] /\ Tail(q) \in Seq(S)
         /\ Len(q) \in Nat \ {0} /\ Len(Tail(q)) = Len(q) - 1
         /\ \A i \in 1..Len(Tail(q)) : Tail(q)[i] = q[i + 1]
         /\ Range(q) = Range(Tail(q)) \cup {Head(q)}
         /\ Head(q) \in Range(q)
<1>1. /\ Head(q) \in S /\ Tail(q) \in Seq(S) /\ Len(Tail(q)) = Len(q) - 1
      /\ \A i \in 1..Len(Tail(q)) : Tail(q)[i] = q[i + 1]
      /\ Len(q) \in Nat \ {0}
  BY HeadTailProperties, EmptySeq
<1>2. Head(q) = q[1] OBVIOUS
<1>3. Range(q) = {q[i] : i \in 1..Len(q)} /\ Range(Tail(q)) = {Tail(q)[i] : i \in 1..Len(q) - 1}
  BY <1>1, RangeEquality
<1>4. ASSUME NEW x \in Range(q) PROVE x \in Range(Tail(q)) \cup {Head(q)}
  <2>1. PICK i \in 1..Len(q) : x = q[i] BY <1>3
  <2>2. CASE i = 1 BY <2>1, <2>2, <1>2
  <2>3. CASE i # 1
    <3>1. i - 1 \in 1..Len(q) - 1 /\ (i - 1) + 1 = i BY <2>3, <1>1
    <3>2. Tail(q)[i - 1] = x BY <3>1, <2>1, <1>1
    <3> QED BY <3>1, <3>2, <1>3
  <2> QED BY <2>2, <2>3
<1>5. ASSUME NEW x \in Range(Tail(q)) PROVE x \in Range(q)
  <2>1. PICK i \in 1..Len(q) - 1 : x = Tail(q)[i] BY <1>3
  <2>2. i + 1 \in 1..Len(q) /\ x = q[i + 1] BY <2>1, <1>1
  <2> QED BY <2>2, <1>3
<1>6. Head(q) \in Range(q)
  <2>1. 1 \in 1..Len(q) BY <1>1
  <2> QED BY <2>1, <1>2, <1>3
<1> QED BY <1>1, <1>2, <1>4, <1>5, <1>6

(* A pipe holds what its type says.                                          *)
LEMMA PipeTyped ==
  ASSUME NEW S, NEW q \in Seq(S)
  PROVE  Range(q) \subseteq S
BY RangeOfSeq

(* Nothing is in an empty pipe.                                              *)
LEMMA PipeEmpty == Range(<<>>) = {}
<1>1. <<>> \in Seq({}) /\ Len(<<>>) = 0 BY EmptySeq
<1>2. Range(<<>>) = {(<<>>)[i] : i \in 1..Len(<<>>)} BY <1>1, RangeEquality
<1> QED BY <1>1, <1>2

(* A set of natural numbers that is not empty has a least element.           *)
LEMMA LeastIn == ASSUME NEW S \in SUBSET Nat, S # {} PROVE \E n \in S : \A m \in S : n <= m
<1>1. PICK x \in S : \A y \in S : ~(<<y, x>> \in OpToRel(<, Nat))
  BY NatLessThanWellFounded, WFMin
<1>2. \A y \in S : ~(y < x) BY <1>1 DEF OpToRel
<1> QED BY <1>2

(* The first element removed, or none: what is left was there.               *)
LEMMA FirstRemoved ==
  ASSUME NEW S, NEW q \in Seq(S), NEW x
  PROVE  RemoveFirst(q, x) \in Seq(S) /\ Range(RemoveFirst(q, x)) \subseteq Range(q)
<1>0. Len(q) \in Nat /\ \A i \in 1..Len(q) : q[i] \in S /\ q[i] \in Range(q)
  BY LenProperties, RangeEquality
<1>1. CASE ~\E i \in 1..Len(q) : q[i] = x BY <1>1 DEF RemoveFirst
<1>2. CASE \E i \in 1..Len(q) : q[i] = x
  <2> DEFINE I == {i \in 1..Len(q) : q[i] = x}
             k == Min(I)
             r == SubSeq(q, 1, k - 1) \o SubSeq(q, k + 1, Len(q))
  <2>1. k \in 1..Len(q)
    <3>1. I # {} /\ I \in SUBSET Nat BY <1>2, <1>0
    <3>2. \E n \in I : \A m \in I : n <= m BY <3>1, LeastIn
    <3> QED BY <3>2 DEF Min
  <2>2. RemoveFirst(q, x) = r
    BY <1>2 DEF RemoveFirst, RemoveAt, SelectInSeq
  <2>3. q \in Seq(Range(q))
    BY SeqOfRange
  <2>4. /\ SubSeq(q, 1, k - 1) \in Seq(Range(q))
        /\ SubSeq(q, k + 1, Len(q)) \in Seq(Range(q))
    <3> HIDE DEF k
    <3>1. \A i \in 1..k - 1 : q[i] \in Range(q) BY <1>0, <2>1
    <3>2. \A i \in k + 1..Len(q) : q[i] \in Range(q) BY <1>0, <2>1
    <3>3. 1 \in Int /\ k - 1 \in Int /\ k + 1 \in Int /\ Len(q) \in Int BY <1>0, <2>1
    <3> QED BY <3>1, <3>2, <3>3, SubSeqProperties
  <2>5. r \in Seq(Range(q))
    <3> HIDE DEF k
    <3> QED BY <2>4, ConcatProperties
  <2>6. Range(r) \subseteq Range(q)
    <3> HIDE DEF r
    <3> QED BY <2>5, RangeOfSeq
  <2>7. Range(q) \subseteq S BY RangeOfSeq
  <2>8. r \in Seq(S)
    <3> HIDE DEF r
    <3> QED BY <2>5, <2>7, SeqMonotonic
  <2> QED BY <2>2, <2>6, <2>8
<1> QED BY <1>1, <1>2

-----------------------------------------------------------------------------
(* Types.                                                                    *)

(* What the messages and the commands are.                                   *)
LEMMA MessageKinds ==
  /\ \A m \in Messages :
       /\ m.id \in Sessions
       /\ m.type \in {"started", "inserted", "insert.failed", "ended", "key"}
       /\ m.type = "ended" => m.reason \in Reasons
       /\ m.type = "key" => m.ask \in Keys
  /\ \A s \in Sessions :
       /\ Started(s) \in Messages
       /\ \A reason \in Reasons : Ended(s, reason) \in Messages
       /\ \A ok \in BOOLEAN : Outcome(s, ok) \in Messages
       /\ \A ask \in Keys : [type |-> "key", id |-> s, ask |-> ask] \in Messages
BY DEF Messages, Started, Ended, Outcome

LEMMA CommandKinds ==
  /\ \A c \in Commands :
       /\ c.type \in {"insert", "settled", "send", "stop"}
       /\ c.type # "stop" => c.id \in Sessions
       /\ c.type = "insert" => c.send \in BOOLEAN
  /\ [type |-> "stop", id |-> NoSession] \in Commands
  /\ \A s \in Sessions :
       /\ [type |-> "settled", id |-> s] \in Commands /\ [type |-> "send", id |-> s] \in Commands
       /\ \A send \in BOOLEAN : [type |-> "insert", id |-> s, send |-> send] \in Commands
BY DEF Commands

(* The session captured and the paste that waits, field by field.            *)
LEMMA FieldTypes ==
  ASSUME TypeOK
  PROVE  /\ live.id \in Sessions \cup {NoSession} /\ live.phase \in {"cold", "on", "roll", "none"}
         /\ live = [id |-> live.id, phase |-> live.phase]
         /\ live = NoLive <=> live.phase = "none"
         /\ live = NoLive <=> live.id = NoSession
         /\ pasting.id \in Sessions \cup {NoSession} /\ pasting.send \in BOOLEAN
         /\ pasting = NoPaste <=> pasting.id = NoSession
         /\ ids \in Nat /\ last \in Nat
<1>1. live = NoLive \/ live \in [id : Sessions, phase : {"cold", "on", "roll"}] BY DEF TypeOK
<1>2. pasting = NoPaste \/ pasting \in [id : Sessions, send : BOOLEAN] BY DEF TypeOK
<1>3. ids \in Nat /\ last \in Nat BY Bounds DEF TypeOK, NoSession
<1>4. NoLive.id = 0 /\ NoLive.phase = "none" /\ NoPaste.id = 0 /\ NoPaste.send = FALSE
  BY DEF NoLive, NoPaste, NoSession
<1>5. /\ live.id \in Sessions \cup {NoSession} /\ live.phase \in {"cold", "on", "roll", "none"}
      /\ live = NoLive <=> live.phase = "none"
      /\ live = NoLive <=> live.id = NoSession
  <2>1. CASE live = NoLive BY <2>1, <1>4 DEF NoSession
  <2>2. CASE live # NoLive BY <2>2, <1>1, <1>4, Bounds DEF NoSession
  <2> QED BY <2>1, <2>2
<1>6. live = [id |-> live.id, phase |-> live.phase]
  <2>1. CASE live = NoLive BY <2>1 DEF NoLive
  <2>2. CASE live # NoLive BY <2>2, <1>1
  <2> QED BY <2>1, <2>2
<1>7. /\ pasting.id \in Sessions \cup {NoSession} /\ pasting.send \in BOOLEAN
      /\ pasting = NoPaste <=> pasting.id = NoSession
  <2>1. CASE pasting = NoPaste BY <2>1, <1>4 DEF NoSession
  <2>2. CASE pasting # NoPaste BY <2>2, <1>2, <1>4, Bounds DEF NoSession
  <2> QED BY <2>1, <2>2
<1> QED BY <1>3, <1>5, <1>6, <1>7

Typed == TypeOK /\ Numbered

(* begin_session, of the newest session.                                     *)
LEMMA BeginTyped ==
  ASSUME Typed, NEW s \in Sessions, s = ids', ids' \in 0..MaxSessions, ids <= s, wrote[s] = 0, Begins(s),
         activation' = "listening",
         UNCHANGED <<helper, last, pasting, pressed, sends, commands, app>>
  PROVE  Typed'
<1> USE DEF Typed
<1>1. [s |-> s, n |-> wrote[s]] \in Packets BY Bounds DEF Packets
<1>2. lines' \in Seq(Messages) /\ packets' \in Seq(Packets)
  BY <1>1, MessageKinds, AppendProperties DEF TypeOK, Begins, Record
<1>3. wrote' \in [Sessions -> 0..MaxPackets] /\ wrote' = [wrote EXCEPT ![s] = 1]
  BY Bounds DEF TypeOK, Begins, Record
<1>4. live' = [id |-> s, phase |-> "on"] BY DEF Begins
<1>5. TypeOK' BY <1>2, <1>3, <1>4 DEF TypeOK
<1>6. Numbered' BY <1>3, <1>4, Bounds, FieldTypes, SMTT(40) DEF Numbered, KeyFor, TypeOK, NoLive
<1> QED BY <1>5, <1>6

LEMMA PressTyped ==
  ASSUME Typed, NEW flowing \in BOOLEAN, Press(flowing)
  PROVE  Typed'
<1> USE DEF Typed
<1>1. ids' = ids + 1 /\ ids + 1 \in Sessions /\ ids \in Nat
  BY Bounds, FieldTypes DEF Press, TypeOK, Sessions
<1>2. wrote[ids + 1] = 0
  <2>1. wrote[ids + 1] \in Nat BY <1>1, Bounds DEF TypeOK
  <2>2. ~(ids + 1 <= ids) BY <1>1
  <2> QED BY <1>1, <2>1, <2>2 DEF Numbered
<1>3. CASE flowing
  BY <1>1, <1>2, <1>3, BeginTyped, Bounds DEF Press, Sessions
<1>4. CASE ~flowing
  <2>1. /\ live' = [id |-> ids + 1, phase |-> "cold"] /\ activation' = "listening"
        /\ UNCHANGED <<lines, packets, wrote, helper, last, pasting, pressed, sends, commands, app>>
    BY <1>4 DEF Press
  <2>2. TypeOK' BY <1>1, <2>1, Bounds DEF TypeOK, Sessions
  <2>3. Numbered' BY <1>1, <1>2, <2>1, FieldTypes, Bounds, SMTT(40) DEF Numbered, KeyFor, TypeOK, NoLive
  <2> QED BY <2>2, <2>3
<1> QED BY <1>3, <1>4

LEMMA SampleTyped ==
  ASSUME Typed, Sample
  PROVE  Typed'
<1> USE DEF Typed
<1>1. live.id \in Sessions /\ wrote[live.id] \in 0..MaxPackets - 1 /\ live # NoLive
  BY Bounds, FieldTypes DEF Sample, TypeOK
<1>2. [s |-> live.id, n |-> wrote[live.id]] \in Packets BY <1>1, Bounds DEF Packets
<1>3. /\ packets' \in Seq(Packets) /\ wrote' \in [Sessions -> 0..MaxPackets]
      /\ wrote' = [wrote EXCEPT ![live.id] = wrote[live.id] + 1]
      /\ UNCHANGED <<helper, activation, live, last, pasting, ids, pressed, sends, lines, commands,
                     app>>
  BY <1>1, <1>2, Bounds, AppendProperties DEF TypeOK, Sample, Record
<1>4. TypeOK' BY <1>3 DEF TypeOK
<1>5. live.id = ids /\ live.phase # "cold" BY <1>1 DEF Numbered, Sample
<1>6. Numbered' BY <1>1, <1>3, <1>5, FieldTypes, Bounds, SMTT(40) DEF Numbered, KeyFor, TypeOK
<1> QED BY <1>4, <1>6

(* The end of a session, with the key that ends it or without.               *)
LEMMA EndTyped ==
  ASSUME Typed, NEW reason \in Reasons, NEW first \in Seq(Messages), EndSession(reason, first),
         pressed' \in Seq([id : Sessions, ask : Keys]), Len(pressed') <= MaxKeys,
         commands' \in Seq(Commands),
         UNCHANGED <<helper, pasting, ids, wrote, sends, packets, app>>
  PROVE  Typed'
<1> USE DEF Typed
<1>0. live.phase \in {"cold", "on"} /\ live.id \in Sessions /\ live # NoLive
  BY FieldTypes DEF EndSession, TypeOK
<1>1. CASE live.phase = "cold"
  <2>1. /\ lines' = lines \o first /\ live' = NoLive /\ activation' = "idle" /\ last' = last
    BY <1>1 DEF EndSession
  <2>2. lines' \in Seq(Messages) BY <2>1, ConcatProperties DEF TypeOK
  <2>3. TypeOK' BY <2>1, <2>2 DEF TypeOK, NoLive
  <2>4. Numbered' BY <2>1 DEF Numbered, TypeOK
  <2> QED BY <2>3, <2>4
<1>2. CASE live.phase = "on" /\ reason = "cancel"
  <2>1. /\ lines' = lines \o first \o <<Ended(live.id, "cancel")>>
        /\ live' = NoLive /\ activation' = "idle" /\ last' = live.id
    BY <1>2 DEF EndSession
  <2>2. lines' \in Seq(Messages)
    <3>1. <<Ended(live.id, "cancel")>> \in Seq(Messages) BY <1>0, MessageKinds DEF Reasons
    <3> QED BY <2>1, <3>1, ConcatProperties DEF TypeOK
  <2>3. TypeOK' BY <2>1, <2>2, <1>0 DEF TypeOK, NoLive
  <2>4. Numbered' BY <2>1, <1>0, FieldTypes DEF Numbered, TypeOK
  <2> QED BY <2>3, <2>4
<1>3. CASE live.phase = "on" /\ reason # "cancel"
  <2>1. /\ lines' = lines \o first /\ last' = last
        /\ live' = [live EXCEPT !.phase = "roll"] /\ activation' = "awaiting"
    BY <1>3 DEF EndSession
  <2>2. lines' \in Seq(Messages) BY <2>1, ConcatProperties DEF TypeOK
  <2>3. live' = [id |-> live.id, phase |-> "roll"] BY <2>1, FieldTypes
  <2>4. TypeOK' BY <2>1, <2>2, <2>3, <1>0 DEF TypeOK
  <2>5. Numbered' BY <2>1, <2>3, <1>0, <1>3, FieldTypes, Bounds DEF Numbered, TypeOK, KeyFor, NoLive
  <2> QED BY <2>4, <2>5
<1> QED BY <1>0, <1>1, <1>2, <1>3

LEMMA UserTyped ==
  ASSUME Typed, User
  PROVE  Typed'
<1> USE DEF Typed
<1>1. ASSUME NEW flowing \in BOOLEAN, Press(flowing) PROVE Typed' BY <1>1, PressTyped
<1>2. ASSUME NEW reason \in Reasons, Release(reason) PROVE Typed'
  <2>1. <<>> \in Seq(Messages) BY EmptySeq
  <2>2. /\ pressed' \in Seq([id : Sessions, ask : Keys]) /\ Len(pressed') <= MaxKeys
        /\ commands' \in Seq(Commands)
    BY <1>2 DEF Release, TypeOK
  <2> QED BY <1>2, <2>1, <2>2, EndTyped DEF Release
<1>3. ASSUME NEW ask \in Keys, KeyDown(ask) PROVE Typed'
  <2> DEFINE key == [type |-> "key", id |-> KeyFor, ask |-> ask]
             r == IF ask = "cancel" THEN "cancel" ELSE "release"
  <2>1. KeyFor \in Sessions
    BY <1>3, FieldTypes DEF KeyDown, Numbered, KeyFor, TypeOK
  <2>2. key \in Messages BY <2>1, MessageKinds
  <2>3. /\ pressed' = Append(pressed, [id |-> KeyFor, ask |-> ask]) /\ Len(pressed) < MaxKeys
        /\ UNCHANGED <<helper, pasting, ids, wrote, sends, packets, commands, app>>
    BY <1>3 DEF KeyDown, KeyFor
  <2>4. pressed' \in Seq([id : Sessions, ask : Keys]) /\ Len(pressed') <= MaxKeys
    <3>1. [id |-> KeyFor, ask |-> ask] \in [id : Sessions, ask : Keys] BY <2>1
    <3>2. pressed \in Seq([id : Sessions, ask : Keys]) BY DEF TypeOK
    <3>3. Len(pressed') = Len(pressed) + 1 /\ Len(pressed) \in Nat
      BY <2>3, <3>1, <3>2, AppendProperties, LenProperties
    <3> QED BY <2>3, <3>1, <3>2, <3>3, AppendProperties, Bounds
  <2>5. CASE EndSession(r, <<key>>)
    <3>1. <<key>> \in Seq(Messages) /\ r \in Reasons BY <2>2 DEF Reasons
    <3>2. commands' \in Seq(Commands) BY <2>3 DEF TypeOK
    <3> HIDE DEF key, r
    <3> QED BY <2>3, <2>4, <2>5, <3>1, <3>2, EndTyped
  <2>6. CASE /\ activation = "awaiting" /\ lines' = Append(lines, key)
             /\ UNCHANGED <<activation, live, last>>
    <3>1. lines' \in Seq(Messages) BY <2>2, <2>6, AppendProperties DEF TypeOK
    <3>2. TypeOK' BY <2>3, <2>4, <2>6, <3>1 DEF TypeOK
    <3>3. Numbered' BY <2>3, <2>6 DEF Numbered, KeyFor
    <3> QED BY <3>2, <3>3
  <2> QED BY <1>3, <2>5, <2>6 DEF KeyDown, KeyFor
<1> QED BY <1>1, <1>2, <1>3 DEF User

(* The keys may pass again.                                                  *)
LEMMA FreedIs ==
  ASSUME TypeOK
  PROVE  /\ Freed \in {activation, "idle"} /\ Freed \in {"idle", "listening"}
         /\ Freed = "listening" <=> activation = "listening"
BY DEF Freed, TypeOK

(* What settles a text changes nothing else.                                 *)
LEMMA SettleTyped ==
  ASSUME Typed, UNCHANGED <<helper, live, last, ids, wrote, pressed, packets, app>>,
         lines' \in Seq(Messages), commands' \in Seq(Commands), sends' \in [Sessions -> Nat],
         pasting' \in [id : Sessions, send : BOOLEAN] \cup {NoPaste},
         activation' \in {activation, Freed, "idle"}, activation = "listening" => activation' # "idle"
  PROVE  Typed'
<1> USE DEF Typed
<1>1. TypeOK' BY FreedIs DEF TypeOK
<1>2. Numbered' BY FreedIs DEF Numbered, KeyFor
<1> QED BY <1>1, <1>2

LEMMA SendsTyped ==
  ASSUME TypeOK, NEW s \in Sessions
  PROVE  [sends EXCEPT ![s] = @ + 1] \in [Sessions -> Nat]
BY DEF TypeOK

LEMMA HelperTyped ==
  ASSUME Typed, Helper
  PROVE  Typed'
<1> USE DEF Typed
<1>0. /\ lines \in Seq(Messages) /\ packets \in Seq(Packets) /\ commands \in Seq(Commands)
      /\ sends \in [Sessions -> Nat]
      /\ pasting \in [id : Sessions, send : BOOLEAN] \cup {NoPaste}
  BY DEF TypeOK
<1>1. CASE FirstSample
  <2>1. live # NoLive /\ live.id = ids /\ wrote[ids] = 0 /\ live.id \in Sessions
    BY <1>1, FieldTypes DEF FirstSample, Numbered
  <2>2. activation = "listening" BY <1>1 DEF FirstSample, TypeOK
  <2>3. ids' = ids /\ ids \in 0..MaxSessions BY <1>1 DEF FirstSample, TypeOK
  <2> QED BY <1>1, <2>1, <2>2, <2>3, BeginTyped, FieldTypes DEF FirstSample
<1>2. CASE Sample BY <1>2, SampleTyped
<1>3. CASE RollEnds
  <2>1. /\ live # NoLive /\ live.id \in Sessions /\ live.id = ids /\ activation # "listening"
    BY <1>3, FieldTypes DEF RollEnds, Numbered, TypeOK
  <2>2. /\ lines' = Append(lines, Ended(live.id, "release")) /\ last' = live.id /\ live' = NoLive
        /\ UNCHANGED <<helper, activation, pasting, ids, wrote, pressed, sends, packets, commands, app>>
    BY <1>3 DEF RollEnds
  <2>3. lines' \in Seq(Messages)
    <3>1. Ended(live.id, "release") \in Messages BY <2>1, MessageKinds DEF Reasons
    <3> QED BY <3>1, <2>2, <1>0, AppendProperties
  <2>4. TypeOK' BY <2>1, <2>2, <2>3 DEF TypeOK, NoLive
  <2>5. Numbered' BY <2>1, <2>2, FieldTypes, Bounds DEF Numbered, KeyFor
  <2> QED BY <2>4, <2>5
<1>4. CASE KeysLapse
  BY <1>4, <1>0, SettleTyped DEF KeysLapse, pipes
<1>5. CASE Dies
  <2>1. commands' \in Seq(Commands) BY <1>5, EmptySeq DEF Dies
  <2>2. TypeOK' BY <1>5, <2>1 DEF Dies, TypeOK, NoLive
  <2>3. Numbered' BY <1>5 DEF Dies, Numbered
  <2> QED BY <2>2, <2>3
<1>6. CASE TakeSettled
  <2>1. commands' \in Seq(Commands)
    BY <1>6, <1>0, HeadTailProperties DEF TakeSettled, Take
  <2> QED BY <1>6, <2>1, <1>0, SettleTyped, FreedIs DEF TakeSettled
<1>7. CASE TakeSend
  <2>1. commands' \in Seq(Commands) /\ Head(commands) \in Commands
    BY <1>7, <1>0, HeadTailProperties DEF TakeSend, Take
  <2>2. pasting' \in [id : Sessions, send : BOOLEAN] \cup {NoPaste}
    <3>1. CASE pasting.id = Head(commands).id
      <4>1. Head(commands).id \in Sessions BY <1>7, <2>1, CommandKinds DEF TakeSend
      <4>2. pasting # NoPaste BY <3>1, <4>1, Bounds DEF NoPaste
      <4> QED BY <1>7, <1>0, <3>1, <4>2 DEF TakeSend
    <3>2. CASE pasting.id # Head(commands).id BY <1>7, <1>0, <3>2 DEF TakeSend
    <3> QED BY <3>1, <3>2
  <2> QED BY <1>7, <2>1, <2>2, <1>0, SettleTyped DEF TakeSend
<1>8. CASE TakeStop
  <2>1. commands' \in Seq(Commands) BY <1>8, <1>0, HeadTailProperties DEF TakeStop, Take
  <2>2. UNCHANGED <<helper, pasting, ids, wrote, pressed, sends, packets, app>>
    BY <1>8 DEF TakeStop
  <2>3. CASE activation = "listening"
    <3>1. EndSession("release", <<>>) BY <1>8, <2>3 DEF TakeStop
    <3>2. <<>> \in Seq(Messages) /\ "release" \in Reasons BY EmptySeq DEF Reasons
    <3>3. pressed' \in Seq([id : Sessions, ask : Keys]) /\ Len(pressed') <= MaxKeys
      BY <2>2 DEF TypeOK
    <3> QED BY <2>1, <2>2, <3>1, <3>2, <3>3, EndTyped
  <2>4. CASE activation # "listening"
    BY <1>8, <2>1, <2>2, <2>4, <1>0, SettleTyped DEF TakeStop
  <2> QED BY <2>3, <2>4
<1>9. ASSUME NEW ok \in BOOLEAN, pasting # NoPaste, PasteSettles(ok), pasting' = NoPaste,
             UNCHANGED <<commands, helper, live, last, ids, wrote, pressed, packets, app>>
      PROVE  Typed'
  <2>1. pasting.id \in Sessions BY <1>9, FieldTypes
  <2>2. lines' \in Seq(Messages)
    BY <1>9, <2>1, <1>0, MessageKinds, AppendProperties DEF PasteSettles
  <2>3. sends' \in [Sessions -> Nat] BY <1>9, <2>1, <1>0, SendsTyped DEF PasteSettles
  <2>4. activation' \in {activation, Freed} BY <1>9 DEF PasteSettles
  <2> QED BY <1>9, <1>0, <2>2, <2>3, <2>4, SettleTyped, FreedIs
<1>10. ASSUME NEW ok \in BOOLEAN, PasteEnds(ok) PROVE Typed'
  BY <1>9, <1>10 DEF PasteEnds
<1>11. ASSUME NEW ok \in BOOLEAN, TakeInsert(ok) PROVE Typed'
  <2> DEFINE c == Head(commands)
  <2>1. UNCHANGED <<helper, live, last, ids, wrote, pressed, packets, app>> BY <1>11 DEF TakeInsert
  <2>2. CASE pasting # NoPaste BY <1>9, <1>11, <2>1, <2>2 DEF TakeInsert
  <2>3. CASE pasting = NoPaste
    <3>1. c.type = "insert" /\ Take BY <1>11, <2>3 DEF TakeInsert
    <3>2. c \in Commands /\ commands' \in Seq(Commands)
      BY <3>1, <1>0, HeadTailProperties DEF Take
    <3>3. c.id \in Sessions /\ c.send \in BOOLEAN BY <3>1, <3>2, CommandKinds
    <3>4. CASE pasting' = [id |-> c.id, send |-> c.send] /\ UNCHANGED <<lines, sends, activation>>
      <4> HIDE DEF c
      <4> QED BY <2>1, <3>2, <3>3, <3>4, <1>0, SettleTyped
    <3>5. CASE /\ lines' = Append(lines, Outcome(c.id, ok))
               /\ sends' = IF ok /\ c.send THEN [sends EXCEPT ![c.id] = @ + 1] ELSE sends
               /\ activation' = IF c.id = last THEN Freed ELSE activation
               /\ UNCHANGED pasting
      <4> HIDE DEF c
      <4>1. lines' \in Seq(Messages) BY <3>3, <3>5, <1>0, MessageKinds, AppendProperties
      <4>2. sends' \in [Sessions -> Nat] BY <3>3, <3>5, <1>0, SendsTyped
      <4>3. activation' \in {activation, Freed} BY <3>5
      <4> QED BY <2>1, <3>2, <3>5, <4>1, <4>2, <4>3, <1>0, SettleTyped, FreedIs
    <3> QED BY <1>11, <2>3, <3>4, <3>5 DEF TakeInsert
  <2> QED BY <2>2, <2>3
<1>12. ASSUME NEW ok \in BOOLEAN, Stopped(ok) PROVE Typed'
  <2> DEFINE ends == IF live.phase \in {"on", "roll"} THEN <<Ended(live.id, "cancel")>> ELSE <<>>
             pastes == IF pasting # NoPaste THEN <<Outcome(pasting.id, ok)>> ELSE <<>>
  <2>1. ends \in Seq(Messages)
    <3>1. ASSUME live.phase \in {"on", "roll"} PROVE Ended(live.id, "cancel") \in Messages
      BY <3>1, FieldTypes, MessageKinds DEF Reasons
    <3> QED BY <3>1, EmptySeq
  <2>2. pastes \in Seq(Messages)
    <3>1. ASSUME pasting # NoPaste PROVE Outcome(pasting.id, ok) \in Messages
      BY <3>1, FieldTypes, MessageKinds
    <3> QED BY <3>1, EmptySeq
  <2>3. lines' = lines \o ends \o pastes BY <1>12 DEF Stopped
  <2>4. lines' \in Seq(Messages)
    <3> HIDE DEF ends, pastes
    <3> QED BY <2>1, <2>2, <2>3, <1>0, ConcatProperties
  <2>5. sends' \in [Sessions -> Nat]
    <3>1. ASSUME pasting.send PROVE pasting.id \in Sessions BY <3>1, FieldTypes DEF NoPaste
    <3> QED BY <1>12, <3>1, <1>0, SendsTyped DEF Stopped
  <2>6. /\ helper' = "exited" /\ live' = NoLive /\ pasting' = NoPaste /\ activation' = "idle"
        /\ UNCHANGED <<last, ids, wrote, pressed, packets, commands, app>>
    BY <1>12 DEF Stopped
  <2>7. TypeOK' BY <2>4, <2>5, <2>6 DEF TypeOK, NoLive
  <2>8. Numbered' BY <2>6 DEF Numbered
  <2> QED BY <2>7, <2>8
<1> QED BY <1>1, <1>2, <1>3, <1>4, <1>5, <1>6, <1>7, <1>8, <1>10, <1>11, <1>12 DEF Helper

-----------------------------------------------------------------------------
(* What the app makes of what it reads, field by field.                      *)

Fields == {"cur", "early", "latest", "work", "inserts", "late", "asked", "state", "said", "kept"}

(* An app is its fields.                                                     *)
LEMMA AppFields ==
  ASSUME NEW a \in Apps
  PROVE  /\ a.cur \in Curs /\ a.early \in Seq(Packets) /\ a.latest \in Sessions \cup {NoSession}
         /\ a.work \in Seq(Sessions) /\ a.inserts \in SUBSET Sessions /\ a.late \in Seq(Sessions)
         /\ a.asked \in [Sessions -> Keys \cup {"insert"}]
         /\ a.state \in {"starting", "idle", "listening", "transcribing", "inserting"}
         /\ a.said \in [Sessions -> Seq({"started"} \cup Ends)]
         /\ a.kept \in [Sessions -> Seq(Packets)]
         /\ a.cur.id \in Sessions \cup {NoSession} /\ a.cur.chunks \in Seq(Packets)
         /\ a.cur.end \in {"no", "release", "cancel"} /\ a.cur.stopping \in BOOLEAN
         /\ a.cur = NoCur <=> a.cur.id = NoSession
         /\ a.cur.end # "no" => a.cur # NoCur
<1>1. /\ a.cur \in Curs /\ a.early \in Seq(Packets) /\ a.latest \in Sessions \cup {NoSession}
      /\ a.work \in Seq(Sessions) /\ a.inserts \in SUBSET Sessions /\ a.late \in Seq(Sessions)
      /\ a.asked \in [Sessions -> Keys \cup {"insert"}]
      /\ a.state \in {"starting", "idle", "listening", "transcribing", "inserting"}
      /\ a.said \in [Sessions -> Seq({"started"} \cup Ends)]
      /\ a.kept \in [Sessions -> Seq(Packets)]
  BY DEF Apps
<1>2. NoCur.id = 0 /\ NoCur.chunks = <<>> /\ NoCur.end = "no" /\ NoCur.stopping = FALSE
  BY DEF NoCur, NoSession
<1>3. a.cur = NoCur \/ a.cur \in [id : Sessions, chunks : Seq(Packets), end : {"no"} \cup Reasons,
                                  stopping : BOOLEAN]
  BY <1>1 DEF Curs
<1>4. CASE a.cur = NoCur BY <1>1, <1>2, <1>4, EmptySeq DEF NoSession
<1>5. CASE a.cur # NoCur BY <1>1, <1>3, <1>5, Bounds DEF NoSession, Reasons
<1> QED BY <1>4, <1>5

(* A session in the place of the one that listened.                          *)
LEMMA CurKinds ==
  /\ NoCur \in Curs
  /\ \A s \in Sessions, q \in Seq(Packets), e \in {"no"} \cup Reasons, b \in BOOLEAN :
       [id |-> s, chunks |-> q, end |-> e, stopping |-> b] \in Curs
BY DEF Curs

(* settle.                                                                   *)
LEMMA SettleIs ==
  ASSUME NEW a \in Apps
  PROVE  /\ Settle(a) \in Apps
         /\ \A f \in Fields \ {"state"} : Settle(a)[f] = a[f]
         /\ Settle(a).state =
              IF a.cur # NoCur \/ a.state = "starting" THEN a.state
              ELSE IF a.work # <<>> THEN "transcribing"
              ELSE IF a.inserts # {} THEN "inserting" ELSE "idle"
BY DEF Settle, Apps, Fields

LEMMA SaysIs ==
  ASSUME NEW a \in Apps, NEW s \in Sessions, NEW what \in {"started"} \cup Ends
  PROVE  /\ Says(a, s, what) \in Apps
         /\ \A f \in Fields \ {"said"} : Says(a, s, what)[f] = a[f]
         /\ Says(a, s, what).said = [a.said EXCEPT ![s] = Append(a.said[s], what)]
<1>1. a.said \in [Sessions -> Seq({"started"} \cup Ends)] BY AppFields
<1>2. [a.said EXCEPT ![s] = Append(a.said[s], what)] \in [Sessions -> Seq({"started"} \cup Ends)]
  BY <1>1, AppendProperties
<1>3. Says(a, s, what) = [a EXCEPT !.said = [a.said EXCEPT ![s] = Append(a.said[s], what)]]
  BY DEF Says
<1> QED BY <1>1, <1>2, <1>3 DEF Apps, Fields

(* ended.                                                                    *)
LEMMA EndedIs ==
  ASSUME NEW a \in Apps, a.cur.end # "no"
  PROVE  LET s == a.cur.id
             b == EndedCur(a)
             events == IF a.cur.end = "cancel" THEN <<"started", "cancelled">> ELSE <<"started">>
         IN /\ b \in Apps /\ s \in Sessions
            /\ b.cur = NoCur
            /\ b.early = a.early /\ b.inserts = a.inserts /\ b.late = a.late /\ b.asked = a.asked
            /\ b.kept = [a.kept EXCEPT ![s] = a.cur.chunks]
            /\ b.said = [a.said EXCEPT ![s] = a.said[s] \o events]
            /\ IF a.cur.end = "cancel"
               THEN /\ b.work = a.work /\ b.latest = a.latest
                    /\ b.state = IF a.state = "starting" THEN a.state
                                 ELSE IF a.work # <<>> THEN "transcribing"
                                 ELSE IF a.inserts # {} THEN "inserting" ELSE "idle"
               ELSE b.work = Append(a.work, s) /\ b.latest = s /\ b.state = "transcribing"
<1> DEFINE s == a.cur.id
           c == [a EXCEPT !.cur = NoCur, !.kept[s] = a.cur.chunks]
           b == Says(c, s, "started")
<1>1. s \in Sessions /\ a.cur.end \in {"release", "cancel"} BY AppFields
<1>2. /\ c \in Apps /\ c.cur = NoCur
      /\ \A f \in Fields \ {"cur", "kept"} : c[f] = a[f]
      /\ c.kept = [a.kept EXCEPT ![s] = a.cur.chunks]
  <2>1. [a.kept EXCEPT ![s] = a.cur.chunks] \in [Sessions -> Seq(Packets)]
    BY <1>1, AppFields
  <2>2. c = [a EXCEPT !.cur = NoCur, !.kept = [a.kept EXCEPT ![s] = a.cur.chunks]] OBVIOUS
  <2> HIDE DEF s
  <2> QED BY <2>1, <2>2, CurKinds DEF Apps, Fields
<1>3. /\ b \in Apps /\ \A f \in Fields \ {"said"} : b[f] = c[f]
      /\ b.said = [a.said EXCEPT ![s] = Append(a.said[s], "started")]
  <2> HIDE DEF c, s
  <2>1. c.said = a.said BY <1>2 DEF Fields
  <2> QED BY <1>1, <1>2, <2>1, SaysIs
<1>4. a.said \in [Sessions -> Seq({"started"} \cup Ends)] BY AppFields
<1>5. CASE a.cur.end = "cancel"
  <2> DEFINE d == Says(b, s, "cancelled")
  <2>1. EndedCur(a) = Settle(d) BY <1>5 DEF EndedCur
  <2>2. /\ d \in Apps /\ \A f \in Fields \ {"said"} : d[f] = b[f]
        /\ d.said = [b.said EXCEPT ![s] = Append(b.said[s], "cancelled")]
    <3> HIDE DEF b, s
    <3>1. "cancelled" \in {"started"} \cup Ends BY DEF Ends
    <3>2. b \in Apps BY <1>3
    <3> QED BY <1>1, <3>1, <3>2, SaysIs, ZenonT(40)
  <2>3. d.said = [a.said EXCEPT ![s] = a.said[s] \o <<"started", "cancelled">>]
    <3> HIDE DEF b, d, s
    <3>1. b.said[s] = Append(a.said[s], "started") BY <1>1, <1>3, <1>4
    <3>2. Append(Append(a.said[s], "started"), "cancelled") = a.said[s] \o <<"started", "cancelled">>
      BY <1>1, <1>4
    <3> QED BY <1>1, <1>3, <1>4, <2>2, <3>1, <3>2
  <2> HIDE DEF b, c, d
  <2> QED BY <1>1, <1>2, <1>3, <1>5, <2>1, <2>2, <2>3, SettleIs DEF Fields
<1>6. CASE a.cur.end # "cancel"
  <2>1. EndedCur(a) = [b EXCEPT !.work = Append(@, s), !.latest = s, !.state = "transcribing"]
    BY <1>6 DEF EndedCur
  <2>2. a.said[s] \o <<"started">> = Append(a.said[s], "started") BY <1>1, <1>4, AppendIsConcat
  <2>3. b.work = a.work /\ a.work \in Seq(Sessions)
    <3> HIDE DEF b, c
    <3> QED BY <1>2, <1>3, AppFields DEF Fields
  <2>4. Append(a.work, s) \in Seq(Sessions) BY <2>3, <1>1, AppendProperties
  <2> HIDE DEF b, c, s
  <2>5. EndedCur(a) \in Apps
    <3>1. b \in Apps /\ [b EXCEPT !.work = Append(@, s)].work = Append(a.work, s)
      BY <1>3, <2>3 DEF Apps
    <3>2. EndedCur(a) = [b EXCEPT !.work = Append(a.work, s), !.latest = s, !.state = "transcribing"]
      BY <2>1, <2>3
    <3> QED BY <3>1, <3>2, <2>4, <1>1 DEF Apps
  <2>6. /\ EndedCur(a).work = Append(a.work, s) /\ EndedCur(a).latest = s
        /\ EndedCur(a).state = "transcribing"
        /\ \A f \in Fields \ {"work", "latest", "state"} : EndedCur(a)[f] = b[f]
    BY <2>1, <2>3, <1>3 DEF Apps, Fields
  <2> QED BY <1>1, <1>2, <1>3, <1>6, <2>2, <2>5, <2>6 DEF Fields, s
<1> QED BY <1>5, <1>6

(* session.started.                                                          *)
LEMMA StartedIs ==
  ASSUME NEW a \in Apps, NEW s \in Sessions
  PROVE  LET b == IF a.cur.end # "no" THEN EndedCur(a) ELSE a
             c == StartedNow(a, s)
         IN /\ b \in Apps /\ c \in Apps
            /\ c.cur.id = s /\ c.cur.chunks = a.early /\ c.cur.end = "no"
            /\ c.early = <<>> /\ c.state = "listening"
            /\ \A f \in Fields \ {"cur", "early", "state"} : c[f] = b[f]
<1> DEFINE b == IF a.cur.end # "no" THEN EndedCur(a) ELSE a
           cur == [NoCur EXCEPT !.id = s, !.chunks = a.early]
<1>1. b \in Apps BY EndedIs
<1>2. cur \in Curs /\ cur.id = s /\ cur.chunks = a.early /\ cur.end = "no"
  <2>1. NoCur \in [id : {0}, chunks : {<<>>}, end : {"no"}, stopping : {FALSE}]
    BY DEF NoCur, NoSession
  <2>2. a.early \in Seq(Packets) BY AppFields
  <2>3. cur \in [id : Sessions, chunks : Seq(Packets), end : {"no"} \cup Reasons, stopping : BOOLEAN]
    BY <2>1, <2>2
  <2> QED BY <2>1, <2>3 DEF Curs
<1>3. StartedNow(a, s) = [b EXCEPT !.cur = cur, !.early = <<>>, !.state = "listening"]
  BY DEF StartedNow
<1>4. <<>> \in Seq(Packets) BY EmptySeq
<1> HIDE DEF b, cur
<1>5. StartedNow(a, s) \in Apps BY <1>1, <1>2, <1>3, <1>4 DEF Apps
<1>6. /\ StartedNow(a, s).cur = cur /\ StartedNow(a, s).early = <<>>
      /\ StartedNow(a, s).state = "listening"
      /\ \A f \in Fields \ {"cur", "early", "state"} : StartedNow(a, s)[f] = b[f]
  BY <1>1, <1>3 DEF Apps, Fields
<1> QED BY <1>1, <1>2, <1>5, <1>6 DEF b

(* onPacket.                                                                 *)
LEMMA HeardIs ==
  ASSUME NEW a \in Apps, NEW p \in Packets
  PROVE  LET b == IF a.cur.end # "no" /\ a.cur.chunks # <<>> /\ p.n = 0 THEN EndedCur(a) ELSE a
             c == Heard(a, p)
         IN /\ b \in Apps /\ c \in Apps
            /\ IF b.cur # NoCur
               THEN /\ c.cur = [b.cur EXCEPT !.chunks = Append(b.cur.chunks, p)] /\ c.early = b.early
               ELSE /\ c.cur = NoCur
                    /\ c.early = IF p.n = 0 THEN <<p>>
                                 ELSE IF b.early = <<>> THEN b.early ELSE Append(b.early, p)
            /\ \A f \in Fields \ {"cur", "early"} : c[f] = b[f]
<1> DEFINE b == IF a.cur.end # "no" /\ a.cur.chunks # <<>> /\ p.n = 0 THEN EndedCur(a) ELSE a
           c == Heard(a, p)
<1>1. b \in Apps BY EndedIs
<1>2. c = IF b.cur # NoCur THEN [b EXCEPT !.cur.chunks = Append(@, p)]
          ELSE IF p.n = 0 THEN [b EXCEPT !.early = <<p>>]
          ELSE IF b.early = <<>> THEN b
          ELSE [b EXCEPT !.early = Append(@, p)]
  BY DEF Heard
<1> HIDE DEF b, c
<1>3. CASE b.cur # NoCur
  <2>1. b.cur \in [id : Sessions, chunks : Seq(Packets), end : {"no"} \cup Reasons,
                   stopping : BOOLEAN]
    BY <1>1, <1>3, AppFields DEF Curs
  <2> DEFINE q == Append(b.cur.chunks, p)
  <2>2. q \in Seq(Packets) BY <2>1, AppendProperties
  <2>3. c = [b EXCEPT !.cur = [b.cur EXCEPT !.chunks = q]] BY <1>2, <1>3
  <2> HIDE DEF q
  <2>4. [b.cur EXCEPT !.chunks = q] \in Curs BY <2>1, <2>2 DEF Curs
  <2>5. c \in Apps BY <1>1, <2>3, <2>4 DEF Apps
  <2>6. /\ c.cur = [b.cur EXCEPT !.chunks = q]
        /\ \A f \in Fields \ {"cur"} : c[f] = b[f]
    BY <1>1, <2>3 DEF Apps, Fields
  <2> QED BY <1>1, <1>3, <2>5, <2>6 DEF b, c, q, Fields
<1>4. CASE b.cur = NoCur
  <2> DEFINE q == IF p.n = 0 THEN <<p>> ELSE IF b.early = <<>> THEN b.early ELSE Append(b.early, p)
  <2>1. q \in Seq(Packets)
    <3>1. b.early \in Seq(Packets) BY <1>1, AppFields
    <3>2. Append(b.early, p) \in Seq(Packets) BY <3>1, AppendProperties
    <3> QED BY <3>1, <3>2
  <2>2. c = [b EXCEPT !.early = q]
    <3>1. b = [b EXCEPT !.early = b.early] BY <1>1 DEF Apps
    <3> QED BY <3>1, <1>2, <1>4
  <2> HIDE DEF q
  <2>3. c \in Apps BY <1>1, <2>1, <2>2 DEF Apps
  <2>4. c.early = q /\ \A f \in Fields \ {"early"} : c[f] = b[f]
    BY <1>1, <2>2 DEF Apps, Fields
  <2> QED BY <1>1, <1>4, <2>3, <2>4 DEF b, c, q, Fields
<1> QED BY <1>3, <1>4

(* inserted, insert.failed, of a text that is under way.                     *)
LEMMA AnsweredIs ==
  ASSUME NEW a \in Apps, NEW s \in Sessions, NEW what \in Ends, s \in a.inserts, NEW b,
         b = Answered(a, s, what)
  PROVE  /\ b \in Apps /\ b.inserts = a.inserts \ {s} /\ b.late = RemoveFirst(a.late, s)
         /\ b.said = [a.said EXCEPT ![s] = Append(a.said[s], what)]
         /\ b.state = IF a.cur # NoCur \/ a.state = "starting" THEN a.state
                      ELSE IF a.work # <<>> THEN "transcribing"
                      ELSE IF a.inserts \ {s} # {} THEN "inserting" ELSE "idle"
         /\ \A f \in Fields \ {"inserts", "late", "said", "state"} : b[f] = a[f]
<1> DEFINE c == [a EXCEPT !.inserts = a.inserts \ {s}, !.late = RemoveFirst(a.late, s)]
           d == Says(c, s, what)
<1>1. RemoveFirst(a.late, s) \in Seq(Sessions) BY AppFields, FirstRemoved
<1>2. a.inserts \ {s} \in SUBSET Sessions BY AppFields
<1>3. /\ c \in Apps /\ c.inserts = a.inserts \ {s} /\ c.late = RemoveFirst(a.late, s)
      /\ \A f \in Fields \ {"inserts", "late"} : c[f] = a[f]
  BY <1>1, <1>2 DEF Apps, Fields
<1>4. Answered(a, s, what) = Settle(d) BY DEF Answered
<1> HIDE DEF c
<1>5. /\ d \in Apps /\ \A f \in Fields \ {"said"} : d[f] = c[f]
      /\ d.said = [c.said EXCEPT ![s] = Append(c.said[s], what)]
  <2>1. what \in {"started"} \cup Ends /\ c \in Apps BY <1>3
  <2> QED BY <2>1, SaysIs
<1> HIDE DEF d
<1>6. /\ d.said = [a.said EXCEPT ![s] = Append(a.said[s], what)]
      /\ d.inserts = a.inserts \ {s} /\ d.late = RemoveFirst(a.late, s)
      /\ \A f \in Fields \ {"inserts", "late", "said"} : d[f] = a[f]
  BY <1>3, <1>5 DEF Fields
<1>7. /\ Settle(d) \in Apps /\ \A f \in Fields \ {"state"} : Settle(d)[f] = d[f]
      /\ Settle(d).state =
            IF d.cur # NoCur \/ d.state = "starting" THEN d.state
            ELSE IF d.work # <<>> THEN "transcribing"
            ELSE IF d.inserts # {} THEN "inserting" ELSE "idle"
  BY <1>5, SettleIs
<1> DEFINE e == Settle(d)
<1>8. /\ e.inserts = a.inserts \ {s} /\ e.late = RemoveFirst(a.late, s) /\ e.said = d.said
      /\ \A f \in Fields \ {"inserts", "late", "said", "state"} : e[f] = a[f]
  <2> HIDE DEF e
  <2> QED BY <1>6, <1>7 DEF Fields, e
<1>9. d.cur = a.cur /\ d.state = a.state /\ d.work = a.work BY <1>6 DEF Fields
<1> QED BY <1>4, <1>6, <1>7, <1>8, <1>9

(* helperGone.                                                               *)
LEMMA GoneIs ==
  ASSUME NEW a \in Apps
  PROVE  LET b == Gone(a)
         IN /\ b \in Apps
            /\ b.cur = NoCur /\ b.latest = NoSession /\ b.early = <<>> /\ b.inserts = {}
            /\ b.late = <<>> /\ b.state = "starting" /\ b.work = a.work /\ b.asked = a.asked
            /\ b.kept = IF a.cur = NoCur THEN a.kept ELSE [a.kept EXCEPT ![a.cur.id] = a.cur.chunks]
            /\ \A s \in Sessions :
                 LET said == IF a.cur # NoCur /\ a.cur.id = s
                             THEN a.said[s] \o <<"started", "aside">> ELSE a.said[s]
                 IN b.said[s] = IF s \in a.inserts THEN Append(said, "aside") ELSE said
<1> DEFINE k == [a EXCEPT !.kept[a.cur.id] = a.cur.chunks]
           t == a.cur.id
           c == Says(k, t, "started")
           d == Says(c, t, "aside")
           b == IF a.cur = NoCur THEN a ELSE d
           said == [s \in Sessions |-> IF s \in a.inserts THEN Append(b.said[s], "aside") ELSE b.said[s]]
<1>0. a.said \in [Sessions -> Seq({"started"} \cup Ends)] /\ a.kept \in [Sessions -> Seq(Packets)]
  BY AppFields
<1>1. a.cur # NoCur =>
        /\ d \in Apps /\ a.cur.id \in Sessions
        /\ d.kept = [a.kept EXCEPT ![a.cur.id] = a.cur.chunks]
        /\ d.said = [a.said EXCEPT ![a.cur.id] = a.said[a.cur.id] \o <<"started", "aside">>]
        /\ \A f \in Fields \ {"kept", "said"} : d[f] = a[f]
  <2> SUFFICES ASSUME a.cur # NoCur
               PROVE  /\ d \in Apps /\ a.cur.id \in Sessions
                      /\ d.kept = [a.kept EXCEPT ![a.cur.id] = a.cur.chunks]
                      /\ d.said = [a.said EXCEPT ![a.cur.id] = a.said[a.cur.id] \o <<"started", "aside">>]
                      /\ \A f \in Fields \ {"kept", "said"} : d[f] = a[f]
    OBVIOUS
  <2>1. t \in Sessions /\ a.cur.chunks \in Seq(Packets) BY AppFields
  <2>2. k \in Apps /\ k.kept = [a.kept EXCEPT ![t] = a.cur.chunks]
        /\ \A f \in Fields \ {"kept"} : k[f] = a[f]
    <3>1. [a.kept EXCEPT ![a.cur.id] = a.cur.chunks] \in [Sessions -> Seq(Packets)]
      BY <2>1, <1>0
    <3>2. k = [a EXCEPT !.kept = [a.kept EXCEPT ![a.cur.id] = a.cur.chunks]] OBVIOUS
    <3> QED BY <3>1, <3>2 DEF Apps, Fields
  <2> HIDE DEF k, t
  <2>3. /\ c \in Apps /\ \A f \in Fields \ {"said"} : c[f] = k[f]
        /\ c.said = [k.said EXCEPT ![t] = Append(k.said[t], "started")]
    BY <2>1, <2>2, SaysIs
  <2> HIDE DEF c
  <2>4. "aside" \in {"started"} \cup Ends BY DEF Ends
  <2>5. /\ d \in Apps /\ \A f \in Fields \ {"said"} : d[f] = c[f]
        /\ d.said = [c.said EXCEPT ![t] = Append(c.said[t], "aside")]
    <3>1. c \in Apps BY <2>3
    <3> QED BY <2>1, <3>1, <2>4, SaysIs
  <2>6. k.said = a.said BY <2>2 DEF Fields
  <2>7. c.said[t] = Append(a.said[t], "started") BY <2>1, <2>3, <2>6, <1>0
  <2>8. Append(Append(a.said[t], "started"), "aside") = a.said[t] \o <<"started", "aside">>
    <3>1. a.said[t] \in Seq({"started"} \cup Ends) BY <2>1, <1>0
    <3>2. \A q \in Seq({"started"} \cup Ends) :
            Append(Append(q, "started"), "aside") = q \o <<"started", "aside">>
      OBVIOUS
    <3> QED BY <3>1, <3>2
  <2>9. d.said = [a.said EXCEPT ![t] = a.said[t] \o <<"started", "aside">>]
    <3> HIDE DEF d
    <3> QED BY <2>1, <2>3, <2>5, <2>6, <2>7, <2>8, <1>0
  <2> HIDE DEF d
  <2> QED BY <2>1, <2>2, <2>3, <2>5, <2>9 DEF Fields, t
<1> HIDE DEF d, t
<1>2. b \in Apps BY <1>1
<1>3. said \in [Sessions -> Seq({"started"} \cup Ends)]
  <2>1. ASSUME NEW s \in Sessions PROVE said[s] \in Seq({"started"} \cup Ends)
    <3>1. b.said[s] \in Seq({"started"} \cup Ends) BY <1>2, AppFields
    <3>2. "aside" \in {"started"} \cup Ends BY DEF Ends
    <3>3. Append(b.said[s], "aside") \in Seq({"started"} \cup Ends) BY <3>1, <3>2, AppendProperties
    <3> QED BY <3>1, <3>3
  <2> QED BY <2>1
<1>4. Gone(a) = [b EXCEPT !.cur = NoCur, !.latest = NoSession, !.early = <<>>, !.inserts = {},
                          !.late = <<>>, !.state = "starting", !.said = said]
  BY DEF Gone, d, c, k, t
<1>5. <<>> \in Seq(Packets) /\ <<>> \in Seq(Sessions) BY EmptySeq
<1>6. \A s \in Sessions : said[s] = IF s \in a.inserts THEN Append(b.said[s], "aside") ELSE b.said[s]
  OBVIOUS
<1> HIDE DEF said, b
<1>7. Gone(a) \in Apps BY <1>2, <1>3, <1>4, <1>5, CurKinds DEF Apps
<1>8. /\ Gone(a).cur = NoCur /\ Gone(a).latest = NoSession /\ Gone(a).early = <<>>
      /\ Gone(a).inserts = {} /\ Gone(a).late = <<>> /\ Gone(a).state = "starting"
      /\ Gone(a).said = said
      /\ Gone(a).work = b.work /\ Gone(a).asked = b.asked /\ Gone(a).kept = b.kept
  BY <1>2, <1>4 DEF Apps
<1>9. /\ b.work = a.work /\ b.asked = a.asked
      /\ b.kept = IF a.cur = NoCur THEN a.kept ELSE [a.kept EXCEPT ![a.cur.id] = a.cur.chunks]
  BY <1>1 DEF b, Fields
<1>10. \A s \in Sessions : b.said[s] = IF a.cur # NoCur /\ a.cur.id = s
                                       THEN a.said[s] \o <<"started", "aside">> ELSE a.said[s]
  BY <1>0, <1>1 DEF b
<1> QED BY <1>6, <1>7, <1>8, <1>9, <1>10

(* ended, read while the session listens; the session asked to stop.         *)
LEMMA CurIs ==
  ASSUME NEW a \in Apps, a.cur # NoCur, NEW e \in {"no"} \cup Reasons, NEW stop \in BOOLEAN
  PROVE  LET b == [a EXCEPT !.cur = [a.cur EXCEPT !.end = e, !.stopping = stop]]
         IN /\ b \in Apps /\ b.cur # NoCur
            /\ b.cur.id = a.cur.id /\ b.cur.chunks = a.cur.chunks /\ b.cur.end = e
            /\ \A f \in Fields \ {"cur"} : b[f] = a[f]
<1> DEFINE cur == [a.cur EXCEPT !.end = e, !.stopping = stop]
<1>1. a.cur \in [id : Sessions, chunks : Seq(Packets), end : {"no"} \cup Reasons, stopping : BOOLEAN]
  BY AppFields DEF Curs
<1>2. /\ cur \in [id : Sessions, chunks : Seq(Packets), end : {"no"} \cup Reasons, stopping : BOOLEAN]
      /\ cur.id = a.cur.id /\ cur.chunks = a.cur.chunks /\ cur.end = e
  BY <1>1
<1> HIDE DEF cur
<1>3. cur \in Curs /\ cur # NoCur BY <1>2, Bounds DEF Curs, NoCur
<1>4. [a EXCEPT !.cur = cur] \in Apps BY <1>3 DEF Apps
<1>5. [a EXCEPT !.cur = cur].cur = cur /\ \A f \in Fields \ {"cur"} : [a EXCEPT !.cur = cur][f] = a[f]
  BY DEF Apps, Fields
<1> QED BY <1>2, <1>3, <1>4, <1>5 DEF cur

(* key, for a session.                                                       *)
LEMMA AskedIs ==
  ASSUME NEW a \in Apps, NEW s \in Sessions, NEW ask \in Keys
  PROVE  LET b == [a EXCEPT !.asked[s] = ask]
         IN /\ b \in Apps /\ b.asked = [a.asked EXCEPT ![s] = ask]
            /\ \A f \in Fields \ {"asked"} : b[f] = a[f]
<1>1. [a.asked EXCEPT ![s] = ask] \in [Sessions -> Keys \cup {"insert"}] BY AppFields
<1>2. [a EXCEPT !.asked[s] = ask] = [a EXCEPT !.asked = [a.asked EXCEPT ![s] = ask]] OBVIOUS
<1> QED BY <1>1, <1>2 DEF Apps, Fields

(* key, for a text that went out.                                            *)
LEMMA LateIs ==
  ASSUME NEW a \in Apps, a.late # <<>>
  PROVE  LET b == [a EXCEPT !.late = Front(a.late)]
         IN /\ b \in Apps /\ Last(a.late) \in Range(a.late) /\ Range(a.late) \subseteq Sessions
            /\ Range(b.late) \subseteq Range(a.late)
            /\ \A f \in Fields \ {"late"} : b[f] = a[f]
<1> DEFINE q == a.late
<1>1. q \in Seq(Sessions) /\ q # <<>> BY AppFields
<1>2. Len(q) \in Nat \ {0} /\ \A i \in 1..Len(q) : q[i] \in Range(q)
  BY <1>1, EmptySeq, RangeEquality
<1>3. Range(q) \subseteq Sessions BY <1>1, RangeOfSeq
<1>4. SubSeq(q, 1, Len(q) - 1) \in Seq(Range(q))
  <2>1. \A i \in 1..Len(q) - 1 : q[i] \in Range(q) BY <1>2
  <2>2. 1 \in Int /\ Len(q) - 1 \in Int BY <1>2
  <2> HIDE DEF q
  <2> QED BY <2>1, <2>2, SubSeqProperties
<1>5. Front(q) \in Seq(Range(q)) /\ Last(q) \in Range(q) BY <1>2, <1>4 DEF Front, Last
<1>6. Range(Front(q)) \subseteq Range(q) /\ Front(q) \in Seq(Sessions)
  <2> HIDE DEF q
  <2> QED BY <1>3, <1>5, RangeOfSeq, SeqMonotonic
<1> HIDE DEF q
<1>7. [a EXCEPT !.late = Front(q)] \in Apps BY <1>6 DEF Apps
<1>8. [a EXCEPT !.late = Front(q)].late = Front(q)
  BY DEF Apps
<1>9. \A f \in Fields \ {"late"} : [a EXCEPT !.late = Front(q)][f] = a[f] BY DEF Apps, Fields
<1> QED BY <1>3, <1>5, <1>6, <1>7, <1>8, <1>9 DEF q

(* transcribe: the dictation whose decode ends, and what it becomes.         *)
LEMMA DecodedIs ==
  ASSUME NEW a \in Apps, a.work # <<>>
  PROVE  LET s == Head(a.work)
             b == Decoded(a, s)
         IN /\ s \in Sessions /\ b \in Apps
            /\ b.work = Tail(a.work)
            /\ b.latest = IF a.latest = s THEN NoSession ELSE a.latest
            /\ \A f \in Fields \ {"work", "latest"} : b[f] = a[f]
<1> DEFINE s == Head(a.work)
<1>1. s \in Sessions /\ Tail(a.work) \in Seq(Sessions) BY AppFields, HeadTailProperties
<1>2. Decoded(a, s) = [a EXCEPT !.work = Tail(a.work),
                                !.latest = IF a.latest = s THEN NoSession ELSE a.latest]
  BY DEF Decoded
<1> HIDE DEF s
<1>3. a.latest \in Sessions \cup {NoSession} BY AppFields
<1>4. (IF a.latest = s THEN NoSession ELSE a.latest) \in Sessions \cup {NoSession} BY <1>3
<1>5. Decoded(a, s) \in Apps BY <1>1, <1>2, <1>4 DEF Apps
<1>6. /\ Decoded(a, s).work = Tail(a.work)
      /\ Decoded(a, s).latest = IF a.latest = s THEN NoSession ELSE a.latest
      /\ \A f \in Fields \ {"work", "latest"} : Decoded(a, s)[f] = a[f]
  BY <1>2 DEF Apps, Fields
<1> QED BY <1>1, <1>5, <1>6 DEF s

(* A text goes out, and what may get its send key later.                     *)
LEMMA LateSendsIs ==
  ASSUME NEW a \in Apps, NEW s \in Sessions, NEW send \in BOOLEAN
  PROVE  /\ LateSends(a, s, send) \in Seq(Sessions)
         /\ Range(LateSends(a, s, send)) \subseteq Range(a.late) \cup {s}
<1>1. a.late \in Seq(Sessions) BY AppFields
<1>2. /\ Append(a.late, s) \in Seq(Sessions)
      /\ Range(Append(a.late, s)) = Range(a.late) \cup {s}
  BY <1>1, PipeWritten
<1> QED BY <1>1, <1>2 DEF LateSends

(* A decode ends.                                                            *)
LEMMA DecodeEndsIs ==
  ASSUME app \in Apps, NEW words \in BOOLEAN, NEW clipboard \in BOOLEAN,
         DecodeEnds(words, clipboard)
  PROVE  LET s == Head(app.work)
             b == app'
         IN /\ app.work # <<>> /\ s \in Sessions
            /\ UNCHANGED <<helperVars, lines, packets>>
            /\ b \in Apps /\ b.work = Tail(app.work)
            /\ b.latest = IF app.latest = s THEN NoSession ELSE app.latest
            /\ \A f \in {"cur", "early", "kept", "asked"} : b[f] = app[f]
            /\ \/ /\ \E send \in BOOLEAN : /\ send => app.asked[s] = "send"
                                         /\ Send([type |-> "insert", id |-> s, send |-> send])
                  /\ b.inserts = app.inserts \cup {s} /\ Range(b.late) \subseteq Range(app.late) \cup {s}
                  /\ b.said = app.said
               \/ /\ Send([type |-> "settled", id |-> s])
                  /\ b.inserts = app.inserts /\ b.late = app.late
                  /\ \E what \in Ends : b.said = [app.said EXCEPT ![s] = Append(app.said[s], what)]
            /\ b.state = IF app.cur # NoCur \/ app.state = "starting" THEN app.state
                         ELSE IF b.work # <<>> THEN "transcribing"
                         ELSE IF b.inserts # {} THEN "inserting" ELSE "idle"
<1> DEFINE s == Head(app.work)
           a == Decoded(app, s)
           send == app.asked[s] = "send" /\ ~clipboard
           c == [a EXCEPT !.inserts = @ \cup {s},
                          !.late = IF clipboard THEN @ ELSE LateSends(a, s, send)]
           what == IF words /\ app.asked[s] = "cancel" THEN "cancelled" ELSE "aside"
           d == Says(a, s, what)
<1>1. app.work # <<>> /\ UNCHANGED <<helperVars, lines, packets>> BY DEF DecodeEnds
<1>2. /\ \/ app' = Settle(c) /\ Send([type |-> "insert", id |-> s, send |-> send])
         \/ app' = Settle(d) /\ Send([type |-> "settled", id |-> s])
      /\ send \in BOOLEAN /\ (send => app.asked[s] = "send")
  BY DEF DecodeEnds
<1>3. /\ s \in Sessions /\ a \in Apps /\ a.work = Tail(app.work)
      /\ a.latest = IF app.latest = s THEN NoSession ELSE app.latest
      /\ \A f \in Fields \ {"work", "latest"} : a[f] = app[f]
  BY <1>1, DecodedIs
<1>4. what \in Ends /\ what \in {"started"} \cup Ends BY DEF Ends
<1> HIDE DEF s, a, what, send
<1>5. /\ Settle(c) \in Apps /\ Settle(c).inserts = a.inserts \cup {s}
      /\ Range(Settle(c).late) \subseteq Range(a.late) \cup {s}
      /\ Settle(c).state = IF a.cur # NoCur \/ a.state = "starting" THEN a.state
                           ELSE IF a.work # <<>> THEN "transcribing" ELSE "inserting"
      /\ \A f \in Fields \ {"inserts", "late", "state"} : Settle(c)[f] = a[f]
  <2> DEFINE late == IF clipboard THEN a.late ELSE LateSends(a, s, send)
  <2>1. s \in Sessions /\ a \in Apps /\ send \in BOOLEAN BY <1>2, <1>3
  <2>2. late \in Seq(Sessions) /\ Range(late) \subseteq Range(a.late) \cup {s}
    BY <2>1, AppFields, LateSendsIs
  <2>3. c = [a EXCEPT !.inserts = a.inserts \cup {s}, !.late = late] OBVIOUS
  <2> HIDE DEF late, c
  <2>4. a.inserts \cup {s} \in SUBSET Sessions BY <2>1, AppFields
  <2>5. c \in Apps /\ c.inserts = a.inserts \cup {s} /\ c.late = late
    BY <2>1, <2>2, <2>3, <2>4 DEF Apps
  <2>6. \A f \in Fields \ {"inserts", "late"} : c[f] = a[f] BY <2>1, <2>3 DEF Apps, Fields
  <2>7. /\ Settle(c) \in Apps
        /\ \A f \in Fields \ {"state"} : Settle(c)[f] = c[f]
        /\ Settle(c).state =
             IF c.cur # NoCur \/ c.state = "starting" THEN c.state
             ELSE IF c.work # <<>> THEN "transcribing"
             ELSE IF c.inserts # {} THEN "inserting" ELSE "idle"
    BY <2>5, SettleIs
  <2>8. c.cur = a.cur /\ c.state = a.state /\ c.work = a.work BY <2>6 DEF Fields
  <2> DEFINE b == Settle(c)
  <2> HIDE DEF b
  <2>9. b.inserts = a.inserts \cup {s} /\ b.late = late BY <2>5, <2>7 DEF Fields, b
  <2>10. b.state = IF a.cur # NoCur \/ a.state = "starting" THEN a.state
                   ELSE IF a.work # <<>> THEN "transcribing" ELSE "inserting"
    BY <2>5, <2>7, <2>8 DEF b
  <2>11. \A f \in Fields \ {"inserts", "late", "state"} : b[f] = a[f] BY <2>6, <2>7 DEF Fields, b
  <2> QED BY <2>2, <2>7, <2>9, <2>10, <2>11 DEF b
<1>6. /\ d \in Apps /\ d.said = [a.said EXCEPT ![s] = Append(a.said[s], what)]
      /\ \A f \in Fields \ {"said"} : d[f] = a[f]
  <2>1. s \in Sessions /\ a \in Apps BY <1>3
  <2>3. Says(a, s, what) \in Apps BY <2>1, <1>4, SaysIs
  <2>4. Says(a, s, what).said = [a.said EXCEPT ![s] = Append(a.said[s], what)]
    BY <2>1, <1>4, SaysIs
  <2>5. \A f \in Fields \ {"said"} : Says(a, s, what)[f] = a[f] BY <2>1, <1>4, SaysIs
  <2> QED BY <2>3, <2>4, <2>5
<1> HIDE DEF c, d
<1>7. /\ Settle(d) \in Apps
      /\ \A f \in Fields \ {"state"} : Settle(d)[f] = d[f]
      /\ Settle(d).state =
           IF d.cur # NoCur \/ d.state = "starting" THEN d.state
           ELSE IF d.work # <<>> THEN "transcribing"
           ELSE IF d.inserts # {} THEN "inserting" ELSE "idle"
  BY <1>6, SettleIs
<1>8. CASE app' = Settle(c) /\ Send([type |-> "insert", id |-> s, send |-> send])
  <2>1. /\ app' \in Apps /\ app'.work = Tail(app.work) /\ app'.latest = a.latest
        /\ \A f \in {"cur", "early", "kept", "asked"} : app'[f] = app[f]
        /\ app'.inserts = app.inserts \cup {s} /\ Range(app'.late) \subseteq Range(app.late) \cup {s}
        /\ app'.said = app.said
    BY <1>3, <1>5, <1>8 DEF Fields
  <2>2. app'.state = IF app.cur # NoCur \/ app.state = "starting" THEN app.state
                     ELSE IF app'.work # <<>> THEN "transcribing"
                     ELSE IF app'.inserts # {} THEN "inserting" ELSE "idle"
    BY <1>3, <1>5, <1>8, <2>1 DEF Fields
  <2> QED BY <1>1, <1>2, <1>3, <1>8, <2>1, <2>2 DEF s
<1>9. CASE app' = Settle(d) /\ Send([type |-> "settled", id |-> s])
  <2>1. /\ app' \in Apps /\ app'.work = Tail(app.work) /\ app'.latest = a.latest
        /\ \A f \in {"cur", "early", "kept", "asked"} : app'[f] = app[f]
        /\ app'.inserts = app.inserts /\ app'.late = app.late
        /\ app'.said = [app.said EXCEPT ![s] = Append(app.said[s], what)]
    BY <1>3, <1>6, <1>7, <1>9 DEF Fields
  <2>2. /\ d.cur = app.cur /\ d.state = app.state /\ d.work = app'.work /\ d.inserts = app'.inserts
        /\ app'.state = Settle(d).state
    BY <1>3, <1>6, <1>9, <2>1 DEF Fields
  <2>3. app'.state = IF app.cur # NoCur \/ app.state = "starting" THEN app.state
                     ELSE IF app'.work # <<>> THEN "transcribing"
                     ELSE IF app'.inserts # {} THEN "inserting" ELSE "idle"
    BY <1>7, <2>2
  <2> QED BY <1>1, <1>2, <1>3, <1>4, <1>9, <2>1, <2>3 DEF s
<1> QED BY <1>2, <1>8, <1>9

-----------------------------------------------------------------------------
(* What a step reads or sends leaves the types as they are.                  *)
LEMMA AppTyped ==
  ASSUME Typed, App
  PROVE  Typed'
<1> USE DEF Typed
<1>0. /\ lines \in Seq(Messages) /\ packets \in Seq(Packets) /\ commands \in Seq(Commands)
      /\ app \in Apps
  BY DEF TypeOK
<1>1. ASSUME UNCHANGED helperVars, lines' \in Seq(Messages), packets' \in Seq(Packets),
             commands' \in Seq(Commands), app' \in Apps
      PROVE  Typed'
  <2>1. TypeOK' BY <1>1 DEF TypeOK, helperVars
  <2>2. Numbered' BY <1>1 DEF Numbered, KeyFor, helperVars
  <2> QED BY <2>1, <2>2
<1>2. ASSUME NEW type, Read(type)
      PROVE  Head(lines) \in Messages /\ lines' \in Seq(Messages)
  BY <1>0, <1>2, HeadTailProperties DEF Read
<1>3. ASSUME NEW c \in Commands, Send(c) PROVE commands' \in Seq(Commands)
  <2>1. Append(commands, c) \in Seq(Commands) BY <1>0, AppendProperties
  <2> QED BY <1>0, <1>3, <2>1 DEF Send
<1>4. CASE ReadStarted
  <2>1. Head(lines).id \in Sessions /\ lines' \in Seq(Messages)
    BY <1>2, <1>4, MessageKinds DEF ReadStarted
  <2>2. StartedNow(app, Head(lines).id) \in Apps BY <1>0, <2>1, StartedIs
  <2> QED BY <1>0, <1>1, <1>4, <2>1, <2>2 DEF ReadStarted
<1>5. CASE ReadEnded
  <2> DEFINE m == Head(lines)
  <2>1. m \in Messages /\ m.type = "ended" /\ lines' \in Seq(Messages)
    BY <1>2, <1>5 DEF ReadEnded, Read
  <2>2. m.id \in Sessions /\ m.reason \in Reasons BY <2>1, MessageKinds
  <2>3. app' \in Apps
    <3>1. CASE app.cur.id = m.id /\ app.cur.end = "no"
      <4>1. app' = [app EXCEPT !.cur.end = m.reason] BY <1>5, <3>1 DEF ReadEnded
      <4> HIDE DEF m
      <4>2. app.cur # NoCur /\ app.cur.stopping \in BOOLEAN BY <1>0, <2>2, <3>1, AppFields, Bounds
      <4>3. [app.cur EXCEPT !.end = m.reason] \in Curs
        BY <1>0, <2>2, <4>2, AppFields DEF Curs
      <4>4. app' = [app EXCEPT !.cur = [app.cur EXCEPT !.end = m.reason]] BY <4>1
      <4> QED BY <1>0, <4>3, <4>4 DEF Apps
    <3>2. CASE ~(app.cur.id = m.id /\ app.cur.end = "no")
      BY <1>0, <1>5, <3>2 DEF ReadEnded
    <3> QED BY <3>1, <3>2
  <2> QED BY <1>0, <1>1, <1>5, <2>1, <2>3 DEF ReadEnded
<1>6. CASE ReadAnswer
  <2>1. Head(lines).id \in Sessions /\ lines' \in Seq(Messages)
    BY <1>2, <1>6, MessageKinds DEF ReadAnswer
  <2>2. /\ Answered(app, Head(lines).id, "inserted") \in Apps
        /\ Answered(app, Head(lines).id, "aside") \in Apps
    <3>1. ASSUME NEW s \in Sessions, NEW what \in Ends PROVE Answered(app, s, what) \in Apps
      <4>1. CASE s \in app.inserts BY <1>0, <4>1, AnsweredIs
      <4>2. CASE s \notin app.inserts BY <1>0, <4>2 DEF Answered
      <4> QED BY <4>1, <4>2
    <3> QED BY <2>1, <3>1 DEF Ends
  <2> QED BY <1>0, <1>1, <1>6, <2>1, <2>2 DEF ReadAnswer
<1>7. CASE ReadKey
  <2> DEFINE owner == KeyOwner(app)
             ask == Head(lines).ask
  <2>1. ask \in Keys /\ lines' \in Seq(Messages)
    BY <1>2, <1>7, MessageKinds DEF ReadKey, Read
  <2>2. UNCHANGED <<helperVars, packets>> BY <1>7 DEF ReadKey
  <2>3. CASE owner # NoSession
    <3>1. owner \in Sessions BY <1>0, <2>3, AppFields DEF KeyOwner
    <3>2. app' = [app EXCEPT !.asked[owner] = ask] /\ commands' = commands
      BY <1>7, <2>3 DEF ReadKey
    <3> HIDE DEF owner, ask
    <3>3. app' \in Apps BY <1>0, <2>1, <3>1, <3>2, AskedIs
    <3> QED BY <1>0, <1>1, <2>1, <2>2, <3>2, <3>3
  <2>4. CASE owner = NoSession /\ ask = "send" /\ app.late # <<>>
    <3>1. /\ Send([type |-> "send", id |-> Last(app.late)])
          /\ app' = [app EXCEPT !.late = Front(app.late)]
      BY <1>7, <2>4 DEF ReadKey
    <3>2. Last(app.late) \in Sessions /\ app' \in Apps BY <1>0, <2>4, <3>1, LateIs
    <3>3. [type |-> "send", id |-> Last(app.late)] \in Commands BY <3>2, CommandKinds
    <3>4. commands' \in Seq(Commands) BY <1>3, <3>1, <3>3
    <3> QED BY <1>0, <1>1, <2>1, <2>2, <3>2, <3>4
  <2>5. CASE owner = NoSession /\ ~(ask = "send" /\ app.late # <<>>)
    BY <1>0, <1>1, <1>7, <2>1, <2>2, <2>5 DEF ReadKey
  <2> QED BY <2>3, <2>4, <2>5
<1>8. CASE ReadPacket
  <2>1. Head(packets) \in Packets /\ packets' \in Seq(Packets)
    BY <1>0, <1>8, HeadTailProperties DEF ReadPacket
  <2>2. Heard(app, Head(packets)) \in Apps BY <1>0, <2>1, HeardIs
  <2> QED BY <1>0, <1>1, <1>8, <2>1, <2>2 DEF ReadPacket
<1>9. CASE DrainEnds
  <2>1. EndedCur(app) \in Apps BY <1>0, <1>9, EndedIs DEF DrainEnds
  <2> QED BY <1>0, <1>1, <1>9, <2>1 DEF DrainEnds, pipes
<1>10. CASE StopBy
  <2>1. app.cur \in [id : Sessions, chunks : Seq(Packets), end : {"no"} \cup Reasons,
                     stopping : BOOLEAN]
    BY <1>0, <1>10, AppFields DEF StopBy, Curs
  <2>2. [app.cur EXCEPT !.stopping = TRUE] \in Curs BY <2>1 DEF Curs
  <2>3. app' = [app EXCEPT !.cur = [app.cur EXCEPT !.stopping = TRUE]] BY <1>10 DEF StopBy
  <2>4. app' \in Apps BY <1>0, <2>2, <2>3 DEF Apps
  <2>5. commands' \in Seq(Commands) BY <1>3, <1>10, CommandKinds DEF StopBy
  <2> QED BY <1>0, <1>1, <1>10, <2>4, <2>5 DEF StopBy
<1>11. CASE HelperGone
  <2>1. /\ Gone(app) \in Apps /\ app' = Gone(app) /\ helper' = "gone"
        /\ UNCHANGED <<activation, live, last, pasting, ids, wrote, pressed, sends, lines, packets,
                       commands>>
    BY <1>0, <1>11, GoneIs DEF HelperGone, pipes
  <2>2. TypeOK' BY <2>1 DEF TypeOK
  <2>3. Numbered' BY <2>1 DEF Numbered, KeyFor
  <2> QED BY <2>2, <2>3
<1>12. ASSUME NEW words \in BOOLEAN, NEW clipboard \in BOOLEAN, DecodeEnds(words, clipboard)
       PROVE  Typed'
  <2>1. /\ UNCHANGED <<helperVars, lines, packets>> /\ app' \in Apps /\ Head(app.work) \in Sessions
        /\ \/ \E send \in BOOLEAN : Send([type |-> "insert", id |-> Head(app.work), send |-> send])
           \/ Send([type |-> "settled", id |-> Head(app.work)])
    BY <1>0, <1>12, DecodeEndsIs
  <2>2. CASE \E send \in BOOLEAN : Send([type |-> "insert", id |-> Head(app.work), send |-> send])
    <3>1. PICK send \in BOOLEAN : Send([type |-> "insert", id |-> Head(app.work), send |-> send])
      BY <2>2
    <3>2. [type |-> "insert", id |-> Head(app.work), send |-> send] \in Commands
      BY <2>1, CommandKinds
    <3>3. commands' \in Seq(Commands) BY <1>3, <3>1, <3>2
    <3> QED BY <1>0, <1>1, <2>1, <3>3
  <2>3. CASE Send([type |-> "settled", id |-> Head(app.work)])
    <3>1. [type |-> "settled", id |-> Head(app.work)] \in Commands BY <2>1, CommandKinds
    <3>2. commands' \in Seq(Commands) BY <1>3, <2>3, <3>1
    <3> QED BY <1>0, <1>1, <2>1, <3>2
  <2> QED BY <2>1, <2>2, <2>3
<1> QED BY <1>4, <1>5, <1>6, <1>7, <1>8, <1>9, <1>10, <1>11, <1>12 DEF App

LEMMA InitTyped == Init => Typed
<1> SUFFICES ASSUME Init PROVE Typed OBVIOUS
<1>1. /\ \A S : <<>> \in Seq(S) /\ Len(<<>>) = 0
      /\ MaxKeys \in Nat /\ MaxPackets \in Nat /\ MaxSessions \in Nat
  BY EmptySeq, Bounds
<1>2. app \in Apps
  BY <1>1, CurKinds DEF Init, Apps
<1>3. TypeOK BY <1>1, <1>2 DEF Init, TypeOK, NoLive
<1>4. Numbered BY <1>1 DEF Init, Numbered, KeyFor, NoSession
<1> QED BY <1>3, <1>4 DEF Typed

LEMMA NextTyped == Typed /\ [Next]_vars => Typed'
<1> SUFFICES ASSUME Typed, [Next]_vars PROVE Typed' OBVIOUS
<1>1. CASE User BY <1>1, UserTyped
<1>2. CASE Helper BY <1>2, HelperTyped
<1>3. CASE App BY <1>3, AppTyped
<1>4. CASE UNCHANGED vars
  BY <1>4 DEF Typed, TypeOK, Numbered, KeyFor, vars, helperVars, pipes
<1> QED BY <1>1, <1>2, <1>3, <1>4 DEF Next

(* Every variable of the session, its helper and the pipes keeps its type.   *)
THEOREM DictationTypes == Spec => []TypeOK
<1>1. Typed => TypeOK BY DEF Typed
<1> QED BY InitTyped, NextTyped, <1>1, PTL DEF Spec
=============================================================================
