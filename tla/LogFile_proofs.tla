--------------------------- MODULE LogFile_proofs ---------------------------
(***************************************************************************)
(* Proofs about LogFile, for any number of lines, crashes and errors.      *)
(* FileInv is inductive for any number of losses of power: what was synced *)
(* stays, and the seqs grow.  TailInv is for one at most: a reader is told *)
(* every event once.                                                       *)
(***************************************************************************)
EXTENDS LogFile, SequenceTheorems, WellFoundedInduction, TLAPS

(* The bounds are natural numbers.                                           *)
LEMMA BoundsAreNat ==
  /\ MaxWrites \in Nat /\ MaxCrashes \in Nat /\ MaxPower \in Nat /\ MaxErrors \in Nat
BY BoundsAssumption

USE BoundsAreNat

-----------------------------------------------------------------------------
(* The operators.                                                            *)

(* A line has a seq exactly when it is an event, of this build or a newer    *)
(* one; the others are the two that a reader takes for torn.                 *)
LEMMA LineSeqs ==
  /\ \A l \in Lines : l.seq \in 0..MaxWrites /\ l.id \in 0..MaxWrites
  /\ \A l \in Lines : l.seq > 0 <=> Counts(l)
  /\ \A l \in Lines : ~Counts(l) <=> l = Junk \/ l = Partial
  /\ \A l \in Lines : l.what \in {"partial", "junk"} <=> ~Counts(l)
  /\ Junk # Partial /\ Junk \in Lines /\ Partial \in Lines /\ Junk.id = 0 /\ Partial.id = 0
  /\ Junk.seq = 0 /\ Partial.seq = 0
BY DEF Lines, Junk, Partial, Line, Counts

(* A bounded set of natural numbers that is not empty has a greatest one.    *)
LEMMA MaxIn ==
  ASSUME NEW k \in Nat, NEW S \in SUBSET (0..k), S # {}
  PROVE  \E n \in S : \A m \in S : m <= n
<1> DEFINE T == {k - m : m \in S}
<1>1. T \in SUBSET Nat /\ T # {} OBVIOUS
<1>2. PICK x \in T : \A y \in T : ~(<<y, x>> \in OpToRel(<, Nat))
  BY <1>1, NatLessThanWellFounded, WFMin
<1>3. \A y \in T : ~(y < x) BY <1>1, <1>2 DEF OpToRel
<1>4. PICK n \in S : x = k - n OBVIOUS
<1>5. ASSUME NEW m \in S PROVE m <= n
  <2>1. k - m \in T /\ n \in 0..k /\ m \in 0..k OBVIOUS
  <2>2. ~(k - m < k - n) BY <2>1, <1>3, <1>4
  <2> QED BY <2>1, <2>2
<1> QED BY <1>5

(* LastSeq is the greatest seq of the lines, or 0 when none has one.         *)
LEMMA LastSeqIs ==
  ASSUME NEW lines \in Seq(Lines)
  PROVE  /\ LastSeq(lines) \in 0..MaxWrites
         /\ \A i \in 1..Len(lines) : lines[i].seq <= LastSeq(lines)
         /\ LastSeq(lines) = 0 \/ \E i \in 1..Len(lines) : lines[i].seq = LastSeq(lines)
<1> DEFINE seqs == {lines[i].seq : i \in {k \in DOMAIN lines : Counts(lines[k])}}
           n == LastSeq(lines)
<1>1. DOMAIN lines = 1..Len(lines) /\ \A i \in 1..Len(lines) : lines[i] \in Lines
  BY LenProperties, ElementOfSeq
<1>2. seqs \cup {0} \in SUBSET (0..MaxWrites) BY <1>1, LineSeqs
<1>3. \E x \in seqs \cup {0} : \A m \in seqs \cup {0} : m <= x
  <2> HIDE DEF seqs
  <2> QED BY <1>2, MaxIn
<1>4. n \in seqs \cup {0} /\ \A m \in seqs : m <= n BY <1>3 DEF LastSeq
<1>5. ASSUME NEW i \in 1..Len(lines) PROVE lines[i].seq <= n
  <2>1. CASE Counts(lines[i]) BY <2>1, <1>1, <1>4
  <2>2. CASE ~Counts(lines[i])
    <3>1. lines[i].seq = 0 BY <2>2, <1>1, LineSeqs
    <3>2. n \in Nat BY <1>2, <1>4
    <3> QED BY <3>1, <3>2
  <2> QED BY <2>1, <2>2
<1>6. n \in 0..MaxWrites BY <1>2, <1>4
<1> HIDE DEF n
<1>7. n = 0 \/ \E i \in 1..Len(lines) : lines[i].seq = n BY <1>1, <1>4
<1> QED BY <1>5, <1>6, <1>7 DEF n

(* Front and Last, index by index.                                           *)
LEMMA FrontIs ==
  ASSUME NEW S, NEW s \in Seq(S), s # <<>>
  PROVE  /\ Front(s) \in Seq(S) /\ Len(Front(s)) = Len(s) - 1
         /\ \A i \in 1..Len(s) - 1 : Front(s)[i] = s[i]
         /\ Len(s) \in Nat \ {0} /\ Last(s) = s[Len(s)]
<1>1. Len(s) \in Nat \ {0} BY EmptySeq
<1>2. \A i \in 1..Len(s) - 1 : s[i] \in S BY <1>1, ElementOfSeq
<1> DEFINE n == Len(s) - 1
           f == SubSeq(s, 1, n)
<1>3. Front(s) = f BY DEF Front
<1>4. n \in Int /\ 1 \in Int /\ n >= 0 BY <1>1
<1>5. f \in Seq(S) /\ Len(f) = (IF 1 <= n THEN n - 1 + 1 ELSE 0)
      /\ \A i \in 1..n - 1 + 1 : f[i] = s[1 + i - 1]
  <2> HIDE DEF n
  <2> QED BY <1>2, <1>4, SubSeqProperties DEF n
<1> HIDE DEF f, n
<1>6. Len(f) = n /\ \A i \in 1..n : f[i] = s[i] BY <1>4, <1>5
<1> QED BY <1>1, <1>3, <1>5, <1>6 DEF Last, n

(* What a reader takes of lines: all but a torn last one.                    *)
LEMMA CommittedIs ==
  ASSUME NEW lines \in Seq(Lines)
  PROVE  /\ Committed(lines) \in Seq(Lines) /\ Len(lines) \in Nat
         /\ Torn(lines) <=> Len(lines) > 0 /\ ~Counts(lines[Len(lines)])
         /\ Len(Committed(lines)) = IF Torn(lines) THEN Len(lines) - 1 ELSE Len(lines)
         /\ \A i \in 1..Len(Committed(lines)) : Committed(lines)[i] = lines[i]
<1>1. CASE lines = <<>> BY <1>1, EmptySeq DEF Torn, Committed
<1>2. CASE lines # <<>>
  <2>1. /\ Front(lines) \in Seq(Lines) /\ Len(Front(lines)) = Len(lines) - 1
        /\ \A i \in 1..Len(lines) - 1 : Front(lines)[i] = lines[i]
        /\ Len(lines) \in Nat \ {0} /\ Last(lines) = lines[Len(lines)]
    BY <1>2, FrontIs
  <2>2. lines[Len(lines)] \in Lines BY <2>1, ElementOfSeq
  <2>3. Torn(lines) <=> ~Counts(lines[Len(lines)]) BY <1>2, <2>1, <2>2, LineSeqs DEF Torn
  <2> QED BY <2>1, <2>3 DEF Committed
<1> QED BY <1>1, <1>2

(* What a poll parses: the lines it got but a last one that was cut.         *)
LEMMA CompleteIs ==
  ASSUME NEW lines \in Seq(Lines)
  PROVE  /\ Complete(lines) \in Seq(Lines) /\ Len(lines) \in Nat
         /\ Len(Complete(lines)) = IF Len(lines) > 0 /\ lines[Len(lines)] = Partial
                                   THEN Len(lines) - 1 ELSE Len(lines)
         /\ \A i \in 1..Len(Complete(lines)) : Complete(lines)[i] = lines[i]
<1>1. CASE lines = <<>> BY <1>1, EmptySeq DEF Complete
<1>2. CASE lines # <<>>
  <2>1. /\ Front(lines) \in Seq(Lines) /\ Len(Front(lines)) = Len(lines) - 1
        /\ \A i \in 1..Len(lines) - 1 : Front(lines)[i] = lines[i]
        /\ Len(lines) \in Nat \ {0} /\ Last(lines) = lines[Len(lines)]
    BY <1>2, FrontIs
  <2> QED BY <1>2, <2>1 DEF Complete
<1> QED BY <1>1, <1>2

(* Max of the indices of lines.                                              *)
LEMMA MaxIs ==
  ASSUME NEW k \in Nat, NEW S \in SUBSET (1..k), S # {}
  PROVE  Max(S) \in S /\ \A m \in S : m <= Max(S)
<1>1. S \in SUBSET (0..k) OBVIOUS
<1>2. PICK n \in S : \A m \in S : m <= n BY <1>1, MaxIn
<1>3. n \in S /\ \A m \in S : n >= m BY <1>2
<1>4. Max(S) \in S /\ \A m \in S : Max(S) >= m BY <1>3 DEF Max
<1> QED BY <1>4

-----------------------------------------------------------------------------
(* The file and its writer.                                                  *)

(* The types of the records.                                                 *)
WriterTypes == [state : WriterStates, seq : 0..MaxWrites, dirty : BOOLEAN, timer : BOOLEAN]

LeftTypes == [crashes : 0..MaxCrashes, power : 0..MaxPower, errors : 0..MaxErrors]

ReaderTypes == [offset : Nat, seq : 0..MaxWrites, given : Seq(0..MaxWrites)]

(* What the invariant says, index by index.                                  *)
FileFacts ==
  /\ file \in Seq(Lines) /\ Len(file) \in Nat /\ DOMAIN file = 1..Len(file)
  /\ \A i \in 1..Len(file) : file[i] \in Lines /\ file[i].seq \in Nat
  /\ \A i \in 1..Len(file) : file[i] = Partial => i = Len(file)
  /\ durable \in 0..Len(file) /\ durable \in Nat
  /\ writer \in WriterTypes /\ reader \in ReaderTypes /\ left \in LeftTypes
  /\ writes \in 0..MaxWrites /\ writes \in Nat
  /\ writer.seq <= writes /\ writer.seq \in Nat
  /\ kept \subseteq 1..MaxWrites /\ kept \subseteq {file[i].id : i \in 1..durable}
  /\ \A i \in 1..Len(file) : file[i].seq <= writes
  /\ \A i, k \in 1..Len(file) :
       file[i].seq > 0 /\ file[k].seq > 0 /\ i < k => file[i].seq < file[k].seq
  /\ writer.state # "none" =>
       \A i \in 1..Len(file) : file[i].seq > 0 => file[i].seq <= writer.seq
  /\ writer.state \in {"making", "open"} => \A i \in 1..Len(file) : file[i] # Partial

(* It does.                                                                  *)
LEMMA FileIs ==
  ASSUME FileInv
  PROVE  FileFacts
<1>1. file \in Seq(Lines) BY DEF FileInv, TypeOK
<1>2. Len(file) \in Nat /\ DOMAIN file = 1..Len(file) /\ \A i \in 1..Len(file) : file[i] \in Lines
  BY <1>1, LenProperties, ElementOfSeq
<1>3. durable \in Nat BY <1>2 DEF FileInv, TypeOK
<1>4. writer.seq \in Nat /\ writes \in Nat BY DEF FileInv, TypeOK
<1>5. \A i \in 1..Len(file) : file[i].seq \in Nat BY <1>2, LineSeqs
<1> QED BY <1>1, <1>2, <1>3, <1>4, <1>5
  DEF FileInv, TypeOK, EndsWhole, KeptDurable, SeqsCounted, SeqsGrow, WriterTypes, LeftTypes,
      ReaderTypes, FileFacts

(* The invariant, index by index, after a step.                              *)
LEMMA FileNext ==
  ASSUME file' \in Seq(Lines), NEW n \in Nat, Len(file') = n,
         \A i \in 1..n : file'[i] = Partial => i = n,
         durable' \in 0..n, writer' \in WriterTypes, reader' \in ReaderTypes, left' \in LeftTypes,
         writes' \in 0..MaxWrites, writer'.seq <= writes',
         kept' \subseteq 1..MaxWrites, kept' \subseteq {file'[i].id : i \in 1..durable'},
         \A i \in 1..n : file'[i].seq <= writes',
         \A i, k \in 1..n :
           file'[i].seq > 0 /\ file'[k].seq > 0 /\ i < k => file'[i].seq < file'[k].seq,
         writer'.state # "none" =>
           \A i \in 1..n : file'[i].seq > 0 => file'[i].seq <= writer'.seq,
         writer'.state \in {"making", "open"} => \A i \in 1..n : file'[i] # Partial
  PROVE  FileInv'
<1>1. DOMAIN file' = 1..n BY LenProperties
<1>2. TypeOK' BY <1>1 DEF TypeOK, WriterTypes, LeftTypes, ReaderTypes
<1>3. EndsWhole' BY <1>1 DEF EndsWhole
<1>4. KeptDurable' BY DEF KeptDurable
<1>5. SeqsCounted' BY <1>1 DEF SeqsCounted, SeqsGrow
<1> QED BY <1>2, <1>3, <1>4, <1>5 DEF FileInv

(* The ids of lines, and those a sync puts on the disk.                      *)
LEMMA WrittenIs ==
  ASSUME NEW lines \in Seq(Lines)
  PROVE  /\ Written(lines) \subseteq 1..MaxWrites
         /\ Written(lines) \subseteq {lines[i].id : i \in 1..Len(lines)}
<1>1. DOMAIN lines = 1..Len(lines) /\ \A i \in 1..Len(lines) : lines[i] \in Lines
  BY LenProperties, ElementOfSeq
<1> QED BY <1>1, LineSeqs DEF Written

(* A step that leaves the file: the writer goes on as it was, or is gone, or *)
(* it has synced.                                                            *)
LEMMA FileStays ==
  ASSUME FileInv, UNCHANGED <<file, writes>>,
         UNCHANGED <<durable, kept>> \/ Synced,
         writer' \in WriterTypes, left' \in LeftTypes, reader' \in ReaderTypes,
         \/ writer'.state = "none" /\ writer'.seq <= writes
         \/ /\ writer.state # "none" /\ writer'.seq = writer.seq
            /\ writer'.state \in {"making", "open"} => writer.state \in {"making", "open"}
  PROVE  FileInv'
<1>0. FileFacts BY FileIs
<1>1. file \in Seq(Lines) /\ Len(file) \in Nat BY <1>0 DEF FileFacts
<1>2. /\ durable' \in 0..Len(file) /\ kept' \subseteq 1..MaxWrites
      /\ kept' \subseteq {file[i].id : i \in 1..durable'}
  <2>1. CASE UNCHANGED <<durable, kept>> BY <1>0, <2>1 DEF FileFacts
  <2>2. CASE Synced
    <3>1. Written(file) \subseteq 1..MaxWrites /\ Written(file) \subseteq {file[i].id : i \in 1..Len(file)}
      BY <1>1, WrittenIs
    <3>2. durable' = Len(file) /\ kept' = kept \cup Written(file) BY <2>2 DEF Synced
    <3>3. kept \subseteq 1..MaxWrites /\ kept \subseteq {file[i].id : i \in 1..Len(file)}
      <4>1. /\ durable \in 0..Len(file) /\ kept \subseteq 1..MaxWrites
            /\ kept \subseteq {file[i].id : i \in 1..durable}
        BY <1>0 DEF FileFacts
      <4>2. \A i \in 1..durable : i \in 1..Len(file) BY <4>1, <1>1
      <4> QED BY <4>1, <4>2
    <3>4. kept' \subseteq 1..MaxWrites /\ kept' \subseteq {file[i].id : i \in 1..Len(file)}
      BY <3>1, <3>2, <3>3
    <3> QED BY <1>1, <3>2, <3>4
  <2> QED BY <2>1, <2>2
<1>3. writes' \in 0..MaxWrites /\ writer'.seq <= writes'
  <2>1. writes \in 0..MaxWrites /\ writer.seq <= writes /\ writes \in Nat BY <1>0 DEF FileFacts
  <2>2. writes' = writes /\ (writer'.seq <= writes \/ writer'.seq = writer.seq) OBVIOUS
  <2> QED BY <2>1, <2>2
<1>4. \A i \in 1..Len(file) : file[i] = Partial => i = Len(file) BY <1>0 DEF FileFacts
<1>5. \A i \in 1..Len(file) : file[i].seq <= writes BY <1>0 DEF FileFacts
<1>6. \A i, k \in 1..Len(file) :
        file[i].seq > 0 /\ file[k].seq > 0 /\ i < k => file[i].seq < file[k].seq
  BY <1>0 DEF FileFacts
<1>7. writer'.state # "none" =>
        \A i \in 1..Len(file) : file[i].seq > 0 => file[i].seq <= writer'.seq
  BY <1>0 DEF FileFacts
<1>8. writer'.state \in {"making", "open"} => \A i \in 1..Len(file) : file[i] # Partial
  BY <1>0 DEF FileFacts
<1> DEFINE n == Len(file)
<1>9. file' \in Seq(Lines) /\ n \in Nat /\ Len(file') = n BY <1>1
<1> QED BY <1>2, <1>3, <1>4, <1>5, <1>6, <1>7, <1>8, <1>9, FileNext

(* A line is appended, and synced with all before it or not.                 *)
LEMMA FileGrows ==
  ASSUME FileInv, NEW line \in Lines, writes < MaxWrites, writes' = writes + 1,
         file' = Append(file, line),
         \A i \in 1..Len(file) : file[i] # Partial,
         \A i \in 1..Len(file) : file[i].seq > 0 => file[i].seq <= writer.seq,
         line.seq = 0 \/ line.seq = writer.seq + 1 \/ (line.seq = 1 /\ file = <<>>),
         \/ UNCHANGED <<durable, kept>>
         \/ durable' = Len(file) + 1 /\ kept' = kept \cup Written(Append(file, line)),
         writer' \in WriterTypes, left' \in LeftTypes, UNCHANGED reader,
         writer'.seq >= line.seq, writer'.seq >= writer.seq, writer'.seq <= writes + 1,
         writer'.state \in {"making", "open"} => line # Partial
  PROVE  FileInv'
<1>0. FileFacts BY FileIs
<1> DEFINE n == Len(file) + 1
<1>a. file \in Seq(Lines) /\ Len(file) \in Nat BY <1>0 DEF FileFacts
<1>b. \A i \in 1..Len(file) : file[i].seq \in Nat /\ file[i].seq <= writes
  BY <1>0 DEF FileFacts
<1>c. writes \in Nat /\ writer.seq \in Nat /\ writer.seq <= writes BY <1>0 DEF FileFacts
<1>1. /\ file' \in Seq(Lines) /\ Len(file') = n /\ n \in Nat
      /\ \A i \in 1..Len(file) : file'[i] = file[i]
      /\ file'[n] = line
  <2> DEFINE g == Append(file, line)
  <2>1. /\ g \in Seq(Lines) /\ Len(g) = Len(file) + 1
        /\ \A i \in 1..Len(file) : g[i] = file[i]
        /\ g[Len(file) + 1] = line
    BY <1>a, AppendProperties
  <2>2. file' = g OBVIOUS
  <2> HIDE DEF g
  <2> QED BY <2>1, <2>2, <1>a
<1>2. \A i \in 1..n : i = n \/ (i \in 1..Len(file) /\ i < n) BY <1>a
<1>n. n = Len(file) + 1 OBVIOUS
<1> HIDE DEF n
<1>3. line.seq \in Nat /\ line.seq <= writes + 1 /\ writer'.seq \in Nat
  <2>1. line.seq \in Nat BY LineSeqs
  <2>2. writer'.seq \in Nat BY DEF WriterTypes
  <2> QED BY <1>c, <2>1, <2>2
<1>5. \A i \in 1..n : file'[i] = Partial => i = n BY <1>1, <1>2
<1>6. \A i \in 1..n : file'[i].seq <= writes'
  <2> TAKE i \in 1..n
  <2>1. CASE i = n BY <2>1, <1>1, <1>3
  <2>2. CASE i \in 1..Len(file)
    <3>1. file'[i] = file[i] /\ file[i].seq \in Nat /\ file[i].seq <= writes BY <2>2, <1>1, <1>b
    <3> QED BY <3>1, <1>c
  <2> QED BY <2>1, <2>2, <1>2
<1>7. \A i, k \in 1..n :
        file'[i].seq > 0 /\ file'[k].seq > 0 /\ i < k => file'[i].seq < file'[k].seq
  <2> SUFFICES ASSUME NEW i \in 1..n, NEW k \in 1..n, file'[i].seq > 0, file'[k].seq > 0, i < k
               PROVE  file'[i].seq < file'[k].seq
    OBVIOUS
  <2>0. i \in Nat /\ k \in Nat BY <1>1
  <2>1. i \in 1..Len(file) /\ file'[i] = file[i] BY <2>0, <1>2, <1>1
  <2>2. CASE k = n
    <3>1. line.seq > 0 /\ file[i].seq > 0 BY <2>1, <2>2, <1>1
    <3>2. file[i].seq <= writer.seq BY <2>1, <3>1
    <3>3. line.seq = writer.seq + 1
      <4>1. file # <<>> BY <2>1
      <4> QED BY <4>1, <3>1
    <3>4. file[i].seq \in Nat BY <2>1, <1>b
    <3>5. file[i].seq < line.seq BY <3>2, <3>3, <3>4, <1>c
    <3> QED BY <3>5, <2>1, <2>2, <1>1
  <2>3. CASE k \in 1..Len(file)
    <3>1. file'[k] = file[k] BY <2>3, <1>1
    <3>2. file[i].seq > 0 /\ file[k].seq > 0 BY <3>1, <2>1
    <3>3. file[i].seq < file[k].seq BY <3>2, <2>1, <2>3, <1>0 DEF FileFacts
    <3> QED BY <3>1, <3>3, <2>1
  <2> QED BY <2>2, <2>3, <1>2
<1>8. \A i \in 1..n : file'[i].seq > 0 => file'[i].seq <= writer'.seq
  <2> TAKE i \in 1..n
  <2>1. CASE i = n BY <2>1, <1>1, <1>3
  <2>2. CASE i \in 1..Len(file)
    <3>1. file'[i] = file[i] /\ file[i].seq \in Nat BY <2>2, <1>1, <1>b
    <3> SUFFICES ASSUME file[i].seq > 0 PROVE file[i].seq <= writer'.seq BY <3>1
    <3>2. file[i].seq <= writer.seq BY <2>2
    <3> QED BY <3>1, <3>2, <1>3, <1>c
  <2> QED BY <2>1, <2>2, <1>2
<1>9. /\ durable' \in 0..n /\ kept' \subseteq 1..MaxWrites
      /\ kept' \subseteq {file'[i].id : i \in 1..durable'}
  <2>1. kept \subseteq {file'[i].id : i \in 1..durable} /\ durable \in 0..n
    <3>0. durable \in 0..Len(file) /\ kept \subseteq {file[i].id : i \in 1..durable}
      BY <1>0 DEF FileFacts
    <3>1. \A i \in 1..durable : file'[i] = file[i]
      <4>1. \A i \in 1..durable : i \in 1..Len(file) BY <3>0, <1>a
      <4> QED BY <4>1, <1>1
    <3>2. durable \in 0..n BY <3>0, <1>a, <1>n
    <3> QED BY <3>0, <3>1, <3>2
  <2>2. kept \subseteq 1..MaxWrites BY <1>0 DEF FileFacts
  <2>3. CASE UNCHANGED <<durable, kept>>
    <3>1. durable' = durable /\ kept' = kept BY <2>3
    <3> QED BY <2>1, <2>2, <3>1
  <2>4. CASE durable' = Len(file) + 1 /\ kept' = kept \cup Written(Append(file, line))
    <3> DEFINE ids == {file'[i].id : i \in 1..n}
               w == Written(file')
    <3>1. durable' = n /\ kept' = kept \cup w BY <2>4, <1>n
    <3>2. w \subseteq 1..MaxWrites /\ w \subseteq ids
      <4> DEFINE g == file'
      <4>1. g \in Seq(Lines) /\ Len(g) = n BY <1>1
      <4> HIDE DEF g
      <4>2. /\ Written(g) \subseteq 1..MaxWrites
            /\ Written(g) \subseteq {g[i].id : i \in 1..Len(g)}
        BY <4>1, WrittenIs
      <4> QED BY <4>1, <4>2 DEF g
    <3>3. kept \subseteq ids
      <4>1. \A i \in 1..durable : i \in 1..n BY <2>1, <1>1
      <4> QED BY <2>1, <4>1
    <3>4. n \in 0..n BY <1>1
    <3>5. kept' \subseteq 1..MaxWrites /\ kept' \subseteq ids
      <4> HIDE DEF ids, w
      <4> QED BY <3>1, <3>2, <3>3, <2>2
    <3> QED BY <3>1, <3>4, <3>5
  <2> QED BY <2>3, <2>4
<1>10. writer'.state \in {"making", "open"} => \A i \in 1..n : file'[i] # Partial BY <1>1, <1>2
<1>11. writes' \in 0..MaxWrites /\ writer'.seq <= writes'
  <2>1. writes \in 0..MaxWrites BY <1>0 DEF FileFacts
  <2> QED BY <2>1
<1>12. reader' \in ReaderTypes BY <1>0 DEF FileFacts
<1> QED BY <1>1, <1>5, <1>6, <1>7, <1>8, <1>9, <1>10, <1>11, <1>12, FileNext

-----------------------------------------------------------------------------
(* A loss of power.                                                          *)

(* The file it leaves: n lines reached the disk, with zeros from a to b.     *)
Lost(n, cut, a, b) ==
  SubSeq(file, 1, a - 1) \o (IF a <= b THEN <<Junk>> ELSE <<>>) \o SubSeq(file, b + 1, n)
    \o IF cut THEN <<Partial>> ELSE <<>>

(* By how much the lines after the zeros move up.                            *)
Shift(a, b) == IF a <= b THEN b - a ELSE 0

(* Which line of the file was at the place of line i.                        *)
WasAt(i, a, b) == IF i < a THEN i ELSE i + Shift(a, b)

(* Lines and lines after them.                                               *)
LEMMA ConcatIs ==
  ASSUME NEW s \in Seq(Lines), NEW t \in Seq(Lines), NEW m, Len(s) = m, NEW k, Len(t) = k
  PROVE  /\ s \o t \in Seq(Lines) /\ Len(s \o t) = m + k
         /\ \A i \in 1..m + k : (s \o t)[i] = IF i <= m THEN s[i] ELSE t[i - m]
BY ConcatProperties

(* The file after a loss of power, line by line.                             *)
LEMMA LostIs ==
  ASSUME file \in Seq(Lines), Len(file) \in Nat,
         NEW n \in 0..Len(file), NEW cut \in BOOLEAN,
         NEW a \in 1..n + 1, NEW b \in a - 1 .. n
  PROVE  /\ Lost(n, cut, a, b) \in Seq(Lines)
         /\ Len(Lost(n, cut, a, b)) = (IF cut THEN n + 1 ELSE n) - Shift(a, b)
         /\ \A i \in 1..Len(Lost(n, cut, a, b)) :
              Lost(n, cut, a, b)[i] = IF cut /\ i = Len(Lost(n, cut, a, b)) THEN Partial
                                      ELSE IF a <= b /\ i = a THEN Junk
                                      ELSE file[WasAt(i, a, b)]
<1>0. n \in Nat /\ a \in Nat /\ b \in Nat /\ 1 <= a /\ a <= n + 1 /\ a - 1 <= b /\ b <= n
      /\ n <= Len(file)
  OBVIOUS
<1>l. \A i \in 1..Len(file) : file[i] \in Lines BY ElementOfSeq
<1> DEFINE p == SubSeq(file, 1, a - 1)
           z == IF a <= b THEN <<Junk>> ELSE <<>>
           q == SubSeq(file, b + 1, n)
           c == IF cut THEN <<Partial>> ELSE <<>>
           zn == IF a <= b THEN 1 ELSE 0
           cn == IF cut THEN 1 ELSE 0
           pz == p \o z
           pq == pz \o q
           r == pq \o c
<1>1. p \in Seq(Lines) /\ Len(p) = a - 1 /\ \A i \in 1..a - 1 : p[i] = file[i]
  <2> DEFINE m == a - 1
  <2>0. 1 \in Int /\ m \in Int /\ m >= 0 BY <1>0
  <2>1. \A i \in 1..m : file[i] \in Lines BY <1>0, <1>l
  <2> HIDE DEF m
  <2>2. SubSeq(file, 1, m) \in Seq(Lines) /\ Len(SubSeq(file, 1, m)) = (IF 1 <= m THEN m - 1 + 1 ELSE 0)
        /\ \A i \in 1..m - 1 + 1 : SubSeq(file, 1, m)[i] = file[1 + i - 1]
    BY <2>0, <2>1, SubSeqProperties
  <2>3. SubSeq(file, 1, m) \in Seq(Lines) /\ Len(SubSeq(file, 1, m)) = m
        /\ \A i \in 1..m : SubSeq(file, 1, m)[i] = file[i]
    BY <2>0, <2>2
  <2> QED BY <2>3 DEF m
<1>2. z \in Seq(Lines) /\ Len(z) = zn /\ (a <= b => z[1] = Junk)
  <2>1. Junk \in Lines BY LineSeqs
  <2>2. CASE a <= b BY <2>1, <2>2
  <2>3. CASE ~(a <= b) BY <2>3, EmptySeq
  <2> QED BY <2>2, <2>3
<1>3. q \in Seq(Lines) /\ Len(q) = n - b /\ \A i \in 1..n - b : q[i] = file[b + i]
  <2>0. b + 1 \in Int /\ n \in Int /\ b \in Nat /\ n >= b BY <1>0
  <2>1. \A i \in b + 1 .. n : file[i] \in Lines BY <1>0, <1>l
  <2> DEFINE m == b + 1
  <2>2. m \in Int /\ m = b + 1 BY <2>0
  <2>3. \A i \in m..n : file[i] \in Lines BY <2>1
  <2> HIDE DEF m
  <2>4. SubSeq(file, m, n) \in Seq(Lines) /\ Len(SubSeq(file, m, n)) = (IF m <= n THEN n - m + 1 ELSE 0)
        /\ \A i \in 1..n - m + 1 : SubSeq(file, m, n)[i] = file[m + i - 1]
    BY <2>0, <2>2, <2>3, SubSeqProperties
  <2>5. SubSeq(file, m, n) \in Seq(Lines) /\ Len(SubSeq(file, m, n)) = n - b
        /\ \A i \in 1..n - b : SubSeq(file, m, n)[i] = file[b + i]
    BY <2>0, <2>2, <2>4
  <2> QED BY <2>5 DEF m
<1>4. c \in Seq(Lines) /\ Len(c) = cn /\ (cut => c[1] = Partial)
  <2>1. Partial \in Lines BY LineSeqs
  <2>2. CASE cut BY <2>1, <2>2
  <2>3. CASE ~cut BY <2>3, EmptySeq
  <2> QED BY <2>2, <2>3
<1>5. Lost(n, cut, a, b) = r BY DEF Lost
<1>z. zn \in Nat /\ cn \in Nat /\ (a <= b => zn = 1) /\ (~(a <= b) => zn = 0) OBVIOUS
<1> HIDE DEF p, z, q, c, zn, cn
<1>n. zn = (IF a <= b THEN 1 ELSE 0) /\ cn = (IF cut THEN 1 ELSE 0) BY DEF zn, cn
<1>6. /\ pz \in Seq(Lines) /\ Len(pz) = a - 1 + zn
      /\ \A i \in 1..a - 1 + zn : pz[i] = IF i <= a - 1 THEN p[i] ELSE z[i - (a - 1)]
  BY <1>1, <1>2, ConcatIs
<1> HIDE DEF pz
<1>7. /\ pq \in Seq(Lines) /\ Len(pq) = a - 1 + zn + (n - b)
      /\ \A i \in 1..a - 1 + zn + (n - b) :
           pq[i] = IF i <= a - 1 + zn THEN pz[i] ELSE q[i - (a - 1 + zn)]
  <2>1. pz \in Seq(Lines) /\ q \in Seq(Lines) BY <1>6, <1>3
  <2>2. Len(pz) = a - 1 + zn /\ Len(q) = n - b BY <1>6, <1>3
  <2> HIDE DEF q
  <2> QED BY <2>1, <2>2, ConcatIs
<1> HIDE DEF pq
<1> DEFINE k == a - 1 + zn + (n - b)
<1>k. Len(pq) = k /\ Len(c) = cn BY <1>7, <1>4
<1> HIDE DEF k, r
<1>r. r = pq \o c BY DEF r
<1>9a. /\ r \in Seq(Lines) /\ Len(r) = k + cn
       /\ \A i \in 1..k + cn : r[i] = IF i <= k THEN pq[i] ELSE c[i - k]
  <2>1. pq \in Seq(Lines) /\ c \in Seq(Lines) BY <1>7, <1>4
  <2>2. /\ pq \o c \in Seq(Lines) /\ Len(pq \o c) = Len(pq) + Len(c)
        /\ \A i \in 1..Len(pq) + Len(c) :
             (pq \o c)[i] = IF i <= Len(pq) THEN pq[i] ELSE c[i - Len(pq)]
    BY <2>1, ConcatIs
  <2> QED BY <2>2, <1>k, <1>r
<1>8. /\ r \in Seq(Lines) /\ Len(r) = a - 1 + zn + (n - b) + cn
      /\ \A i \in 1..a - 1 + zn + (n - b) + cn :
           r[i] = IF i <= a - 1 + zn + (n - b) THEN pq[i] ELSE c[i - (a - 1 + zn + (n - b))]
  BY <1>9a DEF k
<1> USE <1>n
<1>9. a - 1 + zn + (n - b) = n - Shift(a, b) /\ Shift(a, b) \in Nat BY <1>0 DEF Shift
<1>10. Len(r) = (IF cut THEN n + 1 ELSE n) - Shift(a, b) BY <1>8, <1>9, <1>0
<1>11. ASSUME NEW i \in 1..Len(r)
       PROVE  r[i] = IF cut /\ i = Len(r) THEN Partial
                     ELSE IF a <= b /\ i = a THEN Junk
                     ELSE file[WasAt(i, a, b)]
  <2>0. i \in Nat /\ 1 <= i /\ i <= a - 1 + zn + (n - b) + cn BY <1>8, <1>0
  <2>1. CASE cut /\ i = Len(r)
    <3>1. i = a - 1 + zn + (n - b) + 1 BY <2>1, <1>8
    <3>2. r[i] = c[1] BY <3>1, <2>0, <1>8, <1>0
    <3> QED BY <3>2, <2>1, <1>4
  <2>2. CASE ~(cut /\ i = Len(r))
    <3>1. i <= a - 1 + zn + (n - b)
      <4>1. CASE cut BY <4>1, <2>2, <2>0, <1>8, <1>0
      <4>2. CASE ~cut BY <4>2, <2>0
      <4> QED BY <4>1, <4>2
    <3>2. r[i] = pq[i] BY <3>1, <2>0, <1>8
    <3>3. CASE i < a
      <4>1. pq[i] = pz[i] BY <3>1, <3>3, <2>0, <1>7, <1>0
      <4>2. pz[i] = p[i] BY <3>3, <2>0, <1>z, <1>6, <1>0
      <4>3. p[i] = file[i] BY <3>3, <2>0, <1>1, <1>0
      <4> QED BY <2>2, <3>2, <3>3, <4>1, <4>2, <4>3, <1>0, <2>0 DEF WasAt
    <3>4. CASE i = a /\ a <= b
      <4>1. pq[i] = pz[i] BY <3>1, <3>4, <2>0, <1>7, <1>0
      <4>2. pz[i] = z[1]
        <5>1. i \in 1..a - 1 + zn /\ ~(i <= a - 1) /\ i - (a - 1) = 1 BY <3>4, <2>0, <1>0
        <5> QED BY <5>1, <1>6
      <4> QED BY <2>2, <3>2, <3>4, <4>1, <4>2, <1>2
    <3>5. CASE i >= a /\ ~(i = a /\ a <= b)
      <4>1. i > a - 1 + zn BY <3>5, <2>0, <1>0
      <4>2. pq[i] = q[i - (a - 1 + zn)] BY <3>1, <4>1, <2>0, <1>7, <1>0
      <4>3. i - (a - 1 + zn) \in 1..n - b BY <3>1, <4>1, <2>0, <1>0
      <4>4. q[i - (a - 1 + zn)] = file[b + (i - (a - 1 + zn))] BY <4>3, <1>3
      <4>5. b + (i - (a - 1 + zn)) = WasAt(i, a, b) BY <3>5, <2>0, <1>0 DEF WasAt, Shift
      <4>6. r[i] = file[WasAt(i, a, b)] BY <3>2, <4>2, <4>4, <4>5
      <4> QED BY <2>2, <3>5, <4>6
    <3> QED BY <3>3, <3>4, <3>5, <2>0, <1>0
  <2> QED BY <2>1, <2>2
<1> QED BY <1>5, <1>8, <1>10, <1>11

(* Lines that are left of the file, with nothing new that has a seq, keep    *)
(* their order.                                                              *)
LEMMA LinesGone ==
  ASSUME FileFacts, NEW n \in Nat, NEW s, NEW f,
         \A i \in 1..n : f[i] \in 1..Len(file),
         \A i, k \in 1..n : i < k => f[i] < f[k],
         \A i \in 1..n : s[i] = file[f[i]] \/ s[i].seq = 0
  PROVE  /\ \A i \in 1..n : s[i].seq <= writes
         /\ \A i, k \in 1..n : s[i].seq > 0 /\ s[k].seq > 0 /\ i < k => s[i].seq < s[k].seq
<1>1. ASSUME NEW i \in 1..n PROVE s[i].seq <= writes
  <2>1. CASE s[i] = file[f[i]] BY <2>1 DEF FileFacts
  <2>2. CASE s[i].seq = 0
    <3>1. writes \in Nat BY DEF FileFacts
    <3> QED BY <2>2, <3>1
  <2> QED BY <2>1, <2>2
<1>2. ASSUME NEW i \in 1..n, NEW k \in 1..n, s[i].seq > 0, s[k].seq > 0, i < k
      PROVE  s[i].seq < s[k].seq
  <2>1. s[i] = file[f[i]] /\ s[k] = file[f[k]] BY <1>2
  <2>2. f[i] \in 1..Len(file) /\ f[k] \in 1..Len(file) /\ f[i] < f[k] BY <1>2
  <2>3. file[f[i]].seq > 0 /\ file[f[k]].seq > 0 BY <2>1, <1>2
  <2> QED BY <2>1, <2>2, <2>3 DEF FileFacts
<1> QED BY <1>1, <1>2

(* open: the torn line goes, and with it nothing a sync covered.             *)
LEMMA OpenKeeps ==
  ASSUME FileInv, Open
  PROVE  FileInv'
<1>0. FileFacts BY FileIs
<1>a. file \in Seq(Lines) /\ Len(file) \in Nat BY <1>0 DEF FileFacts
<1> DEFINE n == Len(Committed(file))
           torn == Torn(file)
<1>1. /\ file' \in Seq(Lines) /\ Len(file') = n
      /\ torn <=> Len(file) > 0 /\ ~Counts(file[Len(file)])
      /\ n = IF torn THEN Len(file) - 1 ELSE Len(file)
      /\ \A i \in 1..n : file'[i] = file[i]
  BY <1>a, CommittedIs DEF Open
<1>2. /\ durable' = IF torn THEN Len(file) - 1 ELSE durable
      /\ kept' = IF torn THEN kept \cup Written(file') ELSE kept
      /\ writer' = [NoWriter EXCEPT !.state = "open", !.seq = LastSeq(file')]
      /\ UNCHANGED <<reader, writes, left>>
  BY DEF Open
<1> HIDE DEF n, torn
<1>3. n \in Nat /\ n <= Len(file) /\ \A i \in 1..n : i \in 1..Len(file) BY <1>1, <1>a
<1>4. \A i \in 1..n : file'[i] # Partial
  <2> SUFFICES ASSUME NEW i \in 1..n, file'[i] = Partial PROVE FALSE OBVIOUS
  <2>1. file[i] = Partial /\ i = Len(file) BY <1>1, <1>3, <1>0 DEF FileFacts
  <2>2. Len(file) > 0 /\ ~Counts(file[Len(file)]) BY <2>1, <1>3, <1>a, LineSeqs
  <2>3. n = Len(file) - 1 BY <2>2, <1>1
  <2> QED BY <2>1, <2>3, <1>a
<1> DEFINE top == LastSeq(file')
<1>5. /\ top \in 0..MaxWrites /\ top \in Nat
      /\ \A i \in 1..n : file'[i].seq <= top
      /\ top = 0 \/ \E i \in 1..n : file'[i].seq = top
  <2> DEFINE s == file'
  <2>1. s \in Seq(Lines) /\ Len(s) = n BY <1>1
  <2> HIDE DEF s
  <2>2. /\ LastSeq(s) \in 0..MaxWrites
        /\ \A i \in 1..n : s[i].seq <= LastSeq(s)
        /\ LastSeq(s) = 0 \/ \E i \in 1..n : s[i].seq = LastSeq(s)
    BY <2>1, LastSeqIs
  <2>3. LastSeq(s) \in Nat BY <2>2
  <2> QED BY <2>2, <2>3 DEF s
<1>6. writer'.seq = top /\ writer' \in WriterTypes
  <2> HIDE DEF top
  <2>1. writer' = [NoWriter EXCEPT !.state = "open", !.seq = top] BY <1>2 DEF top
  <2> QED BY <2>1, <1>5 DEF WriterTypes, WriterStates, NoWriter
<1> HIDE DEF top
<1>7. top <= writes /\ writes' = writes /\ writes \in 0..MaxWrites
  <2>1. \A i \in 1..n : file'[i].seq <= writes BY <1>1, <1>3, <1>0 DEF FileFacts
  <2>2. writes \in Nat /\ writes \in 0..MaxWrites BY <1>0 DEF FileFacts
  <2> QED BY <2>1, <2>2, <1>2, <1>5
<1>8. /\ \A i \in 1..n : file'[i].seq <= writes
      /\ \A i, k \in 1..n :
           file'[i].seq > 0 /\ file'[k].seq > 0 /\ i < k => file'[i].seq < file'[k].seq
  BY <1>1, <1>3, <1>0 DEF FileFacts
<1>9. /\ durable' \in 0..n /\ kept' \subseteq 1..MaxWrites
      /\ kept' \subseteq {file'[i].id : i \in 1..durable'}
  <2>0. /\ durable \in 0..Len(file) /\ kept \subseteq 1..MaxWrites
        /\ kept \subseteq {file[i].id : i \in 1..durable}
    BY <1>0 DEF FileFacts
  <2>1. CASE torn
    <3>1. n = Len(file) - 1 /\ durable' = n /\ kept' = kept \cup Written(file')
      BY <2>1, <1>1, <1>2
    <3>2. file[Len(file)].id = 0
      <4>1. file[Len(file)] \in Lines /\ ~Counts(file[Len(file)])
        BY <2>1, <1>1, <1>a, ElementOfSeq
      <4> QED BY <4>1, LineSeqs
    <3>3. ASSUME NEW x \in kept PROVE x \in {file'[i].id : i \in 1..n}
      <4>1. PICK i \in 1..durable : x = file[i].id BY <2>0
      <4>2. i # Len(file) BY <4>1, <3>2, <2>0
      <4>3. i \in 1..n BY <4>2, <3>1, <2>0, <1>a
      <4> QED BY <4>1, <4>3, <1>1
    <3>4. /\ Written(file') \subseteq 1..MaxWrites
          /\ Written(file') \subseteq {file'[i].id : i \in 1..n}
      <4> DEFINE s == file'
      <4>1. s \in Seq(Lines) /\ Len(s) = n BY <1>1
      <4> HIDE DEF s
      <4>2. Written(s) \subseteq 1..MaxWrites /\ Written(s) \subseteq {s[i].id : i \in 1..n}
        BY <4>1, WrittenIs
      <4> QED BY <4>2 DEF s
    <3>5. durable' \in 0..n BY <3>1, <1>3
    <3> DEFINE ids == {file'[i].id : i \in 1..n}
               w == Written(file')
    <3>6. kept' = kept \cup w /\ kept \subseteq ids /\ w \subseteq ids /\ w \subseteq 1..MaxWrites
      BY <3>1, <3>3, <3>4
    <3> HIDE DEF w
    <3>7. kept' \subseteq ids /\ kept' \subseteq 1..MaxWrites
      <4> HIDE DEF ids
      <4> QED BY <3>6, <2>0
    <3> QED BY <3>1, <3>5, <3>7
  <2>2. CASE ~torn
    <3>1. n = Len(file) /\ durable' = durable /\ kept' = kept BY <2>2, <1>1, <1>2
    <3>2. \A i \in 1..durable : file'[i] = file[i] BY <3>1, <2>0, <1>1, <1>a
    <3> QED BY <3>1, <3>2, <2>0
  <2> QED BY <2>1, <2>2
<1>10. reader' \in ReaderTypes /\ left' \in LeftTypes BY <1>2, <1>0 DEF FileFacts
<1>11. writer'.seq <= writes' BY <1>6, <1>7
<1>12. \A i \in 1..n : file'[i].seq > 0 => file'[i].seq <= writer'.seq BY <1>5, <1>6
<1> QED BY <1>1, <1>3, <1>4, <1>6, <1>7, <1>8, <1>9, <1>10, <1>11, <1>12, FileNext

(* A loss of power takes nothing that was synced, and changes no order.      *)
LEMMA PowerLossKeeps ==
  ASSUME FileInv, PowerLoss
  PROVE  FileInv'
<1>0. FileFacts BY FileIs
<1>f. /\ file \in Seq(Lines) /\ Len(file) \in Nat /\ durable \in Nat /\ durable \in 0..Len(file)
  BY <1>0 DEF FileFacts
<1>a. /\ file \in Seq(Lines) /\ Len(file) \in Nat /\ durable \in Nat /\ durable <= Len(file)
      /\ durable \in 0..Len(file)
  BY <1>f
<1>1. PICK n \in durable..Len(file), cut \in BOOLEAN :
        /\ cut => n < Len(file)
        /\ ~(n > durable /\ file[n] = Partial)
        /\ \E a \in durable + 1 .. n + 1 : \E b \in a - 1 .. n :
             file' = Lost(n, cut, a, b) /\ durable' = Len(Lost(n, cut, a, b))
  BY DEF PowerLoss, Lost
<1>2a. PICK a \in durable + 1 .. n + 1 :
        \E b \in a - 1 .. n :
          file' = Lost(n, cut, a, b) /\ durable' = Len(Lost(n, cut, a, b))
  BY <1>1
<1>2. PICK b \in a - 1 .. n :
        file' = Lost(n, cut, a, b) /\ durable' = Len(Lost(n, cut, a, b))
  BY <1>2a
<1>3. /\ n \in 0..Len(file) /\ n \in Nat /\ a \in 1..n + 1 /\ a \in Nat /\ b \in Nat
      /\ a - 1 <= b /\ b <= n /\ a > durable /\ n <= Len(file) /\ a <= n + 1
  BY <1>a
<1> DEFINE m == Len(file')
           s == file'
           d == Shift(a, b)
<1>4. /\ s \in Seq(Lines)
      /\ m = (IF cut THEN n + 1 ELSE n) - d
      /\ \A i \in 1..m : s[i] = IF cut /\ i = m THEN Partial
                                ELSE IF a <= b /\ i = a THEN Junk ELSE file[WasAt(i, a, b)]
  <2> DEFINE r == Lost(n, cut, a, b)
  <2>1. /\ r \in Seq(Lines)
        /\ Len(r) = (IF cut THEN n + 1 ELSE n) - d
        /\ \A i \in 1..Len(r) : r[i] = IF cut /\ i = Len(r) THEN Partial
                                       ELSE IF a <= b /\ i = a THEN Junk ELSE file[WasAt(i, a, b)]
    <3> HIDE DEF d
    <3>1. Len(r) = (IF cut THEN n + 1 ELSE n) - Shift(a, b) /\ r \in Seq(Lines)
      BY <1>3, <1>a, LostIs
    <3>2. \A i \in 1..Len(r) : r[i] = IF cut /\ i = Len(r) THEN Partial
                                       ELSE IF a <= b /\ i = a THEN Junk ELSE file[WasAt(i, a, b)]
      BY <1>3, <1>a, LostIs
    <3> QED BY <3>1, <3>2 DEF d
  <2>2. s = r BY <1>2
  <2> HIDE DEF r, d
  <2> QED BY <2>1, <2>2
<1>5. /\ durable' = m /\ writes' = writes /\ kept' = kept
      /\ writer' = NoWriter /\ reader' = Start
  BY <1>2 DEF PowerLoss
<1> HIDE DEF m, s
<1>6. /\ d \in Nat /\ m \in Nat /\ m >= a - 1 /\ m + d <= Len(file) /\ (cut => m + d = n + 1)
      /\ (~cut => m + d = n)
  <2>1. /\ d \in Nat /\ d <= b /\ b - d >= a - 1 BY <1>3 DEF Shift
  <2> HIDE DEF d
  <2>2. CASE cut BY <2>1, <2>2, <1>1, <1>3, <1>4, <1>a
  <2>3. CASE ~cut BY <2>1, <2>3, <1>3, <1>4, <1>a
  <2> QED BY <2>2, <2>3
<1> DEFINE f == [i \in 1..m |-> WasAt(i, a, b)]
<1>7. \A i \in 1..m : f[i] = WasAt(i, a, b) /\ f[i] \in 1..Len(file) BY <1>3, <1>6 DEF WasAt
<1>8. \A i, k \in 1..m : i < k => f[i] < f[k] BY <1>3, <1>6 DEF WasAt
<1>9. \A i \in 1..m : s[i] = file[f[i]] \/ s[i].seq = 0
  BY <1>4, <1>7, LineSeqs
<1> HIDE DEF f
<1>10. /\ \A i \in 1..m : s[i].seq <= writes
       /\ \A i, k \in 1..m : s[i].seq > 0 /\ s[k].seq > 0 /\ i < k => s[i].seq < s[k].seq
  BY <1>0, <1>6, <1>7, <1>8, <1>9, LinesGone
<1>11. \A i \in 1..m : s[i] = Partial => i = m
  <2> SUFFICES ASSUME NEW i \in 1..m, s[i] = Partial, i # m PROVE FALSE OBVIOUS
  <2>1. s[i] = file[WasAt(i, a, b)] BY <1>4, LineSeqs
  <2>2. WasAt(i, a, b) = Len(file) BY <2>1, <1>7, <1>0 DEF FileFacts
  <2>3. WasAt(i, a, b) < WasAt(m, a, b) BY <1>3, <1>6 DEF WasAt
  <2>4. WasAt(m, a, b) \in 1..Len(file) BY <1>6, <1>7
  <2> QED BY <2>2, <2>3, <2>4, <1>a
<1>12. kept \subseteq {s[i].id : i \in 1..m}
  <2>1. \A i \in 1..durable : i \in 1..m /\ i < a BY <1>6, <1>3, <1>a
  <2>2. \A i \in 1..durable : ~(cut /\ i = m)
    <3>1. \A i \in 1..durable : i <= a - 1 BY <1>3, <1>a
    <3>2. cut => m > a - 1 BY <1>4, <1>3, <1>6 DEF Shift
    <3> QED BY <3>1, <3>2, <1>3, <1>6, <1>a
  <2>3. \A i \in 1..durable : WasAt(i, a, b) = i BY <2>1 DEF WasAt
  <2>4. \A i \in 1..durable : i # a BY <2>1, <1>3, <1>a
  <2>5. \A i \in 1..durable : s[i] = file[i] BY <1>4, <2>1, <2>2, <2>3, <2>4
  <2>6. kept \subseteq {file[i].id : i \in 1..durable} BY <1>0 DEF FileFacts
  <2> QED BY <2>1, <2>5, <2>6
<1>13. kept \subseteq 1..MaxWrites /\ writes \in 0..MaxWrites BY <1>0 DEF FileFacts
<1>14. left' \in LeftTypes
  <2>1. left \in LeftTypes BY <1>0 DEF FileFacts
  <2>2. left.power > 0 /\ left' = [left EXCEPT !["power"] = left["power"] - 1] BY DEF PowerLoss, Spend
  <2> QED BY <2>1, <2>2 DEF LeftTypes
<1>15. writer' \in WriterTypes /\ writer'.seq = 0 /\ writer'.state = "none"
  BY <1>5 DEF WriterTypes, WriterStates, NoWriter
<1>16. reader' \in ReaderTypes
  <2>1. <<>> \in Seq(0..MaxWrites) BY EmptySeq
  <2> QED BY <2>1, <1>5 DEF ReaderTypes, Start
<1>17. m \in 0..m BY <1>6
<1>18. writer'.seq <= writes' /\ writes' \in 0..MaxWrites BY <1>5, <1>13, <1>15
<1> QED BY <1>4, <1>5, <1>6, <1>10, <1>11, <1>12, <1>13, <1>14, <1>15, <1>16, <1>17, <1>18, FileNext
     DEF m, s

-----------------------------------------------------------------------------
(* A poll.                                                                   *)

(* The lines behind the cursor, m of them, that a poll gives events of.      *)
Giving(m) == {i \in 1..m : Gives(file[reader.offset + i])}

(* A poll that found g whole lines and consumed m of them, line by line.     *)
Polled(g, m) ==
  /\ g \in Nat /\ m \in Nat /\ reader.offset \in Nat /\ reader.offset + g <= Len(file)
  /\ \/ m = g /\ (g > 0 => Counts(file[reader.offset + g]))
     \/ m = g - 1 /\ ~Counts(file[reader.offset + g])
  /\ g > 0 => file[reader.offset + g] # Partial
  /\ reader'.offset = reader.offset + m
  /\ reader'.seq = IF Giving(m) = {} THEN reader.seq ELSE file[reader.offset + Max(Giving(m))].seq
  /\ reader'.given \in Seq(0..MaxWrites) /\ Len(reader.given) \in Nat
  /\ Len(reader'.given) = Len(reader.given) + m
  /\ \A i \in 1..Len(reader.given) : reader'.given[i] = reader.given[i]
  /\ \A i \in 1..m : reader'.given[Len(reader.given) + i] =
                       IF i \in Giving(m) THEN file[reader.offset + i].id ELSE 0

(* Every poll is one of these.                                               *)
LEMMA PollIs ==
  ASSUME FileInv, Poll
  PROVE  \E g, m \in Nat : Polled(g, m)
<1>0. FileFacts BY FileIs
<1>f. file \in Seq(Lines) /\ Len(file) \in Nat /\ reader \in ReaderTypes BY <1>0 DEF FileFacts
<1> DEFINE o == reader.offset
           old == reader.given
<1>a. o \in Nat /\ old \in Seq(0..MaxWrites) /\ Len(old) \in Nat
  <2>1. o \in Nat /\ old \in Seq(0..MaxWrites) BY <1>f DEF ReaderTypes
  <2> QED BY <2>1, LenProperties
<1>1. PICK n \in o..Len(file) :
        LET lines == Consumed(Complete(SubSeq(file, o + 1, n)))
            giving == {i \in DOMAIN lines : Gives(lines[i])}
        IN reader' = [offset |-> o + Len(lines),
                      seq |-> IF giving = {} THEN reader.seq ELSE lines[Max(giving)].seq,
                      given |-> old \o
                        [i \in DOMAIN lines |-> IF i \in giving THEN lines[i].id ELSE 0]]
  BY DEF Poll
<1> DEFINE got == SubSeq(file, o + 1, n)
           whole == Complete(got)
           lines == Committed(whole)
           m == Len(lines)
           g == Len(whole)
<1>2. got \in Seq(Lines) /\ Len(got) = n - o /\ \A i \in 1..n - o : got[i] = file[o + i]
  <2>0. n \in Nat /\ o <= n /\ n <= Len(file) BY <1>a, <1>f
  <2> DEFINE k == o + 1
  <2>1. k \in Int /\ k = o + 1 /\ n \in Int BY <1>a, <2>0
  <2>2. \A i \in k..n : file[i] \in Lines BY <1>f, <1>a, <2>0, ElementOfSeq
  <2> HIDE DEF k
  <2>3. SubSeq(file, k, n) \in Seq(Lines) /\ Len(SubSeq(file, k, n)) = (IF k <= n THEN n - k + 1 ELSE 0)
        /\ \A i \in 1..n - k + 1 : SubSeq(file, k, n)[i] = file[k + i - 1]
    BY <2>1, <2>2, SubSeqProperties
  <2> HIDE DEF o
  <2>4. SubSeq(file, k, n) \in Seq(Lines) /\ Len(SubSeq(file, k, n)) = n - o
        /\ \A i \in 1..n - o : SubSeq(file, k, n)[i] = file[o + i]
    BY <1>a, <2>0, <2>1, <2>3
  <2> QED BY <2>1, <2>4
<1>3. n \in Nat /\ o <= n /\ n <= Len(file) BY <1>a, <1>f
<1> HIDE DEF got
<1>4. /\ whole \in Seq(Lines) /\ g \in Nat /\ g <= n - o
      /\ \A i \in 1..g : whole[i] = got[i]
  <2> HIDE DEF o
  <2>1. /\ Complete(got) \in Seq(Lines)
        /\ Len(Complete(got)) = IF Len(got) > 0 /\ got[Len(got)] = Partial
                                THEN Len(got) - 1 ELSE Len(got)
        /\ \A i \in 1..Len(Complete(got)) : Complete(got)[i] = got[i]
    BY <1>2, CompleteIs
  <2>2. g = IF n - o > 0 /\ got[n - o] = Partial THEN n - o - 1 ELSE n - o BY <2>1, <1>2
  <2> QED BY <2>1, <2>2, <1>2, <1>3, <1>a
<1>c. g > 0 => file[o + g] # Partial
  <2> HIDE DEF o
  <2>1. g = IF n - o > 0 /\ got[n - o] = Partial THEN n - o - 1 ELSE n - o BY <1>2, CompleteIs
  <2> HIDE DEF g
  <2>2. \A i \in 1..Len(file) : file[i] = Partial => i = Len(file) BY <1>0 DEF FileFacts
  <2>3. CASE n - o > 0 /\ got[n - o] = Partial
    <3>1. file[n] = Partial
      <4>1. n - o \in 1..n - o /\ o + (n - o) = n BY <2>3, <1>3, <1>a
      <4> QED BY <2>3, <4>1, <1>2
    <3>2. n \in 1..Len(file) /\ n = Len(file) BY <3>1, <2>2, <2>3, <1>3, <1>a, <1>f
    <3>3. g = n - o - 1 BY <2>1, <2>3
    <3>4. g > 0 => o + g \in 1..Len(file) /\ o + g # Len(file) BY <3>2, <3>3, <1>3, <1>a, <1>f
    <3> QED BY <3>4, <2>2
  <2>4. CASE ~(n - o > 0 /\ got[n - o] = Partial)
    <3>1. g = n - o BY <2>1, <2>4
    <3>2. g > 0 => g \in 1..n - o BY <3>1, <1>3, <1>a
    <3>3. g > 0 => got[g] # Partial BY <3>1, <2>4
    <3> QED BY <3>2, <3>3, <1>2
  <2> QED BY <2>3, <2>4
<1> HIDE DEF whole
<1>5. /\ lines \in Seq(Lines)
      /\ Torn(whole) <=> g > 0 /\ ~Counts(whole[g])
      /\ m = IF Torn(whole) THEN g - 1 ELSE g
      /\ \A i \in 1..m : lines[i] = whole[i]
  BY <1>4, CommittedIs
<1> HIDE DEF lines
<1>6. DOMAIN lines = 1..m /\ m \in Nat /\ m <= g BY <1>4, <1>5, LenProperties
<1>7. \A i \in 1..m : lines[i] = file[o + i]
  <2> HIDE DEF o, m, g
  <2>1. \A i \in 1..m : i \in 1..g /\ i \in 1..n - o BY <1>6, <1>4, <1>3, <1>a
  <2> QED BY <2>1, <1>5, <1>4, <1>2
<1>8. g > 0 => whole[g] = file[o + g]
  <2> HIDE DEF o, m, g
  <2>1. g > 0 => g \in 1..g /\ g \in 1..n - o BY <1>4, <1>3, <1>a
  <2> QED BY <2>1, <1>4, <1>2
<1> DEFINE giving == {i \in DOMAIN lines : Gives(lines[i])}
           gives == [i \in DOMAIN lines |-> IF i \in giving THEN lines[i].id ELSE 0]
<1>9. reader' = [offset |-> o + m,
                 seq |-> IF giving = {} THEN reader.seq ELSE lines[Max(giving)].seq,
                 given |-> old \o gives]
  BY <1>1 DEF Consumed, lines, whole, got
<1>10. giving = Giving(m) BY <1>6, <1>7 DEF Giving
<1>11. /\ gives \in Seq(0..MaxWrites) /\ Len(gives) = m
       /\ \A i \in 1..m : gives[i] = IF i \in Giving(m) THEN file[o + i].id ELSE 0
  <2>1. \A i \in 1..m : lines[i].id \in 0..MaxWrites
    <3>1. \A i \in 1..m : lines[i] \in Lines BY <1>5, ElementOfSeq
    <3> QED BY <3>1, LineSeqs
  <2> HIDE DEF m, giving
  <2> DEFINE e(i) == IF i \in giving THEN lines[i].id ELSE 0
  <2>2. \A i \in 1..m : e(i) \in 0..MaxWrites BY <2>1
  <2>3. gives = [i \in 1..m |-> e(i)] BY <1>6
  <2> HIDE DEF e, gives
  <2>4. [i \in 1..m |-> e(i)] \in [1..m -> 0..MaxWrites] BY <2>2
  <2>5. gives \in Seq(0..MaxWrites) /\ DOMAIN gives = 1..m
    BY <2>3, <2>4, <1>6
  <2>6. Len(gives) = m BY <2>5, <1>6, LenProperties
  <2>7. \A i \in 1..m : gives[i] = e(i) BY <2>3
  <2> QED BY <2>5, <2>6, <2>7, <1>7, <1>10 DEF e
<1>12. giving # {} => Max(giving) \in 1..m
  <2>1. giving \in SUBSET (1..m) BY <1>6
  <2> HIDE DEF giving, m
  <2> QED BY <2>1, <1>6, MaxIs
<1> DEFINE new == old \o gives
<1> HIDE DEF gives
<1>13. /\ new \in Seq(0..MaxWrites) /\ Len(new) = Len(old) + m
       /\ \A i \in 1..Len(old) + m : new[i] = IF i <= Len(old) THEN old[i] ELSE gives[i - Len(old)]
  <2> HIDE DEF old, m
  <2> QED BY <1>a, <1>11, ConcatProperties
<1> HIDE DEF new
<1>14. /\ \A i \in 1..Len(old) : new[i] = old[i]
       /\ \A i \in 1..m : new[Len(old) + i] = gives[i]
  <2> DEFINE k == Len(old)
  <2>0. k \in Nat BY <1>a
  <2>1. \A i \in 1..k + m : new[i] = IF i <= k THEN old[i] ELSE gives[i - k] BY <1>13
  <2> HIDE DEF old, m, k
  <2>2. \A i \in 1..k : new[i] = old[i] BY <2>0, <2>1, <1>6
  <2>3. ASSUME NEW i \in 1..m PROVE new[k + i] = gives[i]
    <3> DEFINE j == k + i
    <3>1. j = k + i OBVIOUS
    <3> HIDE DEF j
    <3>2. j \in 1..k + m /\ ~(j <= k) /\ j - k = i BY <3>1, <2>0, <1>6
    <3>3. new[j] = gives[j - k] BY <2>1, <3>2
    <3> QED BY <3>2, <3>3 DEF j
  <2> QED BY <2>2, <2>3 DEF k
<1>15. /\ reader'.offset = o + m
       /\ reader'.seq = IF giving = {} THEN reader.seq ELSE lines[Max(giving)].seq
       /\ reader'.given = new
  BY <1>9 DEF new
<1>16. reader'.seq = IF Giving(m) = {} THEN reader.seq ELSE file[o + Max(Giving(m))].seq
  BY <1>15, <1>10, <1>12, <1>7
<1>17. \/ m = g /\ (g > 0 => Counts(file[o + g]))
       \/ m = g - 1 /\ ~Counts(file[o + g])
  <2> HIDE DEF o, m, g
  <2>1. CASE Torn(whole) BY <2>1, <1>5, <1>8, <1>4
  <2>2. CASE ~Torn(whole)
    <3>1. m = g BY <2>2, <1>5
    <3>2. g > 0 => Counts(whole[g]) BY <2>2, <1>5
    <3> QED BY <3>1, <3>2, <1>8
  <2> QED BY <2>1, <2>2
<1>18. o + g <= Len(file) BY <1>4, <1>3, <1>a, <1>f
<1>19. Polled(g, m)
  <2> HIDE DEF m, g, giving
  <2> QED BY <1>4, <1>6, <1>a, <1>c, <1>18, <1>17, <1>15, <1>16, <1>13, <1>14, <1>11 DEF Polled
<1> QED BY <1>19, <1>4, <1>6

-----------------------------------------------------------------------------
(* FileInv is inductive.                                                     *)

(* An empty file, no writer and a reader at its start.                       *)
LEMMA InitFileInv == Init => FileInv
<1> SUFFICES ASSUME Init PROVE FileInv OBVIOUS
<1>1. file = <<>> /\ file \in Seq(Lines) /\ Len(file) = 0 /\ DOMAIN file = {}
  BY EmptySeq DEF Init
<1>2. TypeOK
  <2>1. <<>> \in Seq(0..MaxWrites) BY EmptySeq
  <2>2. reader \in [offset : Nat, seq : 0..MaxWrites, given : Seq(0..MaxWrites)]
    BY <2>1 DEF Init, Start
  <2>3. writer \in [state : WriterStates, seq : 0..MaxWrites, dirty : BOOLEAN, timer : BOOLEAN]
    BY DEF Init, NoWriter, WriterStates
  <2>4. left \in [crashes : 0..MaxCrashes, power : 0..MaxPower, errors : 0..MaxErrors] BY DEF Init
  <2> QED BY <1>1, <2>2, <2>3, <2>4 DEF Init, TypeOK
<1>3. EndsWhole BY <1>1 DEF EndsWhole
<1>4. KeptDurable BY DEF Init, KeptDurable
<1>5. SeqsCounted BY <1>1 DEF Init, NoWriter, SeqsCounted, SeqsGrow
<1> QED BY <1>2, <1>3, <1>4, <1>5 DEF FileInv

(* What a budget is spent on leaves the others.                              *)
LEMMA Spends ==
  ASSUME left \in LeftTypes, NEW what \in {"crashes", "power", "errors"}, Spend(what)
  PROVE  left' \in LeftTypes /\ left'.power <= left.power /\ left.power \in Nat
<1>1. left[what] > 0 /\ left' = [left EXCEPT ![what] = left[what] - 1] BY DEF Spend
<1> QED BY <1>1 DEF LeftTypes

(* An append by an open writer.                                              *)
LEMMA AppendKeeps ==
  ASSUME FileInv, NEW what \in {"event", "newer"}, AppendSynced(what) \/ AppendTimed(what)
  PROVE  FileInv'
<1>0. FileFacts BY FileIs
<1>1. /\ writer \in WriterTypes /\ left \in LeftTypes /\ writes \in 0..MaxWrites
      /\ writer.seq <= writes /\ writer.seq \in Nat /\ writes \in Nat
  BY <1>0 DEF FileFacts
<1> DEFINE line == Line(what, writer.seq + 1, writes + 1)
<1>2. /\ writer.state = "open" /\ writes < MaxWrites /\ writes' = writes + 1
      /\ file' = Append(file, line) /\ UNCHANGED reader
  BY DEF AppendSynced, AppendTimed, Write
<1>3. line \in Lines /\ line.seq = writer.seq + 1 BY <1>1, <1>2 DEF Line, Lines
<1>4. line # Partial BY <1>3, <1>1, LineSeqs
<1> HIDE DEF line
<1>5. \A i \in 1..Len(file) : file[i] # Partial BY <1>0, <1>2 DEF FileFacts
<1>6. \A i \in 1..Len(file) : file[i].seq > 0 => file[i].seq <= writer.seq
  BY <1>0, <1>2 DEF FileFacts
<1>7. \/ UNCHANGED <<durable, kept>>
      \/ durable' = Len(file) + 1 /\ kept' = kept \cup Written(Append(file, line))
  BY DEF AppendSynced, AppendTimed, line
<1>8. left' \in LeftTypes
  <2>1. UNCHANGED left \/ Spend("errors") BY DEF AppendSynced, AppendTimed
  <2> QED BY <2>1, <1>1, Spends
<1>9. \/ writer' = [writer EXCEPT !.seq = writer.seq + 1, !.dirty = FALSE, !.timer = FALSE]
      \/ writer' = [writer EXCEPT !.seq = writer.seq + 1, !.dirty = TRUE, !.timer = FALSE]
      \/ writer' = [writer EXCEPT !.seq = writer.seq + 1, !.dirty = TRUE, !.timer = TRUE]
  BY DEF AppendSynced, AppendTimed
<1>10. writer.seq + 1 \in 0..MaxWrites BY <1>1, <1>2
<1>11. writer' \in WriterTypes /\ writer'.seq = writer.seq + 1
  BY <1>1, <1>9, <1>10 DEF WriterTypes
<1>12. writer'.seq >= line.seq /\ writer'.seq >= writer.seq /\ writer'.seq <= writes + 1
  BY <1>1, <1>3, <1>11
<1> QED BY <1>2, <1>3, <1>4, <1>5, <1>6, <1>7, <1>8, <1>11, <1>12, FileGrows

(* A line that was cut: the writer that wrote it appends no more.            *)
LEMMA ShortWriteKeeps ==
  ASSUME FileInv, ShortWrite
  PROVE  FileInv'
<1>0. FileFacts BY FileIs
<1>1. /\ writer \in WriterTypes /\ left \in LeftTypes /\ writer.seq <= writes
      /\ writer.seq \in Nat /\ writes \in Nat
  BY <1>0 DEF FileFacts
<1>2. /\ writer.state = "open" /\ writes < MaxWrites /\ writes' = writes + 1
      /\ file' = Append(file, Partial) /\ UNCHANGED <<durable, kept, reader>> /\ Spend("errors")
      /\ writer' = [writer EXCEPT !.state = "broken"]
  BY DEF ShortWrite, Write, AfterShortWrite
<1>3. Partial \in Lines /\ Partial.seq = 0 BY LineSeqs
<1>5. \A i \in 1..Len(file) : file[i] # Partial BY <1>0, <1>2 DEF FileFacts
<1>6. \A i \in 1..Len(file) : file[i].seq > 0 => file[i].seq <= writer.seq
  BY <1>0, <1>2 DEF FileFacts
<1>8. left' \in LeftTypes BY <1>1, <1>2, Spends
<1>9. writer' \in WriterTypes /\ writer'.seq = writer.seq /\ writer'.state = "broken"
  BY <1>1, <1>2 DEF WriterTypes, WriterStates
<1>10. /\ writer'.seq >= Partial.seq /\ writer'.seq >= writer.seq /\ writer'.seq <= writes + 1
       /\ ~(writer'.state \in {"making", "open"})
  BY <1>1, <1>3, <1>9
<1> QED BY <1>2, <1>3, <1>5, <1>6, <1>8, <1>9, <1>10, FileGrows

(* create: the first line, of the first seq.                                 *)
LEMMA CreateKeeps ==
  ASSUME FileInv, Create
  PROVE  FileInv'
<1>0. FileFacts BY FileIs
<1>1. writer \in WriterTypes /\ left \in LeftTypes /\ writer.seq \in Nat /\ writer.seq <= writes
  BY <1>0 DEF FileFacts
<1> DEFINE line == Line("event", 1, 1)
<1>2. /\ file = <<>> /\ writes = 0 /\ writes < MaxWrites /\ writes' = writes + 1
      /\ file' = Append(file, line) /\ UNCHANGED <<durable, kept, reader, left>>
      /\ writer' = [NoWriter EXCEPT !.state = "making", !.seq = 1, !.dirty = TRUE]
  BY DEF Create, Write
<1>3. line \in Lines /\ line.seq = 1 BY <1>2 DEF Line, Lines
<1>4. line # Partial BY <1>3, LineSeqs
<1> HIDE DEF line
<1>5. Len(file) = 0 BY <1>2
<1>6. \A i \in 1..Len(file) : FALSE BY <1>5
<1>7. writer' \in WriterTypes /\ writer'.seq = 1
  <2>1. 1 \in 0..MaxWrites BY <1>2
  <2>2. writer' = [state |-> "making", seq |-> 1, dirty |-> TRUE, timer |-> FALSE]
    BY <1>2 DEF NoWriter
  <2> QED BY <2>1, <2>2 DEF WriterTypes, WriterStates
<1>8. writer'.seq >= line.seq /\ writer'.seq >= writer.seq /\ writer'.seq <= writes + 1
  BY <1>1, <1>2, <1>3, <1>7
<1> QED BY <1>1, <1>2, <1>3, <1>4, <1>6, <1>7, <1>8, FileGrows

(* The other actions of the writer, and the end of the process, leave the    *)
(* file.                                                                     *)
LEMMA WriterKeeps ==
  ASSUME FileInv, CreateSyncs \/ SyncFails \/ TimerFires \/ Close \/ Crash
  PROVE  FileInv'
<1>0. FileFacts BY FileIs
<1>1. writer \in WriterTypes /\ left \in LeftTypes /\ reader \in ReaderTypes
  BY <1>0 DEF FileFacts
<1>2. UNCHANGED <<file, writes, reader>>
  BY DEF CreateSyncs, SyncFails, TimerFires, Close, Crash
<1>3. UNCHANGED <<durable, kept>> \/ Synced
  BY DEF CreateSyncs, SyncFails, TimerFires, Close, Crash
<1>4. left' \in LeftTypes
  <2>1. UNCHANGED left \/ Spend("errors") \/ Spend("crashes")
    BY DEF CreateSyncs, SyncFails, TimerFires, Close, Crash
  <2> QED BY <2>1, <1>1, Spends
<1>5. NoWriter \in WriterTypes /\ NoWriter.state = "none" /\ NoWriter.seq <= writes
  <2>1. writes \in Nat BY <1>0 DEF FileFacts
  <2> QED BY <2>1 DEF WriterTypes, WriterStates, NoWriter
<1>6. \/ writer' = NoWriter
      \/ writer.state = "making" /\ writer' = [writer EXCEPT !.state = "open", !.dirty = FALSE]
      \/ writer.state = "open" /\ writer' = [writer EXCEPT !.timer = FALSE]
      \/ writer.state = "open" /\ writer' = [writer EXCEPT !.timer = FALSE, !.dirty = FALSE]
      \/ writer.timer /\ writer.state # "open" /\ writer' = [writer EXCEPT !.timer = FALSE]
  BY DEF CreateSyncs, SyncFails, TimerFires, Close, Crash
<1>7. CASE writer' = NoWriter BY <1>1, <1>2, <1>3, <1>4, <1>5, <1>7, FileStays
<1>8. CASE writer.state = "making" /\ writer' = [writer EXCEPT !.state = "open", !.dirty = FALSE]
  <2>1. /\ writer' \in WriterTypes /\ writer'.seq = writer.seq
        /\ writer.state \in {"making", "open"} /\ writer.state # "none"
    BY <1>1, <1>8 DEF WriterTypes, WriterStates
  <2> QED BY <1>1, <1>2, <1>3, <1>4, <2>1, FileStays
<1>9. CASE writer.state = "open" /\ \/ writer' = [writer EXCEPT !.timer = FALSE]
                                    \/ writer' = [writer EXCEPT !.timer = FALSE, !.dirty = FALSE]
  <2>1. /\ writer' \in WriterTypes /\ writer'.seq = writer.seq
        /\ writer.state \in {"making", "open"} /\ writer.state # "none"
    BY <1>1, <1>9 DEF WriterTypes, WriterStates
  <2> QED BY <1>1, <1>2, <1>3, <1>4, <2>1, FileStays
<1>10. CASE writer.timer /\ writer.state # "open" /\ writer' = [writer EXCEPT !.timer = FALSE]
  <2>1. writer' \in WriterTypes /\ writer'.seq = writer.seq /\ writer'.state = writer.state
    BY <1>1, <1>10 DEF WriterTypes
  <2>2. writer.seq <= writes BY <1>0 DEF FileFacts
  <2>3. CASE writer.state = "none" BY <1>1, <1>2, <1>3, <1>4, <2>1, <2>2, <2>3, FileStays
  <2>4. CASE writer.state # "none" BY <1>1, <1>2, <1>3, <1>4, <2>1, <2>4, FileStays
  <2> QED BY <2>3, <2>4
<1> QED BY <1>6, <1>7, <1>8, <1>9, <1>10

(* A poll moves the cursor only.                                             *)
LEMMA PollKeeps ==
  ASSUME FileInv, Poll
  PROVE  FileInv'
<1>0. FileFacts BY FileIs
<1>1. PICK g \in Nat, m \in Nat : Polled(g, m) BY PollIs
<1>2. /\ file \in Seq(Lines) /\ Len(file) \in Nat /\ \A i \in 1..Len(file) : file[i] \in Lines
      /\ reader \in ReaderTypes
  BY <1>0 DEF FileFacts
<1>3. UNCHANGED <<file, durable, writer, writes, kept, left>> BY DEF Poll
<1>4. reader' \in ReaderTypes
  <2>1. reader'.seq \in 0..MaxWrites
    <3>1. CASE Giving(m) = {} BY <3>1, <1>1, <1>2 DEF Polled, ReaderTypes
    <3>2. CASE Giving(m) # {}
      <4>1. m \in Nat /\ Giving(m) \in SUBSET (1..m) BY <1>1 DEF Polled, Giving
      <4>2. Max(Giving(m)) \in 1..m BY <3>2, <4>1, MaxIs
      <4>3. m <= g /\ reader.offset + g <= Len(file) /\ reader.offset \in Nat BY <1>1 DEF Polled
      <4>4. reader.offset + Max(Giving(m)) \in 1..Len(file) BY <4>2, <4>3, <1>2
      <4>5. reader'.seq = file[reader.offset + Max(Giving(m))].seq BY <3>2, <1>1 DEF Polled
      <4> QED BY <4>4, <4>5, <1>2, LineSeqs
    <3> QED BY <3>1, <3>2
  <2>2. reader'.offset \in Nat BY <1>1 DEF Polled
  <2>3. reader'.given \in Seq(0..MaxWrites) BY <1>1 DEF Polled
  <2>4. \E o, q, v : reader' = [offset |-> o, seq |-> q, given |-> v] BY DEF Poll
  <2> QED BY <2>1, <2>2, <2>3, <2>4 DEF ReaderTypes
<1>5. writer \in WriterTypes /\ left \in LeftTypes /\ writer.seq <= writes BY <1>0 DEF FileFacts
<1>6. \/ writer'.state = "none" /\ writer'.seq <= writes
      \/ /\ writer.state # "none" /\ writer'.seq = writer.seq
         /\ writer'.state \in {"making", "open"} => writer.state \in {"making", "open"}
  BY <1>3, <1>5
<1> QED BY <1>3, <1>4, <1>5, <1>6, FileStays

(* Every step keeps FileInv.                                                 *)
LEMMA FileStep == FileInv /\ [Next]_vars => FileInv'
<1> SUFFICES ASSUME FileInv, [Next]_vars PROVE FileInv' OBVIOUS
<1>1. CASE Open BY <1>1, OpenKeeps
<1>2. CASE Create BY <1>2, CreateKeeps
<1>3. CASE CreateSyncs \/ SyncFails \/ TimerFires \/ Close \/ Crash BY <1>3, WriterKeeps
<1>4. CASE ShortWrite BY <1>4, ShortWriteKeeps
<1>5. CASE \E what \in {"event", "newer"} : AppendSynced(what) \/ AppendTimed(what)
  BY <1>5, AppendKeeps
<1>6. CASE PowerLoss BY <1>6, PowerLossKeeps
<1>7. CASE Poll BY <1>7, PollKeeps
<1>8. CASE UNCHANGED vars
  BY <1>8 DEF vars, FileInv, TypeOK, EndsWhole, KeptDurable, SeqsCounted, SeqsGrow
<1> QED BY <1>1, <1>2, <1>3, <1>4, <1>5, <1>6, <1>7, <1>8 DEF Next

(* FileInv holds in every reachable state: with any number of crashes, of    *)
(* losses of power and of errors, a writer that may append does so after a   *)
(* whole line, what was synced lies in the part of the file the disk has, and*)
(* the seqs are in order and none is above the writer's.                     *)
THEOREM FileInvariance == Spec => []FileInv
BY InitFileInv, FileStep, PTL DEF Spec

(* The file is a sequence of lines of which only the last may be cut, and    *)
(* the writer, the reader and the counters have their types.                 *)
THEOREM FileTypeCorrect == Spec => []TypeOK
<1>1. FileInv => TypeOK BY DEF FileInv
<1> QED BY <1>1, FileInvariance, PTL

(* A line that a sync has put on the disk stays in the file: no loss of      *)
(* power and no truncation of a torn line by an open takes it away           *)
(* (writer.ts:330-349).                                                      *)
THEOREM WhatIsSyncedStays == Spec => []SyncedStays
<1>1. FileInv => SyncedStays
  <2> SUFFICES ASSUME FileInv PROVE SyncedStays OBVIOUS
  <2>1. FileFacts BY FileIs
  <2>2. /\ DOMAIN file = 1..Len(file) /\ durable \in 0..Len(file) /\ Len(file) \in Nat
        /\ kept \subseteq {file[i].id : i \in 1..durable} /\ kept \subseteq 1..MaxWrites
    BY <2>1 DEF FileFacts
  <2>3. \A i \in 1..durable : i \in DOMAIN file BY <2>2
  <2>4. \A x \in kept : x # 0 BY <2>2
  <2> QED BY <2>2, <2>3, <2>4 DEF SyncedStays, Written
<1> QED BY <1>1, FileInvariance, PTL

(* The seqs grow along the file and the writer goes on above them, so no two *)
(* lines of a log have one seq (writer.ts:343-346).                          *)
THEOREM SeqsAreInOrder == Spec => []SeqsGrow
<1>1. FileInv => SeqsGrow BY DEF FileInv, SeqsCounted
<1> QED BY <1>1, FileInvariance, PTL

-----------------------------------------------------------------------------
(* What a reader is told, with one loss of power at most.                    *)

(* What TailInv says besides FileInv.                                        *)
TailParts == FewJunk /\ CursorStands /\ TailTellsAll

(* The line of a reader's list for a line of the file.                       *)
Told(l) == IF l.what = "event" THEN l.id ELSE 0

(* The parts of TailInv index by index.                                      *)
TailFacts ==
  /\ reader.offset \in Nat /\ reader.offset <= Len(file)
  /\ \A i, k \in 1..Len(file) : file[i] = Junk /\ file[k] = Junk => i = k
  /\ left.power > 0 => \A i \in 1..Len(file) : file[i] # Junk
  /\ reader.offset > 0 => Counts(file[reader.offset])
  /\ reader.seq = 0 \/ \E i \in 1..reader.offset : file[i].seq = reader.seq
  /\ \A i \in 1..Len(file) : i > reader.offset /\ file[i].seq > 0 => file[i].seq > reader.seq
  /\ Len(reader.given) = reader.offset
  /\ \A i \in 1..reader.offset : reader.given[i] = Told(file[i])

(* The two say the same.                                                     *)
LEMMA TailIs ==
  ASSUME FileInv
  PROVE  TailParts <=> TailFacts
<1>0. FileFacts BY FileIs
<1>1. /\ file \in Seq(Lines) /\ DOMAIN file = 1..Len(file) /\ Len(file) \in Nat
      /\ \A i \in 1..Len(file) : file[i] \in Lines
      /\ reader \in ReaderTypes
  BY <1>0 DEF FileFacts
<1> DEFINE o == reader.offset
           v == reader.given
           w == [i \in 1..o |-> Told(file[i])]
<1>2. o \in Nat /\ v \in Seq(0..MaxWrites) /\ DOMAIN v = 1..Len(v) /\ Len(v) \in Nat
      /\ v = [i \in 1..Len(v) |-> v[i]]
  <2>1. o \in Nat /\ v \in Seq(0..MaxWrites) BY <1>1 DEF ReaderTypes
  <2> QED BY <2>1, LenProperties
<1>3. TailTellsAll <=> o <= Len(file) /\ v = w BY DEF TailTellsAll, Told
<1>4. ASSUME v = w PROVE Len(v) = o /\ \A i \in 1..o : v[i] = Told(file[i])
  <2>1. DOMAIN v = 1..o BY <1>4
  <2>2. Len(v) = o
    <3> HIDE DEF v, o
    <3> QED BY <2>1, <1>2
  <2> QED BY <1>4, <2>2
<1>5. ASSUME Len(v) = o, \A i \in 1..o : v[i] = Told(file[i]) PROVE v = w
  <2> HIDE DEF v, o
  <2> QED BY <1>2, <1>5
<1>6. TailTellsAll <=> o <= Len(file) /\ Len(v) = o /\ \A i \in 1..o : v[i] = Told(file[i])
  <2> HIDE DEF v, w
  <2> QED BY <1>3, <1>4, <1>5
<1>7. FewJunk <=> /\ \A i, k \in 1..Len(file) : file[i] = Junk /\ file[k] = Junk => i = k
                  /\ left.power > 0 => \A i \in 1..Len(file) : file[i] # Junk
  BY <1>1 DEF FewJunk
<1>8. CursorStands <=>
        /\ reader.offset <= Len(file)
        /\ reader.offset > 0 => Counts(file[reader.offset])
        /\ reader.seq = 0 \/ \E i \in 1..reader.offset : file[i].seq = reader.seq
        /\ \A i \in 1..Len(file) : i > reader.offset /\ file[i].seq > 0 => file[i].seq > reader.seq
  BY <1>1 DEF CursorStands
<1> QED BY <1>2, <1>6, <1>7, <1>8 DEF TailParts, TailFacts

(* A step that leaves the lines up to the cursor, and the cursor, leaves     *)
(* what was told; new lines are above the cursor's seq.                      *)
LEMMA TailStays ==
  ASSUME FileFacts, TailFacts, NEW n \in Nat, Len(file') = n, UNCHANGED reader,
         reader.offset <= n,
         \A i \in 1..n : i <= Len(file) => file'[i] = file[i],
         \A i \in 1..n : i > Len(file) => /\ file'[i] # Junk
                                          /\ file'[i].seq > 0 => file'[i].seq > reader.seq,
         left'.power <= left.power, left'.power \in Nat, left.power \in Nat
  PROVE  TailFacts'
<1>a. Len(file) \in Nat /\ reader.offset \in Nat /\ reader.offset <= Len(file)
  BY DEF FileFacts, TailFacts
<1>b. \A i \in 1..n : i <= Len(file) => i \in 1..Len(file) OBVIOUS
<1>1. \A i \in 1..reader.offset : i \in 1..n /\ i \in 1..Len(file) /\ file'[i] = file[i] BY <1>a
<1>2. \A i, k \in 1..n : file'[i] = Junk /\ file'[k] = Junk => i = k
  <2> SUFFICES ASSUME NEW i \in 1..n, NEW k \in 1..n, file'[i] = Junk, file'[k] = Junk
               PROVE  i = k
    OBVIOUS
  <2>1. i <= Len(file) /\ k <= Len(file) BY <1>a
  <2> QED BY <2>1, <1>b DEF TailFacts
<1>3. left'.power > 0 => \A i \in 1..n : file'[i] # Junk
  <2> SUFFICES ASSUME left'.power > 0, NEW i \in 1..n PROVE file'[i] # Junk OBVIOUS
  <2>1. left.power > 0 OBVIOUS
  <2>2. CASE i <= Len(file) BY <2>1, <2>2, <1>b DEF TailFacts
  <2>3. CASE i > Len(file) BY <2>3
  <2> QED BY <2>2, <2>3, <1>a
<1>4. reader.offset > 0 => Counts(file'[reader.offset]) BY <1>1, <1>a DEF TailFacts
<1>5. reader.seq = 0 \/ \E i \in 1..reader.offset : file'[i].seq = reader.seq
  BY <1>1 DEF TailFacts
<1>6. \A i \in 1..n : i > reader.offset /\ file'[i].seq > 0 => file'[i].seq > reader.seq
  <2> TAKE i \in 1..n
  <2>1. CASE i <= Len(file) BY <2>1, <1>b DEF TailFacts
  <2>2. CASE i > Len(file) BY <2>2
  <2> QED BY <2>1, <2>2, <1>a
<1>7. \A i \in 1..reader.offset : reader.given[i] = Told(file'[i]) BY <1>1 DEF TailFacts
<1>8. Len(reader.given) = reader.offset BY DEF TailFacts
<1> QED BY <1>a, <1>2, <1>3, <1>4, <1>5, <1>6, <1>7, <1>8 DEF TailFacts

(* An action of the writer.                                                  *)
LEMMA WriterTells ==
  ASSUME FileInv, TailFacts,
         Create \/ CreateSyncs \/ ShortWrite \/ SyncFails \/ TimerFires \/ Close \/ Crash
           \/ \E what \in {"event", "newer"} : AppendSynced(what) \/ AppendTimed(what)
  PROVE  TailFacts'
<1>0. FileFacts BY FileIs
<1>1. /\ file \in Seq(Lines) /\ Len(file) \in Nat /\ left \in LeftTypes /\ writer.seq \in Nat
      /\ writer.seq <= writes /\ writer \in WriterTypes /\ writes \in Nat
  BY <1>0 DEF FileFacts
<1>2. UNCHANGED reader
  BY DEF Create, CreateSyncs, ShortWrite, SyncFails, TimerFires, Close, Crash, AppendSynced, AppendTimed
<1>3. UNCHANGED left \/ Spend("errors") \/ Spend("crashes")
  BY DEF Create, CreateSyncs, ShortWrite, SyncFails, TimerFires, Close, Crash, AppendSynced, AppendTimed
<1>4. left'.power <= left.power /\ left'.power \in Nat /\ left.power \in Nat
  <2>1. CASE UNCHANGED left BY <2>1, <1>1 DEF LeftTypes
  <2>2. CASE Spend("errors") \/ Spend("crashes")
    <3>1. left' \in LeftTypes /\ left'.power <= left.power /\ left.power \in Nat BY <2>2, <1>1, Spends
    <3> QED BY <3>1 DEF LeftTypes
  <2> QED BY <2>1, <2>2, <1>3
<1>5. reader.offset \in Nat /\ reader.offset <= Len(file) BY DEF TailFacts
<1> DEFINE l == Len(file)
<1>6. CASE UNCHANGED file
  <2>1. l \in Nat /\ Len(file') = l /\ file' = file BY <1>6, <1>1
  <2> HIDE DEF l
  <2>2. \A i \in 1..l : i <= Len(file) BY <2>1, <1>6
  <2> QED BY <1>0, <1>2, <1>4, <1>5, <2>1, <2>2, TailStays DEF l
<1>7. ASSUME NEW line \in Lines, file' = Append(file, line), line # Junk,
             line.seq > 0 => line.seq > reader.seq
      PROVE  TailFacts'
  <2> DEFINE n == Len(file) + 1
             s == Append(file, line)
  <2>1. n \in Nat /\ n > Len(file) BY <1>1
  <2>2. Len(s) = n /\ (\A i \in 1..Len(file) : s[i] = file[i]) /\ s[n] = line
    BY <1>1, AppendProperties
  <2>3. file' = s BY <1>7
  <2>4. \A i \in 1..n : i <= Len(file) => i \in 1..Len(file) BY <1>1
  <2>5. \A i \in 1..n : i > Len(file) => i = n BY <1>1
  <2> HIDE DEF n, s
  <2>6. \A i \in 1..n : i <= Len(file) => file'[i] = file[i] BY <2>2, <2>3, <2>4
  <2>7. \A i \in 1..n : i > Len(file) => /\ file'[i] # Junk
                                         /\ file'[i].seq > 0 => file'[i].seq > reader.seq
    BY <2>2, <2>3, <2>5, <1>7
  <2>8. reader.offset <= n BY <2>1, <1>5, <1>1
  <2> QED BY <1>0, <1>2, <1>4, <2>1, <2>2, <2>3, <2>6, <2>7, <2>8, TailStays
<1>8. CASE ShortWrite
  <2>1. file' = Append(file, Partial) BY <1>8 DEF ShortWrite, Write
  <2> QED BY <2>1, <1>7, LineSeqs
<1>9. reader.seq = 0 \/ \E i \in 1..Len(file) : file[i].seq = reader.seq
  <2>1. \A i \in 1..reader.offset : i \in 1..Len(file) BY <1>5, <1>1
  <2> QED BY <2>1 DEF TailFacts
<1>10. CASE Create
  <2> DEFINE line == Line("event", 1, 1)
  <2>1. file = <<>> /\ file' = Append(file, line) /\ writes < MaxWrites BY <1>10 DEF Create, Write
  <2>2. line \in Lines /\ line.seq = 1 BY <2>1, <1>1 DEF Line, Lines
  <2>3. line # Junk BY <2>2, LineSeqs
  <2>4. reader.seq = 0 BY <2>1, <1>9
  <2> HIDE DEF line
  <2> QED BY <2>1, <2>2, <2>3, <2>4, <1>7
<1>11. CASE \E what \in {"event", "newer"} : AppendSynced(what) \/ AppendTimed(what)
  <2>1. PICK what \in {"event", "newer"} : AppendSynced(what) \/ AppendTimed(what) BY <1>11
  <2> DEFINE line == Line(what, writer.seq + 1, writes + 1)
  <2>2. writer.state = "open" /\ writes < MaxWrites /\ file' = Append(file, line)
    BY <2>1 DEF AppendSynced, AppendTimed, Write
  <2>3. line \in Lines /\ line.seq = writer.seq + 1 BY <2>2, <1>1 DEF Line, Lines
  <2>4. line # Junk BY <2>3, <1>1, LineSeqs
  <2>5. reader.seq <= writer.seq
    <3>1. CASE reader.seq = 0 BY <3>1, <1>1
    <3>2. CASE reader.seq # 0
      <4>1. PICK i \in 1..Len(file) : file[i].seq = reader.seq BY <3>2, <1>9
      <4>2. file[i].seq \in Nat BY <1>0 DEF FileFacts
      <4>3. file[i].seq > 0 BY <4>1, <4>2, <3>2
      <4> QED BY <4>1, <4>3, <2>2, <1>0 DEF FileFacts
    <3> QED BY <3>1, <3>2
  <2>6. reader.seq \in Nat
    <3>1. reader \in ReaderTypes BY <1>0 DEF FileFacts
    <3> QED BY <3>1 DEF ReaderTypes
  <2> HIDE DEF line
  <2> QED BY <2>2, <2>3, <2>4, <2>5, <2>6, <1>1, <1>7
<1>12. CASE CreateSyncs \/ SyncFails \/ TimerFires \/ Close \/ Crash
  <2>1. UNCHANGED file BY <1>12 DEF CreateSyncs, SyncFails, TimerFires, Close, Crash
  <2> QED BY <2>1, <1>6
<1> QED BY <1>8, <1>10, <1>11, <1>12

(* The line an open takes away is not behind the cursor.                     *)
LEMMA OpenTells ==
  ASSUME FileInv, TailFacts, Open
  PROVE  TailFacts'
<1>0. FileFacts BY FileIs
<1>1. file \in Seq(Lines) /\ Len(file) \in Nat /\ left \in LeftTypes BY <1>0 DEF FileFacts
<1> DEFINE n == Len(Committed(file))
<1>2. /\ Len(file') = n /\ UNCHANGED <<reader, left>>
      /\ Torn(file) <=> Len(file) > 0 /\ ~Counts(file[Len(file)])
      /\ n = IF Torn(file) THEN Len(file) - 1 ELSE Len(file)
      /\ \A i \in 1..n : file'[i] = file[i]
  BY <1>1, CommittedIs DEF Open
<1> HIDE DEF n
<1>3. n \in Nat /\ n <= Len(file) BY <1>1, <1>2
<1>4. reader.offset <= n
  <2>1. /\ reader.offset \in Nat /\ reader.offset <= Len(file)
        /\ reader.offset > 0 => Counts(file[reader.offset])
    BY DEF TailFacts
  <2>2. CASE Torn(file)
    <3>1. reader.offset # Len(file) BY <2>1, <2>2, <1>2
    <3> QED BY <3>1, <2>1, <2>2, <1>1, <1>2
  <2>3. CASE ~Torn(file) BY <2>1, <2>3, <1>2
  <2> QED BY <2>2, <2>3
<1>5. left'.power <= left.power /\ left'.power \in Nat /\ left.power \in Nat
  BY <1>1, <1>2 DEF LeftTypes
<1>6. \A i \in 1..n : ~(i > Len(file)) BY <1>1, <1>3
<1> QED BY <1>0, <1>2, <1>3, <1>4, <1>5, <1>6, TailStays

(* The loss of power starts the reader anew, and writes the only zeros.      *)
LEMMA PowerLossTells ==
  ASSUME MaxPower <= 1, FileInv, TailFacts, PowerLoss
  PROVE  TailFacts'
<1>0. FileFacts BY FileIs
<1>f. file \in Seq(Lines) /\ Len(file) \in Nat /\ durable \in Nat /\ left \in LeftTypes
  BY <1>0 DEF FileFacts
<1>1. PICK n \in durable..Len(file), cut \in BOOLEAN :
        \E a \in durable + 1 .. n + 1 : \E b \in a - 1 .. n : file' = Lost(n, cut, a, b)
  BY DEF PowerLoss, Lost
<1>2. PICK a \in durable + 1 .. n + 1 : \E b \in a - 1 .. n : file' = Lost(n, cut, a, b)
  BY <1>1
<1>3. PICK b \in a - 1 .. n : file' = Lost(n, cut, a, b) BY <1>2
<1>4. n \in 0..Len(file) /\ n \in Nat /\ a \in 1..n + 1 /\ a \in Nat /\ b \in Nat
      /\ a - 1 <= b /\ b <= n
  BY <1>f
<1> DEFINE m == Len(file')
           s == file'
<1>5. /\ s \in Seq(Lines)
      /\ m = (IF cut THEN n + 1 ELSE n) - Shift(a, b)
      /\ \A i \in 1..m : s[i] = IF cut /\ i = m THEN Partial
                                ELSE IF a <= b /\ i = a THEN Junk ELSE file[WasAt(i, a, b)]
  <2> DEFINE r == Lost(n, cut, a, b)
  <2>1. Len(r) = (IF cut THEN n + 1 ELSE n) - Shift(a, b) /\ r \in Seq(Lines) BY <1>4, <1>f, LostIs
  <2>2. \A i \in 1..Len(r) : r[i] = IF cut /\ i = Len(r) THEN Partial
                                    ELSE IF a <= b /\ i = a THEN Junk ELSE file[WasAt(i, a, b)]
    BY <1>4, <1>f, LostIs
  <2>3. s = r BY <1>3
  <2> HIDE DEF r
  <2> QED BY <2>1, <2>2, <2>3
<1>6. left.power = 1 /\ left'.power = 0
  <2>1. left.power > 0 /\ left' = [left EXCEPT !["power"] = left["power"] - 1] BY DEF PowerLoss, Spend
  <2>2. left.power \in 0..MaxPower BY <1>f DEF LeftTypes
  <2>3. left.power = 1 BY <2>1, <2>2
  <2> QED BY <2>1, <2>3, <1>f DEF LeftTypes
<1>7. \A i \in 1..Len(file) : file[i] # Junk BY <1>6 DEF TailFacts
<1>8. /\ reader'.offset = 0 /\ reader'.seq = 0 /\ reader'.given = <<>>
      /\ Len(reader'.given) = 0
  BY DEF PowerLoss, Start
<1> HIDE DEF m, s
<1>9. m \in Nat /\ \A i \in 1..m : ~(cut /\ i = m) => WasAt(i, a, b) \in 1..Len(file)
  <2>1. m \in Nat /\ m = Len(s) BY <1>5, LenProperties DEF m, s
  <2>2. Shift(a, b) \in Nat /\ m = (IF cut THEN n + 1 ELSE n) - Shift(a, b) BY <1>4, <1>5 DEF Shift
  <2>3. ASSUME NEW i \in 1..m, ~(cut /\ i = m) PROVE WasAt(i, a, b) \in 1..Len(file)
    <3>1. i <= n - Shift(a, b) BY <2>1, <2>2, <2>3, <1>4
    <3>2. i \in Nat /\ i >= 1 BY <2>1
    <3>3. WasAt(i, a, b) = i \/ WasAt(i, a, b) = i + Shift(a, b) BY DEF WasAt
    <3> QED BY <3>1, <3>2, <3>3, <2>2, <1>4, <1>f
  <2> QED BY <2>1, <2>3
<1>10. \A i \in 1..m : s[i] = Junk => i = a BY <1>5, <1>7, <1>9, LineSeqs
<1> USE DEF m, s
<1>11. /\ \A i, k \in 1..Len(file') : file'[i] = Junk /\ file'[k] = Junk => i = k
       /\ \A i \in 1..Len(file') : i > 0 /\ file'[i].seq > 0 => file'[i].seq > 0
  BY <1>10
<1> QED BY <1>6, <1>8, <1>9, <1>11 DEF TailFacts

(* What a poll consumes ends with a line no open takes away: the one it left *)
(* is the line of zeros, and there is no other.                              *)
LEMMA PollTells ==
  ASSUME FileInv, TailFacts, Poll
  PROVE  TailFacts'
<1>0. FileFacts BY FileIs
<1>1. PICK g \in Nat, m \in Nat : Polled(g, m) BY PollIs
<1>2. UNCHANGED <<file, left>> BY DEF Poll
<1> DEFINE o == reader.offset
           l == Len(file)
<1>3. /\ l \in Nat /\ \A i \in 1..l : file[i] \in Lines
      /\ \A i \in 1..l : file[i] = Partial => i = l
      /\ \A i \in 1..l : file[i].seq \in Nat
      /\ \A i, k \in 1..l : file[i].seq > 0 /\ file[k].seq > 0 /\ i < k => file[i].seq < file[k].seq
      /\ reader \in ReaderTypes
  BY <1>0 DEF FileFacts
<1>r. reader.seq \in Nat BY <1>3 DEF ReaderTypes
<1>4. /\ o \in Nat /\ o + g <= l
      /\ \/ m = g /\ (g > 0 => Counts(file[o + g]))
         \/ m = g - 1 /\ ~Counts(file[o + g])
      /\ g > 0 => file[o + g] # Partial
      /\ reader'.offset = o + m
      /\ reader'.seq = IF Giving(m) = {} THEN reader.seq ELSE file[o + Max(Giving(m))].seq
  BY <1>1 DEF Polled
<1>5. /\ Len(reader.given) = o /\ Len(reader'.given) = o + m
      /\ \A i \in 1..o : reader'.given[i] = reader.given[i]
      /\ \A i \in 1..m : reader'.given[o + i] = IF i \in Giving(m) THEN file[o + i].id ELSE 0
  BY <1>1 DEF Polled, TailFacts
<1>6. /\ \A i, k \in 1..l : file[i] = Junk /\ file[k] = Junk => i = k
      /\ o > 0 => Counts(file[o])
      /\ reader.seq = 0 \/ \E i \in 1..o : file[i].seq = reader.seq
      /\ \A i \in 1..l : i > o /\ file[i].seq > 0 => file[i].seq > reader.seq
      /\ \A i \in 1..o : reader.given[i] = Told(file[i])
  BY DEF TailFacts
<1> HIDE DEF o, l
<1>7. m \in Nat /\ m <= g /\ o + m \in Nat /\ o + m <= l BY <1>3, <1>4
<1>8. o + m > 0 => Counts(file[o + m])
  <2>1. CASE m = 0 BY <2>1, <1>4, <1>6
  <2>2. CASE m > 0 /\ m = g BY <2>2, <1>4
  <2>3. CASE m > 0 /\ m # g
    <3>1. m = g - 1 /\ ~Counts(file[o + g]) /\ file[o + g] # Partial /\ g > 0
      BY <2>3, <1>4, <1>7
    <3>2. /\ o + g \in 1..l /\ o + m \in 1..l /\ o + m # l /\ o + m # o + g
      BY <3>1, <2>3, <1>3, <1>4, <1>7
    <3>3. file[o + g] = Junk BY <3>1, <3>2, <1>3, LineSeqs
    <3>4. file[o + m] # Junk /\ file[o + m] # Partial BY <3>2, <3>3, <1>3, <1>6
    <3> QED BY <3>2, <3>4, <1>3, LineSeqs
  <2> QED BY <2>1, <2>2, <2>3, <1>7
<1>9. Giving(m) # {} => /\ Max(Giving(m)) \in 1..m /\ o + Max(Giving(m)) \in 1..l
                        /\ Gives(file[o + Max(Giving(m))])
  <2> SUFFICES ASSUME Giving(m) # {}
               PROVE  /\ Max(Giving(m)) \in 1..m /\ o + Max(Giving(m)) \in 1..l
                      /\ Gives(file[o + Max(Giving(m))])
    OBVIOUS
  <2>1. Giving(m) \in SUBSET (1..m) BY DEF Giving
  <2>2. Max(Giving(m)) \in Giving(m) BY <2>1, <1>7, MaxIs
  <2> DEFINE x == Max(Giving(m))
  <2>3. x \in 1..m /\ Gives(file[o + x]) BY <2>2 DEF Giving, o
  <2> HIDE DEF x
  <2>4. o + x \in 1..l BY <2>3, <1>3, <1>4, <1>7
  <2> QED BY <2>3, <2>4 DEF x
<1>10. reader'.seq = 0 \/ \E i \in 1..o + m : file[i].seq = reader'.seq
  <2>1. CASE Giving(m) = {}
    <3>1. \A i \in 1..o : i \in 1..o + m BY <1>4, <1>7
    <3> QED BY <2>1, <3>1, <1>4, <1>6
  <2>2. CASE Giving(m) # {}
    <3> DEFINE x == Max(Giving(m))
    <3>1. x \in 1..m /\ reader'.seq = file[o + x].seq BY <2>2, <1>4, <1>9
    <3> HIDE DEF x
    <3>2. o + x \in 1..o + m BY <3>1, <1>4, <1>7
    <3> QED BY <3>1, <3>2
  <2> QED BY <2>1, <2>2
<1>11. \A i \in 1..l : i > o + m /\ file[i].seq > 0 => file[i].seq > reader'.seq
  <2> SUFFICES ASSUME NEW i \in 1..l, i > o + m, file[i].seq > 0
               PROVE  file[i].seq > reader'.seq
    OBVIOUS
  <2>1. i > o BY <1>3, <1>4, <1>7
  <2>2. file[i].seq > reader.seq BY <2>1, <1>6
  <2>3. CASE Giving(m) = {} BY <2>2, <2>3, <1>4
  <2>4. CASE Giving(m) # {}
    <3> DEFINE x == o + Max(Giving(m))
    <3>1. x \in 1..l /\ x < i /\ Gives(file[x]) /\ reader'.seq = file[x].seq
      <4> DEFINE y == Max(Giving(m))
      <4>1. y \in 1..m /\ o + y \in 1..l /\ Gives(file[o + y]) /\ reader'.seq = file[o + y].seq
        BY <2>4, <1>4, <1>9
      <4> HIDE DEF y
      <4>2. o + y < i BY <4>1, <1>3, <1>4, <1>7
      <4> QED BY <4>1, <4>2 DEF y
    <3> HIDE DEF x
    <3>2. file[x].seq > 0 BY <3>1, <1>3, <1>r DEF Gives
    <3> QED BY <3>1, <3>2, <1>3
  <2> QED BY <2>3, <2>4
<1>12. \A i \in 1..o + m : reader'.given[i] = Told(file[i])
  <2> TAKE i \in 1..o + m
  <2>1. CASE i <= o
    <3>1. i \in 1..o BY <2>1, <1>4, <1>7
    <3> QED BY <3>1, <1>5, <1>6
  <2>2. CASE i > o
    <3> DEFINE j == i - o
    <3>1. j \in 1..m /\ o + j = i /\ i \in 1..l BY <2>2, <1>3, <1>4, <1>7
    <3> HIDE DEF j
    <3>2. reader'.given[i] = IF j \in Giving(m) THEN file[i].id ELSE 0 BY <3>1, <1>5
    <3>3. j \in Giving(m) <=> Gives(file[i]) BY <3>1 DEF Giving, o
    <3>4. Gives(file[i]) <=> file[i].what = "event"
      <4>1. Gives(file[i]) => file[i].what = "event" BY DEF Gives
      <4>2. ASSUME file[i].what = "event" PROVE Gives(file[i])
        <5>1. Counts(file[i]) BY <4>2 DEF Counts
        <5>2. file[i].seq > 0 BY <5>1, <3>1, <1>3, LineSeqs
        <5>3. file[i].seq > reader.seq BY <5>2, <3>1, <2>2, <1>6
        <5> QED BY <4>2, <5>3 DEF Gives
      <4> QED BY <4>1, <4>2
    <3> QED BY <3>2, <3>3, <3>4 DEF Told
  <2> QED BY <2>1, <2>2, <1>4, <1>7
<1>13. left.power > 0 => \A i \in 1..Len(file) : file[i] # Junk BY DEF TailFacts
<1>14. /\ reader'.offset = o + m /\ Len(file') = l /\ file' = file /\ left' = left
       /\ Len(reader'.given) = o + m
  BY <1>2, <1>4, <1>5 DEF l
<1> QED BY <1>6, <1>7, <1>8, <1>10, <1>11, <1>12, <1>13, <1>14 DEF TailFacts, l

(* TailInv is inductive, with one loss of power at most.                     *)
(* Nothing was told, and there is nothing to tell.                           *)
LEMMA InitTailFacts ==
  ASSUME Init PROVE TailFacts
<1>1. file = <<>> /\ Len(file) = 0 /\ reader = Start BY DEF Init
<1>2. /\ reader.offset = 0 /\ reader.seq = 0 /\ Len(reader.given) = 0 BY <1>1 DEF Start
<1> QED BY <1>1, <1>2 DEF TailFacts

(* Every step keeps TailFacts.                                               *)
LEMMA TailStep ==
  ASSUME MaxPower <= 1, FileInv, TailFacts, [Next]_vars
  PROVE  TailFacts'
<1>1. CASE Open BY <1>1, OpenTells
<1>2. CASE Create \/ CreateSyncs \/ ShortWrite \/ SyncFails \/ TimerFires \/ Close \/ Crash
             \/ \E what \in {"event", "newer"} : AppendSynced(what) \/ AppendTimed(what)
  BY <1>2, WriterTells
<1>3. CASE PowerLoss BY <1>3, PowerLossTells
<1>4. CASE Poll BY <1>4, PollTells
<1>5. CASE UNCHANGED vars
  <2>1. UNCHANGED <<file, reader, left>> BY <1>5 DEF vars
  <2> QED BY <2>1 DEF TailFacts
<1> QED BY <1>1, <1>2, <1>3, <1>4, <1>5 DEF Next

(* With one loss of power at most, TailInv holds in every reachable state:   *)
(* the cursor stands behind a line that no open takes away.                  *)
THEOREM TailInvariance == ASSUME MaxPower <= 1 PROVE Spec => []TailInv
<1> DEFINE Inv == FileInv /\ TailFacts
<1>1. Init => Inv BY InitFileInv, InitTailFacts
<1>2. Inv /\ [Next]_vars => Inv' BY FileStep, TailStep
<1>3. Inv => TailInv BY TailIs DEF TailInv, TailParts
<1> QED BY <1>1, <1>2, <1>3, PTL DEF Spec

(* With one loss of power at most, a reader that follows the file with       *)
(* tail() was told of each line behind its cursor, as the file is now, the   *)
(* event it is, once and in order (reader.ts:175-245).                       *)
THEOREM TailToldAll == ASSUME MaxPower <= 1 PROVE Spec => []TailTellsAll
<1>1. TailInv => TailTellsAll BY DEF TailInv
<1> QED BY <1>1, TailInvariance, PTL
=============================================================================
