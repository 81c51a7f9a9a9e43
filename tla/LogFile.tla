------------------------------ MODULE LogFile ------------------------------
(***************************************************************************)
(* The file of a call's event log: LogWriter's open, create, append, sync  *)
(* and close (src/core/log/writer.ts) under crashes of the process and     *)
(* losses of power, and a reader that follows it with tail()               *)
(* (src/core/log/reader.ts).                                               *)
(*                                                                         *)
(* One writer is open at a time (WriterLock).  A line is one element of    *)
(* the file: bytes matter only where a write or a power loss cuts one.     *)
(* tail() asks for the size and then reads, so what a poll gets is the     *)
(* file up to any point, which may lie within a line (Poll).               *)
(*                                                                         *)
(* A definition introduced by "Mutant:" is no part of the specification.   *)
(***************************************************************************)
EXTENDS SequencesExt, Naturals

CONSTANTS
  MaxWrites,   \* bound: lines ever written
  MaxCrashes,  \* bound: ends of the process without a close
  MaxPower,    \* bound: losses of power
  MaxErrors    \* bound: short writes and syncs that fail

ASSUME BoundsAssumption == {MaxWrites, MaxCrashes, MaxPower, MaxErrors} \subseteq Nat

VARIABLES
  file,      \* the lines of events.jsonl
  durable,   \* how many of them the disk has
  writer,    \* the process's LogWriter
  reader,    \* a reader's TailCursor, and per line behind it the event it was given
  writes,    \* lines written so far
  kept,      \* the lines a sync has put on the disk
  left       \* crashes, power losses and errors left

vars == <<file, durable, writer, reader, writes, kept, left>>

(* What a line is: an event; one of a type only a newer build knows; a line  *)
(* that is not JSON; one without its newline.  A line goes by its place in   *)
(* the order of all writes.                                                  *)
Line(what, seq, id) == [what |-> what, seq |-> seq, id |-> id]

Junk == Line("junk", 0, 0)
Partial == Line("partial", 0, 0)

Lines ==
  [what : {"event", "newer"}, seq : 1..MaxWrites, id : 1..MaxWrites] \cup {Junk, Partial}

(* "making" is create() before its sync is done; "broken" is a writer that   *)
(* refuses appends after a short write.                                      *)
WriterStates == {"none", "making", "open", "broken"}

NoWriter == [state |-> "none", seq |-> 0, dirty |-> FALSE, timer |-> FALSE]

Start == [offset |-> 0, seq |-> 0, given |-> <<>>]

TypeOK ==
  /\ file \in Seq(Lines)
  /\ \A i \in DOMAIN file : file[i] = Partial => i = Len(file)
  /\ durable \in 0..Len(file)
  /\ writer \in [state : WriterStates, seq : 0..MaxWrites, dirty : BOOLEAN, timer : BOOLEAN]
  /\ reader \in [offset : Nat, seq : 0..MaxWrites, given : Seq(0..MaxWrites)]
  /\ writes \in 0..MaxWrites
  /\ kept \subseteq 1..MaxWrites
  /\ left \in [crashes : 0..MaxCrashes, power : 0..MaxPower, errors : 0..MaxErrors]

Init ==
  /\ file = <<>> /\ durable = 0
  /\ writer = NoWriter /\ reader = Start
  /\ writes = 0 /\ kept = {}
  /\ left = [crashes |-> MaxCrashes, power |-> MaxPower, errors |-> MaxErrors]

Spend(what) == left[what] > 0 /\ left' = [left EXCEPT ![what] = @ - 1]

Written(lines) == {lines[i].id : i \in DOMAIN lines} \ {0}

-----------------------------------------------------------------------------
(* Reading (parseLog).                                                       *)

(* Mutant: any line a reader cannot use is a torn one.                       *)
TornUnlessEvent(lines) ==
  lines # <<>> /\ Last(lines).what # "event"

(* A last line without its newline is torn, and one that is not JSON too.    *)
Torn(lines) == lines # <<>> /\ Last(lines).what \in {"partial", "junk"}

Committed(lines) == IF Torn(lines) THEN Front(lines) ELSE lines

(* Mutant: the seq of a line this build does not know does not count.        *)
CountsEventsOnly(line) == line.what = "event"

Counts(line) == line.what \in {"event", "newer"}

(* lastSeq.                                                                  *)
LastSeq(lines) ==
  LET seqs == {lines[i].seq : i \in {k \in DOMAIN lines : Counts(lines[k])}}
  IN CHOOSE n \in seqs \cup {0} : \A m \in seqs : m <= n

-----------------------------------------------------------------------------
(* The writer.                                                               *)

(* The constructor: a torn line is truncated, and that is synced.            *)
Open ==
  /\ writer.state = "none"
  /\ file # <<>>
  /\ file' = Committed(file)
  /\ durable' = IF Torn(file) THEN Len(file) - 1 ELSE durable
  /\ kept' = IF Torn(file) THEN kept \cup Written(Committed(file)) ELSE kept
  /\ writer' = [NoWriter EXCEPT !.state = "open", !.seq = LastSeq(Committed(file))]
  /\ UNCHANGED <<reader, writes, left>>

(* One write() of one line, whole or short.                                  *)
Write(line) ==
  /\ writes < MaxWrites
  /\ writes' = writes + 1
  /\ file' = Append(file, line)

(* create: call.created is written; its sync does not hold the event loop.   *)
Create ==
  /\ writer.state = "none" /\ file = <<>> /\ writes = 0
  /\ Write(Line("event", 1, 1))
  /\ writer' = [NoWriter EXCEPT !.state = "making", !.seq = 1, !.dirty = TRUE]
  /\ UNCHANGED <<durable, reader, kept, left>>

Synced ==
  /\ durable' = Len(file)
  /\ kept' = kept \cup Written(file)

(* A sync that fails makes create() close the log, with no other sync.       *)
CreateSyncs ==
  /\ writer.state = "making"
  /\ \/ /\ Synced
        /\ writer' = [writer EXCEPT !.state = "open", !.dirty = FALSE]
        /\ UNCHANGED left
     \/ /\ Spend("errors")
        /\ writer' = NoWriter
        /\ UNCHANGED <<durable, kept>>
  /\ UNCHANGED <<file, reader, writes>>

(* append of a lifecycle event: written and synced before it returns, unless *)
(* the sync throws.  A build may write what another does not know.  A log    *)
(* whose first line was lost takes call.created only, which nobody writes    *)
(* then.                                                                     *)
AppendSynced(what) ==
  LET line == Line(what, writer.seq + 1, writes + 1)
  IN /\ writer.state = "open" /\ writer.seq > 0
     /\ Write(line)
     /\ \/ /\ durable' = Len(file) + 1
           /\ kept' = kept \cup Written(Append(file, line))
           /\ writer' = [writer EXCEPT !.seq = @ + 1, !.dirty = FALSE, !.timer = FALSE]
           /\ UNCHANGED left
        \/ /\ Spend("errors")
           /\ writer' = [writer EXCEPT !.seq = @ + 1, !.dirty = TRUE, !.timer = FALSE]
           /\ UNCHANGED <<durable, kept>>
     /\ UNCHANGED reader

(* Any other append sets the timer of the sync.                              *)
AppendTimed(what) ==
  /\ writer.state = "open" /\ writer.seq > 0
  /\ Write(Line(what, writer.seq + 1, writes + 1))
  /\ writer' = [writer EXCEPT !.seq = @ + 1, !.dirty = TRUE, !.timer = TRUE]
  /\ UNCHANGED <<durable, reader, kept, left>>

(* Mutant: a writer whose line was cut goes on.                              *)
AfterShortWriteOpen == writer

(* A short write: no append follows, nor does a sync.                        *)
AfterShortWrite == [writer EXCEPT !.state = "broken"]

ShortWrite ==
  /\ writer.state = "open" /\ writer.seq > 0
  /\ Spend("errors")
  /\ Write(Partial)
  /\ writer' = AfterShortWrite
  /\ UNCHANGED <<durable, reader, kept>>

(* A sync by the timer or by close that fails: the writer stays as it is,    *)
(* and close may be asked for again.                                         *)
SyncFails ==
  /\ writer.state = "open" /\ writer.dirty
  /\ Spend("errors")
  /\ writer' = [writer EXCEPT !.timer = FALSE]
  /\ UNCHANGED <<file, durable, reader, writes, kept>>

TimerFires ==
  /\ writer.timer
  /\ IF writer.state = "open"
     THEN Synced /\ writer' = [writer EXCEPT !.timer = FALSE, !.dirty = FALSE]
     ELSE writer' = [writer EXCEPT !.timer = FALSE] /\ UNCHANGED <<durable, kept>>
  /\ UNCHANGED <<file, reader, writes, left>>

Close ==
  /\ writer.state \in {"open", "broken"}
  /\ IF writer.state = "open" /\ writer.dirty THEN Synced ELSE UNCHANGED <<durable, kept>>
  /\ writer' = NoWriter
  /\ UNCHANGED <<file, reader, writes, left>>

(* The process ends: what was written stays.                                 *)
Crash ==
  /\ writer.state # "none"
  /\ Spend("crashes")
  /\ writer' = NoWriter
  /\ UNCHANGED <<file, durable, reader, writes, kept>>

(* Of what was not synced a part reached the disk: the lines after n are     *)
(* lost, or the first of them is cut, and a block of zeros may lie over the  *)
(* lines from a to b, which makes one line of them.  The reader died too.    *)
PowerLoss ==
  /\ Spend("power")
  /\ \E n \in durable..Len(file), cut \in BOOLEAN :
       /\ cut => n < Len(file)
       /\ ~(n > durable /\ file[n] = Partial)
       /\ \E a \in durable + 1 .. n + 1 : \E b \in a - 1 .. n :
            LET zeros == IF a <= b THEN <<Junk>> ELSE <<>>
                lines == SubSeq(file, 1, a - 1) \o zeros \o SubSeq(file, b + 1, n)
                           \o IF cut THEN <<Partial>> ELSE <<>>
            IN file' = lines /\ durable' = Len(lines)
  /\ writer' = NoWriter
  /\ reader' = Start
  /\ UNCHANGED <<writes, kept>>

-----------------------------------------------------------------------------
(* The reader.                                                               *)

(* Mutant: every complete line a poll got is consumed.                       *)
ConsumedAll(lines) == lines

(* Up to the last line that is no torn one.                                  *)
Consumed(lines) == Committed(lines)

(* A line that was cut has no newline yet and is not parsed.                 *)
Complete(lines) == IF lines # <<>> /\ Last(lines) = Partial THEN Front(lines) ELSE lines

(* Events at or before the cursor's seq are dropped.                         *)
Gives(line) == line.what = "event" /\ line.seq > reader.seq

(* tail: what lies between its cursor and the end of what it got, as parseLog *)
(* reads it; the cursor's seq becomes that of the last event.                *)
Poll ==
  \E n \in reader.offset..Len(file) :
    LET lines == Consumed(Complete(SubSeq(file, reader.offset + 1, n)))
        giving == {i \in DOMAIN lines : Gives(lines[i])}
    IN /\ reader' = [offset |-> reader.offset + Len(lines),
                     seq |-> IF giving = {} THEN reader.seq ELSE lines[Max(giving)].seq,
                     given |-> reader.given \o
                       [i \in DOMAIN lines |-> IF i \in giving THEN lines[i].id ELSE 0]]
       /\ UNCHANGED <<file, durable, writer, writes, kept, left>>

Next ==
  \/ Open \/ Create \/ CreateSyncs \/ ShortWrite \/ SyncFails \/ TimerFires \/ Close
  \/ \E what \in {"event", "newer"} : AppendSynced(what) \/ AppendTimed(what)
  \/ Crash \/ PowerLoss \/ Poll

Spec == Init /\ [][Next]_vars

-----------------------------------------------------------------------------
(* What a sync has put on the disk stays in the log, whatever is cut, lost   *)
(* or truncated after it: an open takes away one line at most, and only one  *)
(* that no sync covered (writer.ts:330-349).                                 *)
SyncedStays == kept \subseteq Written(file)

(* The sequence numbers of a log grow from line to line, through crashes,    *)
(* lines of newer builds and lines that cannot be read, so no two events     *)
(* have one; and the writer goes on after the last (writer.ts:343-346).      *)
SeqsGrow ==
  LET numbered == {i \in DOMAIN file : file[i].seq > 0}
  IN /\ \A i, k \in numbered : i < k => file[i].seq < file[k].seq
     /\ writer.state # "none" => \A i \in numbered : file[i].seq <= writer.seq

(* A reader is given every event once and in order, and nothing that an open *)
(* of the log then takes away: of each line before its cursor, in the file   *)
(* as it is now, it was given the event, and of no other (reader.ts:175-245). *)
TailTellsAll ==
  /\ reader.offset <= Len(file)
  /\ reader.given = [i \in 1..reader.offset |-> IF file[i].what = "event" THEN file[i].id ELSE 0]

-----------------------------------------------------------------------------
(* The inductive invariant behind them.                                      *)

(* A writer that may go on writes after a whole line.                        *)
EndsWhole ==
  writer.state \in {"making", "open"} => \A i \in DOMAIN file : file[i] # Partial

(* What was synced is in the part of the file the disk has.                  *)
KeptDurable == kept \subseteq {file[i].id : i \in 1..durable}

(* No seq is above the writer's, nor the writer's above the lines written.   *)
SeqsCounted ==
  /\ SeqsGrow
  /\ \A i \in DOMAIN file : file[i].seq <= writes
  /\ writer.seq <= writes

FileInv == TypeOK /\ EndsWhole /\ KeptDurable /\ SeqsCounted

(* One loss of power makes one line of zeros at most.                        *)
FewJunk ==
  /\ \A i, k \in DOMAIN file : file[i] = Junk /\ file[k] = Junk => i = k
  /\ left.power > 0 => \A i \in DOMAIN file : file[i] # Junk

(* The cursor stands behind a line no open takes away, and its seq is that   *)
(* of a line it passed, below those of the lines to come.                    *)
CursorStands ==
  /\ reader.offset <= Len(file)
  /\ reader.offset > 0 => Counts(file[reader.offset])
  /\ reader.seq = 0 \/ \E i \in 1..reader.offset : file[i].seq = reader.seq
  /\ \A i \in DOMAIN file : i > reader.offset /\ file[i].seq > 0 => file[i].seq > reader.seq

TailInv == FileInv /\ FewJunk /\ CursorStands /\ TailTellsAll
=============================================================================
