----------------------------- MODULE LogFilePosition -----------------------------
(***************************************************************************)
(* GetMatchedRows of the log file provider: every invocation runs a        *)
(* process, scxlogfilereader, that opens the log file, seeks to the        *)
(* position an earlier one persisted for the same qid, reads rows up to a  *)
(* limit, persists the new position and writes the rows to its standard    *)
(* output (logfileutils.cpp, logfilereader.cpp).  Meanwhile others append  *)
(* to the log file, rotate it and truncate it, and the process may be      *)
(* killed.  The provider lock lets one invocation run at a time.           *)
(*                                                                         *)
(* A row is its number in the order of writing, and every row matches.     *)
(* Most rows are written at once; a row l of Slow is written in two        *)
(* pieces, l and -l, and is no row of its own before the second, which     *)
(* ends it, is there.  A position counts pieces.                           *)
(***************************************************************************)
EXTENDS Integers, SequencesExt

CONSTANTS Inodes,       \* inode numbers the file system hands out
          FirstInode,   \* the one of the first log file
          MaxMatched,   \* cMaxMatchedRows
          MaxRows,      \* bound: rows written
          Slow,         \* the rows that are written in two pieces
          MaxChanges,   \* bound: rotations and truncations
          MaxFailures   \* bound: kills, failures to persist, streams gone bad

ASSUME InodeAssumption == FirstInode \in Inodes
ASSUME MaxMatchedAssumption == MaxMatched \in Nat \ {0}
ASSUME BoundsAssumption == MaxRows \in Nat /\ MaxChanges \in Nat /\ MaxFailures \in Nat
ASSUME SlowAssumption == Slow \subseteq 1 .. MaxRows

VARIABLES log,       \* the file at the path: inode, rows, and which contents it is
          old,       \* rows of the file the stream has open after a rotation
          disk,      \* the persisted record
          r,         \* the reader process
          written,   \* the piece that was written last
          changes, failures,
          delivered, \* history: how often each piece reached the provider: 0, 1, more
          excused,   \* history: pieces that were knowingly passed over
          overlapped, \* history: pieces there was trouble with while a reader ran
          unfinished, \* history: rows that had no end yet when a reader ran, or are cut
                      \* by a rotation, a truncation, a position of other contents or
                      \* a stream that went bad
          split      \* history: rows of which a part was in an answer as a row

env == <<written, changes, failures>>
history == <<delivered, excused, overlapped, unfinished, split>>
posVars == <<log, old, disk, r, env, history>>

Rows == 1 .. MaxRows
Pieces == Rows \cup {-l : l \in Slow}
Larger(a, b) == IF a > b THEN a ELSE b
First(n, q) == Range(SubSeq(q, 1, IF n < Len(q) THEN n ELSE Len(q)))

NoRecord == [state |-> "none", pos |-> 0, ino |-> 0, size |-> 0, of |-> 0]
Corrupt == [NoRecord EXCEPT !.state = "corrupt"]

\* at: where the process is; pos: the position of the stream; onOld: the file
\* was rotated away under the stream; saved, ino, size: m_Pos, m_StIno, m_StSize;
\* of: history, the contents they are about, 0 if about two; matched: rows read;
\* good: the stream can be read on; cut: the row of which a part was read as a row
\* when the stream went bad, or 0.
NoReader == [at |-> "none", pos |-> 0, onOld |-> FALSE, saved |-> 0, ino |-> 0,
             size |-> 0, of |-> 0, matched |-> {}, good |-> TRUE, cut |-> 0]

PosInit == /\ log = [ino |-> FirstInode, rows |-> <<>>, born |-> 1]
           /\ old = <<>>
           /\ disk = NoRecord
           /\ r = NoReader
           /\ written = 0 /\ changes = 0 /\ failures = 0
           /\ delivered = [p \in Pieces |-> 0]
           /\ excused = {} /\ overlapped = {} /\ unfinished = {} /\ split = {}

Stream == IF r.onOld THEN old ELSE log.rows

-----------------------------------------------------------------------------
(* What others do to the log file.                                         *)

Running == r.at \in {"position", "stat", "read"}

\* The row at the end of the file that is not finished.
Unfinished == IF written \in Slow /\ log.rows # <<>> THEN {written} ELSE {}

\* The rest of a row, or the next row, or its first piece.
NextPiece(p) == IF p \in Slow THEN -p ELSE IF p < 0 THEN 1 - p ELSE p + 1

Append1 == LET piece == NextPiece(written)
           IN  /\ piece <= MaxRows
               /\ written' = piece
               /\ log' = [log EXCEPT !.rows = Append(@, piece)]
               /\ overlapped' = IF Running THEN overlapped \cup {piece} ELSE overlapped
               /\ unfinished' = IF r.at # "none" /\ piece \in Slow
                                  THEN unfinished \cup {piece} ELSE unfinished
               /\ UNCHANGED <<old, disk, r, changes, failures, delivered, excused, split>>

\* A rename and a new file.  An inode number is free when its file is neither at
\* the path nor open; the renamed file may be removed at once.
Rotate == /\ changes < MaxChanges /\ changes' = changes + 1
          /\ \E i \in Inodes : /\ r.at # "none" /\ ~r.onOld => i # log.ino
                               /\ log' = [ino |-> i, rows |-> <<>>, born |-> log.born + 1]
          /\ IF r.at # "none" /\ ~r.onOld
               THEN old' = log.rows /\ r' = [r EXCEPT !.onOld = TRUE]
               ELSE UNCHANGED <<old, r>>
          /\ overlapped' = IF Running THEN overlapped \cup Range(log.rows) ELSE overlapped
          /\ unfinished' = unfinished \cup Unfinished
          /\ UNCHANGED <<disk, written, failures, delivered, excused, split>>

Truncate == /\ changes < MaxChanges /\ changes' = changes + 1
            /\ log' = [log EXCEPT !.rows = <<>>, !.born = @ + 1]
            /\ overlapped' = IF Running THEN overlapped \cup Range(log.rows) ELSE overlapped
            /\ unfinished' = unfinished \cup Unfinished
            /\ UNCHANGED <<old, disk, r, written, failures, delivered, excused, split>>

-----------------------------------------------------------------------------
(* The reader.                                                             *)

\* OpenWFstream and the position of the end of the file.
Open == /\ r.at = "none"
        /\ r' = [NoReader EXCEPT !.at = "position", !.of = log.born,
                                 !.saved = Len(log.rows), !.pos = Len(log.rows)]
        /\ unfinished' = unfinished \cup Unfinished
        /\ UNCHANGED <<log, old, disk, env, delivered, excused, overlapped, split>>

\* Mutants: the inode number is not looked at; a file is always taken for new.
IsFileNew_Always == TRUE
IsFileNew_BySize == Len(log.rows) < disk.size

\* IsFileNew: a stat of the path, whatever file the stream has open.
IsFileNew == log.ino # disk.ino \/ Len(log.rows) < disk.size

\* History: rows passed over are excused when there is no record, when the file
\* was changed while a reader had it open, and when the stat data of the record
\* fit other contents as well.
Excusable == \/ disk.state # "valid"
             \/ disk.of = 0 \/ r.of # log.born
             \/ disk.of # log.born /\ disk.ino = log.ino /\ disk.size <= Len(log.rows)

\* Without a record that can be recovered the stream stays at the end.
Position ==
  /\ r.at = "position"
  /\ LET pos == IF disk.state # "valid" THEN r.saved
                ELSE IF IsFileNew THEN 0 ELSE disk.pos
     IN  /\ r' = [r EXCEPT !.at = "stat", !.pos = pos]
         /\ excused' = IF Excusable THEN excused \cup First(pos, Stream) ELSE excused
         /\ unfinished' = IF Excusable /\ pos < Len(Stream)
                            THEN unfinished \cup {l \in Slow : Stream[pos + 1] = -l}
                            ELSE unfinished
  /\ UNCHANGED <<log, old, disk, env, delivered, overlapped, split>>

UpdateStatData ==
  /\ r.at = "stat"
  /\ r' = [r EXCEPT !.at = "read", !.ino = log.ino, !.size = Len(log.rows),
                    !.of = IF log.born = r.of THEN @ ELSE 0]
  /\ UNCHANGED <<log, old, disk, env, history>>

AtEnd == r.pos >= Len(Stream)
AtLimit == Cardinality(r.matched) >= MaxMatched

\* Where the row ends that begins at the position, or the file.
RowEnd == IF Stream[r.pos + 1] \in Slow /\ r.pos + 1 < Len(Stream)
            THEN r.pos + 2 ELSE r.pos + 1

\* The row that the piece at i belongs to.
RowAt(i) == IF Stream[i] < 0 THEN -Stream[i] ELSE Stream[i]

\* Mutant: reading stops at what was written at once.
ReadRow_ToPiece ==
  /\ r.at = "read"
  /\ r.good /\ ~AtLimit /\ ~AtEnd
  /\ r' = [r EXCEPT !.pos = @ + 1, !.matched = @ \cup {{Stream[r.pos + 1]}}]
  /\ UNCHANGED <<log, old, disk, env, history>>

\* ReadLine reads up to a newline or to the end of the file.
ReadRow ==
  /\ r.at = "read"
  /\ r.good /\ ~AtLimit /\ ~AtEnd
  /\ r' = [r EXCEPT !.pos = RowEnd,
                    !.matched = @ \cup {Range(SubSeq(Stream, r.pos + 1, RowEnd))}]
  /\ UNCHANGED <<log, old, disk, env, history>>

\* The stream goes bad in the middle of the file: a byte that the locale cannot
\* decode, or a read error.  IsGood finds it between two rows, also after the last
\* one of the limit, or it happens within a row, and ReadPartialLine returns the
\* part it has as a row.  Nothing says so to anybody.
GoBad ==
  /\ failures < MaxFailures /\ failures' = failures + 1
  /\ r.at = "read"
  /\ r.good /\ ~AtEnd
  /\ \E row \in {0} \cup IF AtLimit THEN {} ELSE {RowAt(r.pos + 1)} :
       /\ r' = [r EXCEPT !.good = FALSE, !.cut = row]
       /\ unfinished' = unfinished \cup ({row} \ {0})
  /\ UNCHANGED <<log, old, disk, written, changes, delivered, excused, overlapped, split>>

\* Mutant: the size is left at what stat said.
StopReading_SizeAsStat ==
  /\ r.at = "read"
  /\ AtLimit \/ AtEnd \/ ~r.good
  /\ r' = [r EXCEPT !.at = "save", !.saved = r.pos]
  /\ UNCHANGED <<log, old, disk, env, history>>

\* PersistState: tellg returns -1 on some platforms when the stream is at the
\* end, and everywhere when it is bad; the position of the end at the time of
\* opening is saved then, however far from it the reader came.
StopReading ==
  /\ r.at = "read"
  /\ AtLimit \/ AtEnd \/ ~r.good
  /\ \E tellg \in IF ~r.good THEN {-1} ELSE {r.pos} \cup IF AtEnd THEN {-1} ELSE {} :
       LET saved == IF tellg > 0 THEN tellg ELSE r.saved
       IN  r' = [r EXCEPT !.at = "save", !.saved = saved, !.size = Larger(@, saved)]
  /\ UNCHANGED <<log, old, disk, env, history>>

\* CreateWriter truncates the file of the record.
BeginSave == /\ r.at = "save"
             /\ disk' = Corrupt
             /\ r' = [r EXCEPT !.at = "saving"]
             /\ UNCHANGED <<log, old, env, history>>

\* History: with the position of the end, what a stream that went bad kept from the
\* reader is passed over for ever.
PassedOver == IF r.good THEN {}
              ELSE {Stream[i] : i \in DOMAIN Stream \cap (r.pos + 1 .. r.saved)}

\* Mutant: a reader that stopped at the limit saves where it began.
EndSave_NotAtLimit ==
  /\ r.at = "saving"
  /\ disk' = [state |-> "valid", ino |-> r.ino, size |-> r.size, of |-> r.of,
              pos |-> IF AtLimit THEN r.pos - Cardinality(r.matched) ELSE r.saved]
  /\ r' = [r EXCEPT !.at = "reply"]
  /\ excused' = excused \cup PassedOver
  /\ UNCHANGED <<log, old, env, delivered, overlapped, unfinished, split>>

EndSave == /\ r.at = "saving"
           /\ disk' = [state |-> "valid", pos |-> r.saved, ino |-> r.ino,
                       size |-> r.size, of |-> r.of]
           /\ r' = [r EXCEPT !.at = "reply"]
           /\ excused' = excused \cup PassedOver
           /\ UNCHANGED <<log, old, env, delivered, overlapped, unfinished, split>>

Stop == r' = NoReader /\ old' = <<>>

\* The rows are marshalled and the provider puts them into its answer.
Reply == /\ r.at = "reply"
         /\ delivered' = [p \in Pieces |-> IF p \in UNION r.matched /\ delivered[p] < 2
                                             THEN delivered[p] + 1 ELSE delivered[p]]
         /\ split' = split \cup {l \in Slow : {l} \in r.matched \/ {-l} \in r.matched}
                           \cup ({r.cut} \ {0})
         /\ Stop
         /\ UNCHANGED <<log, disk, env, excused, overlapped, unfinished>>

\* PersistMediaNotAvailable, or a file that is not found: the exit code tells the
\* provider, and no row is in the answer.
Fail == /\ failures < MaxFailures /\ failures' = failures + 1
        /\ r.at \in {"position", "stat", "save"}
        /\ Stop
        /\ UNCHANGED <<log, disk, written, changes, history>>

\* The process is killed.  Rows read after which the position was saved are lost.
Kill == /\ failures < MaxFailures /\ failures' = failures + 1
        /\ r.at # "none"
        /\ Stop
        /\ excused' = IF r.at = "reply" THEN excused \cup UNION r.matched ELSE excused
        /\ UNCHANGED <<log, disk, written, changes, delivered, overlapped, unfinished, split>>

-----------------------------------------------------------------------------
Reader == \/ Open \/ Position \/ UpdateStatData \/ ReadRow \/ StopReading
          \/ BeginSave \/ EndSave \/ Reply

PosNext == Append1 \/ Rotate \/ Truncate \/ Reader \/ GoBad \/ Fail \/ Kill

PosSpec == PosInit /\ [][PosNext]_posVars

\* The management server invokes the method again and again, and a process that
\* is not killed runs; nobody has to write to the log file or to rotate it.
PosFairSpec == PosSpec /\ WF_posVars(Reader)

-----------------------------------------------------------------------------
Positions == 0 .. Cardinality(Pieces)
Records == [state : {"none", "corrupt", "valid"}, pos : Positions,
            ino : Inodes \cup {0}, size : Positions, of : 0 .. MaxChanges + 1]
Stages == {"none", "position", "stat", "read", "save", "saving", "reply"}
Readers == [at : Stages, pos : Positions, onOld : BOOLEAN, saved : Positions,
            ino : Inodes \cup {0}, size : Positions, of : 0 .. MaxChanges + 1,
            matched : SUBSET SUBSET Pieces, good : BOOLEAN, cut : Rows \cup {0}]

\* Every variable keeps its type; a reader never has more rows than the limit.
PosTypeOK == /\ log \in [ino : Inodes, rows : Seq(Pieces), born : 1 .. MaxChanges + 1]
             /\ old \in Seq(Pieces)
             /\ disk \in Records
             /\ r \in Readers
             /\ IsFiniteSet(r.matched) /\ Cardinality(r.matched) <= MaxMatched
             /\ written \in Pieces \cup {0}
             /\ changes \in 0 .. MaxChanges /\ failures \in 0 .. MaxFailures
             /\ delivered \in [Pieces -> 0 .. 2]
             /\ excused \subseteq Pieces /\ overlapped \subseteq Pieces
             /\ unfinished \subseteq Rows /\ split \subseteq Rows

\* Between invocations, every row of the log file before the persisted position
\* was in an answer: whatever was appended while a reader ran, whatever tellg
\* returned and whichever reader failed or was killed, no row is skipped, except
\* those that were there before the first invocation or when the record was
\* damaged, those a killed reader had already saved the position of, those of a
\* file the stat data cannot tell from another - and those between the place where
\* a stream went bad and the end the reader found when it opened the file
\* (PassedOver; SavedPositionWasReached says what that contradicts).
NothingIsSkipped ==
  r.at = "none" /\ disk.state = "valid" /\ disk.of = log.born
    => \A p \in First(disk.pos, log.rows) : delivered[p] > 0 \/ p \in excused

\* "There's a race condition here were we can return the same lines multiple
\* times depending on concurrency issues" (logfileutils.cpp:244): only rows that
\* were appended, or rotated or truncated away, while a reader ran are in more
\* than one answer.
OnlyOverlappedRowsRepeat ==
  \A p \in Pieces : delivered[p] > 1 => p \in overlapped

\* The regular expressions are matched with whole rows: only a row that had no end
\* yet while a reader ran, or was cut off from its end by a rotation, a truncation
\* or a stream that went bad within it, is in an answer in parts (ReadLogFile).  No
\* position that is saved, at the limit, at the end or in place of one that tellg does
\* not tell, is inside of any other.
OnlyUnfinishedRowsAreSplit == split \subseteq unfinished

\* Every row that is in the log file when the writing stops reaches the provider,
\* invocation by invocation: neither the limit on rows nor the positions that are
\* saved keep the reader from getting to the end.  (Excused are the rows named in
\* NothingIsSkipped, those that a stream gone bad passes over among them.)
RowsAreDelivered ==
  <>[](\A p \in Range(log.rows) : delivered[p] > 0 \/ p \in excused)

\* "Never persist -1, happens on some platforms (AIX) when reading past end of file"
\* (PersistState): the position that is saved in its place is none the reader did not
\* get to, so that every row before it was matched.  It is false of a stream that
\* went bad before its end (PassedOver), and no run checks it.
SavedPositionWasReached ==
  r.at \in {"save", "saving", "reply"} /\ r.of = log.born => r.saved <= r.pos

-----------------------------------------------------------------------------
(* The inductive invariant, by the questions its parts answer.             *)

Order(p) == IF p < 0 THEN 1 - 2 * p ELSE 2 * p

InOrder(q) == \A i \in DOMAIN q :
                /\ Order(q[i]) <= Order(written)
                /\ \A j \in DOMAIN q : i < j => Order(q[i]) < Order(q[j])
                /\ i + 1 \in DOMAIN q => q[i + 1] = NextPiece(q[i])

\* A file holds pieces that were written one after another, the one at the path the
\* last; no other is in an answer.
FilesInOrder ==
  /\ log.born = changes + 1
  /\ InOrder(log.rows) /\ InOrder(old)
  /\ log.rows # <<>> => log.rows[Len(log.rows)] = written
  /\ \A p \in Pieces : delivered[p] > 0 \/ p \in UNION r.matched
                         => Order(p) <= Order(written)

\* A record of the contents at the path fits them, and names no position behind
\* what was there.
RecordFits ==
  /\ disk.of <= log.born
  /\ disk.state = "valid"
       => /\ disk.pos <= disk.size
          /\ disk.of = log.born => disk.ino = log.ino /\ disk.size <= Len(log.rows)

\* What the reader is about to save fits as well, when it is about those contents.
ReaderFits ==
  /\ r.at = "none" => r = NoReader /\ old = <<>>
  /\ r.of <= log.born
  /\ r.onOld => r.of # log.born
  /\ r.matched # {} => r.at \notin {"none", "position", "stat"} /\ r.pos > 0
  /\ ~r.good => r.at \notin {"none", "position", "stat"}
  /\ r.at \in {"save", "saving", "reply"} => r.saved <= r.size
  /\ r.at = "reply" => /\ disk.state = "valid"
                       /\ disk.of = r.of /\ disk.pos = r.saved
  /\ r.at # "none" /\ r.of = log.born
       => /\ r.saved <= Len(log.rows) /\ r.size <= Len(log.rows)
          /\ r.pos <= Len(log.rows)
          /\ r.at \notin {"position", "stat"} => r.ino = log.ino

\* A position in contents that are not at the path any more is none in these.
In(pos, of) == IF of = log.born THEN pos ELSE 0

Fresh(pos) == \A i \in DOMAIN log.rows :
                i > pos /\ delivered[log.rows[i]] > 0 => log.rows[i] \in overlapped

\* No row was in an answer from which a reader that starts at the record, or at what
\* the one that runs will save, goes on, save those that there was trouble with.
NothingIsAhead ==
  /\ OnlyOverlappedRowsRepeat
  /\ disk.state = "valid" => Fresh(In(disk.pos, disk.of))
  /\ r.at # "none" => Fresh(In(r.saved, r.of))
  /\ r.at \in {"stat", "read"} /\ r.of = log.born => Fresh(r.pos)
  /\ \A p \in UNION r.matched : delivered[p] > 0 => p \in overlapped

ReadUpTo(pos) == \A i \in DOMAIN log.rows :
                   i > pos /\ log.rows[i] \in UNION r.matched => log.rows[i] \in overlapped

\* Behind what the reader found, and in other contents, there was trouble with every
\* row; the rows read are before the position.
ReadIsBehind ==
  /\ Running => /\ \A i \in DOMAIN log.rows :
                     i > In(r.saved, r.of) => log.rows[i] \in overlapped
                /\ Range(old) \subseteq overlapped
  /\ r.at = "read" /\ r.of = log.born => ReadUpTo(r.pos)
  /\ r.at \in {"save", "saving", "reply"} => ReadUpTo(In(r.saved, r.of))

AccountedTo(pos, rows) ==
  \A i \in DOMAIN log.rows :
    i <= pos => delivered[log.rows[i]] > 0 \/ log.rows[i] \in excused \cup UNION rows

\* No row before a position in the contents at the path is missing: the reader has
\* it when no answer has.  When the stream is bad that is no more true of the
\* position it will save than up to where it came.
NothingIsMissing ==
  /\ disk.state = "valid" /\ disk.of = log.born
       => AccountedTo(disk.pos, IF r.at = "reply" THEN r.matched ELSE {})
  /\ r.of = log.born =>
       /\ r.at \in {"stat", "read"} => AccountedTo(r.pos, r.matched)
       /\ r.at \in {"save", "saving"}
            => AccountedTo(IF r.good THEN r.saved ELSE r.pos, r.matched)

CutIsKnown(q, pos) == pos \in DOMAIN q /\ q[pos] \in Slow => q[pos] \in unfinished

\* Every row a position may cut in two, and every row without an end or a beginning
\* in its file, is recorded as unfinished.
CutsAreKnown ==
  /\ written \in Slow /\ (r.at # "none" \/ log.rows = <<>>) => written \in unfinished
  /\ CutIsKnown(old, Len(old))
  /\ \A q \in {log.rows, old} : q # <<>> => \A l \in Slow : q[1] = -l => l \in unfinished
  /\ disk.state = "valid" /\ disk.of = log.born => CutIsKnown(log.rows, disk.pos)
  /\ r.at # "none" /\ r.of = log.born => CutIsKnown(log.rows, r.saved)
  /\ r.at \in {"stat", "read"} => CutIsKnown(Stream, r.pos)
  /\ \A l \in Slow : {l} \in r.matched \/ {-l} \in r.matched => l \in unfinished
  /\ r.cut # 0 => r.cut \in unfinished
  /\ OnlyUnfinishedRowsAreSplit

\* What the reader read, what it will save and what is saved fit the file at the path,
\* or are about contents that are gone: nothing else keeps rows from being skipped,
\* repeated or split.
PosInv == /\ PosTypeOK /\ FilesInOrder /\ RecordFits /\ ReaderFits
          /\ NothingIsAhead /\ ReadIsBehind /\ NothingIsMissing /\ CutsAreKnown
=============================================================================
