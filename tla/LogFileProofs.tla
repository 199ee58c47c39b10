----------------------------- MODULE LogFileProofs -----------------------------
(***************************************************************************)
(* The log files the agent writes and those it reads, both of which others *)
(* rename under it.                                                        *)
(*                                                                         *)
(* LogRotation, for any number of threads, backends and renames: what      *)
(* interrupts a thread keeps out of the sections that others are in, and   *)
(* no signal of logrotate is lost, whenever it comes.                      *)
(*                                                                         *)
(* LogFilePosition, for any limit on the rows of an answer and any number  *)
(* of rows, changes of the file and failures: no row is skipped, repeated  *)
(* or split that the reader could have told from others.                   *)
(***************************************************************************)
EXTENDS LogRotation, LogFilePosition, FiniteSetTheorems, SequenceTheorems, TLAPS

-----------------------------------------------------------------------------
(* LogRotation.                                                            *)

\* A place in the code is a position and a lock.
LEMMA Places ==
  /\ \A w, v, l, k : At(w, l) = At(v, k) <=> w = v /\ l = k
  /\ \A w, l : At(w, l).at = w /\ At(w, l).lock = l
  /\ \A w, v, l : [At(w, l) EXCEPT !.at = v] = At(v, l)
  /\ Idle = At("idle", "factory") /\ NotCalled = At("none", "factory")
<1> QED
  BY DEF At, Idle, NotCalled

LEMMA CallPlaces ==
  /\ Idle \in Calls
  /\ \A l \in Locks, w \in {"want", "enter", "in", "leave"} : At(w, l) \in Calls
  /\ \A c \in Calls : \/ c = Idle
                      \/ \E l \in Locks, w \in {"want", "enter", "in", "leave"} : c = At(w, l)
<1> QED
  BY DEF Calls

LEMMA HandlerPlaces ==
  /\ NotCalled \in HandlerStates
  /\ \A l \in Locks, w \in {"want", "in"} : At(w, l) \in HandlerStates
  /\ \A c \in HandlerStates : \/ c = NotCalled
                              \/ \E l \in Locks, w \in {"want", "in"} : c = At(w, l)
<1> QED
  BY DEF HandlerStates

LEMMA InitIInv == Init => IInv
<1> SUFFICES ASSUME Init PROVE IInv
  OBVIOUS
<1> USE RotationAssumption DEF Init, Locks, Closed
<1>1. TypeOK
  <2>1. name \in 0 .. MaxRotations /\ told \in 0 .. name
    BY DEF RotationAssumption
  <2> QED
    BY <2>1, CallPlaces, HandlerPlaces DEF TypeOK
<1>2. LocksRecorded
  BY Places DEF LocksRecorded, Inside, RotationAssumption
<1>3. InsideOnce
  BY Places DEF InsideOnce
<1>4. MadeFirst
  BY Places DEF MadeFirst
<1> QED
  BY <1>1, <1>2, <1>3, <1>4 DEF IInv

\* The steps of a thread that is not interrupted.
LEMMA ThreadIInv ==
  ASSUME IInv, NEW t \in Threads, BeginInstance(t) \/ BeginLog(t) \/ Continue(t)
  PROVE  IInv'
<1> USE RotationAssumption, Places, CallPlaces, HandlerPlaces
    DEF RotationAssumption, IInv, TypeOK, Locks, Closed,
        LocksRecorded, Inside, InsideOnce, MadeFirst, Runs, system, handler
<1>1. CASE BeginInstance(t)
  BY <1>1 DEF BeginInstance
<1>2. CASE BeginLog(t)
  BY <1>2 DEF BeginLog
<1>3. CASE Acquire(t)
  BY <1>3 DEF Acquire
<1>4. CASE Record(t)
  <2>1. PICK l \in Locks : pc[t] = At("enter", l)
    BY <1>4 DEF Record
  <2>2. /\ pc' = [pc EXCEPT ![t] = At("in", l)]
        /\ UNCHANGED <<made, system, owner, todo, handler, stream, crashed>>
    <3>1. pc' = [pc EXCEPT ![t] = [pc[t] EXCEPT !.at = "in"]]
      BY <1>4 DEF Record
    <3>2. [pc[t] EXCEPT !.at = "in"] = At("in", l)
      BY <2>1
    <3> QED
      BY <1>4, <3>1, <3>2 DEF Record
  <2>3. TypeOK'
    BY <2>2
  <2>4. LocksRecorded'
    BY <2>1, <2>2
  <2>5. InsideOnce' /\ MadeFirst'
    BY <1>4, <2>1, <2>2 DEF Record
  <2> QED
    BY <2>3, <2>4, <2>5
<1>5. CASE Make(t)
  BY <1>5 DEF Make, user
<1>6. CASE ClearId(t)
  <2>1. PICK l \in Locks : pc[t] = At("in", l)
    BY <1>6 DEF ClearId
  <2>2. /\ pc' = [pc EXCEPT ![t] = At("leave", l)]
        /\ UNCHANGED <<made, system, owner, todo, handler, stream, crashed>>
    <3>1. pc' = [pc EXCEPT ![t] = [pc[t] EXCEPT !.at = "leave"]]
      BY <1>6 DEF ClearId
    <3>2. [pc[t] EXCEPT !.at = "leave"] = At("leave", l)
      BY <2>1
    <3> QED
      BY <1>6, <3>1, <3>2 DEF ClearId
  <2>3. TypeOK'
    BY <2>2
  <2>4. LocksRecorded'
    BY <2>1, <2>2
  <2>5. InsideOnce' /\ MadeFirst'
    BY <1>6, <2>1, <2>2 DEF ClearId
  <2> QED
    BY <2>3, <2>4, <2>5
<1>7. CASE Release(t)
  BY <1>7 DEF Release
<1>8. CASE \E b \in Files : WriteItem(t, b)
  BY <1>8 DEF WriteItem, Opened
<1> QED
  BY <1>1, <1>2, <1>3, <1>4, <1>5, <1>6, <1>7, <1>8 DEF Continue

\* The steps of the handler on top of a thread, and its call.
LEMMA HandlerIInv ==
  ASSUME IInv, NEW t \in Threads, Deliver(t) \/ Handler(t)
  PROVE  IInv'
<1> USE RotationAssumption, Places, CallPlaces, HandlerPlaces
    DEF RotationAssumption, IInv, TypeOK, Locks, Closed,
        LocksRecorded, Inside, InsideOnce, MadeFirst, Runs, system, user, InHandler
<1>1. CASE Deliver(t)
  <2>1. hpc' = [hpc EXCEPT ![t] = At("want", "factory")]
    BY <1>1 DEF Deliver
  <2>2. hpc' \in [Threads -> HandlerStates]
    BY <2>1
  <2>3. UNCHANGED <<made, name, told, owner, pc, todo, htodo, stream, crashed>> /\ pending' = FALSE
    BY <1>1 DEF Deliver
  <2>4. TypeOK'
    BY <2>2, <2>3
  <2>5. \A u \in Threads, l \in Locks : hpc'[u] = At("in", l) <=> hpc[u] = At("in", l)
    BY <1>1, <2>1 DEF Deliver
  <2> QED
    BY <2>3, <2>4, <2>5
<1>2. CASE \E l \in Locks : HandlerThrows(t, l)
  BY <1>2 DEF HandlerThrows, handler
<1>3. CASE \E l \in Locks : HandlerLocks(t, l)
  BY <1>3 DEF HandlerLocks
<1>4. CASE \E l \in Locks : HandlerLeaves(t, l)
  BY <1>4 DEF HandlerLeaves
<1>5. CASE \E b \in Files : Reopen(t, b)
  BY <1>5 DEF Reopen, Opened
<1>6. CASE \E b \in Files : NoStream(t, b)
  BY <1>6 DEF NoStream, handler
<1> QED
  BY <1>1, <1>2, <1>3, <1>4, <1>5, <1>6 DEF Handler

LEMMA NextIInv == IInv /\ [Next]_vars => IInv'
<1> SUFFICES ASSUME IInv, [Next]_vars PROVE IInv'
  OBVIOUS
<1> USE RotationAssumption
    DEF RotationAssumption, IInv, TypeOK, LocksRecorded, Inside, InsideOnce, MadeFirst, user, handler
<1>1. CASE Rename
  BY <1>1 DEF Rename, Closed
<1>2. CASE Signal
  BY <1>2 DEF Signal
<1>3. CASE UNCHANGED vars
  BY <1>3 DEF vars, system
<1> QED
  BY <1>1, <1>2, <1>3, ThreadIInv, HandlerIInv DEF Next

\* The inductive invariant: the owner of a lock is the thread that is between its
\* two ends, on its own account or in the handler, and never on both.
THEOREM RotationInvariant == Spec => []IInv
<1> QED
  BY InitIInv, NextIInv, PTL DEF Spec

-----------------------------------------------------------------------------
LEMMA InitStream == Init => NoStreamIsLeftBehind
<1> QED
  BY DEF Init, NoStreamIsLeftBehind, Closed

LEMMA NextStream ==
  ASSUME IInv, NoStreamIsLeftBehind, [Next]_vars PROVE NoStreamIsLeftBehind'
<1> SUFFICES ASSUME ~crashed', NEW b \in Files, stream'[b] \in 0 .. name' - 1
             PROVE  told' < name' \/ pending' \/ Coming(b)'
  BY DEF NoStreamIsLeftBehind
<1> USE RotationAssumption, Places DEF RotationAssumption, IInv, TypeOK, Coming, Closed
<1>1. name \in Nat /\ told \in 0 .. name
  OBVIOUS
<1>2. CASE Rename
  BY <1>1, <1>2 DEF Rename
<1>3. CASE Signal
  BY <1>3 DEF Signal, MadeFirst
\* Whatever else happens, b was left behind before the step too, and is expected.
<1>4. ASSUME UNCHANGED <<name, told>>, ~crashed, stream[b] = stream'[b]
      PROVE  told' < name' \/ pending \/ Coming(b)
  BY <1>1, <1>4 DEF NoStreamIsLeftBehind
<1>5. CASE UNCHANGED <<name, told, pending, hpc, htodo>> /\ ~crashed /\ stream[b] = stream'[b]
  BY <1>4, <1>5
<1>6. ASSUME NEW t \in Threads, BeginInstance(t) \/ BeginLog(t) \/ Continue(t)
      PROVE  told' < name' \/ pending' \/ Coming(b)'
  <2>1. CASE \E c \in Files : WriteItem(t, c)
    BY <1>1, <1>5, <2>1 DEF WriteItem, Opened, Runs, system, handler
  <2>2. CASE Acquire(t) \/ Record(t) \/ Make(t) \/ ClearId(t) \/ Release(t)
    BY <1>5, <2>2
       DEF Acquire, Record, Make, ClearId, Release, Runs, system, handler
  <2>3. CASE BeginInstance(t) \/ BeginLog(t)
    BY <1>5, <2>3 DEF BeginInstance, BeginLog, Runs, system, handler
  <2> QED
    BY <1>6, <2>1, <2>2, <2>3 DEF Continue
<1>7. ASSUME NEW t \in Threads, Deliver(t)
      PROVE  Coming(b)'
  BY <1>7 DEF Deliver
<1>8. ASSUME NEW t \in Threads, Handler(t)
      PROVE  told' < name' \/ pending' \/ Coming(b)'
  <2>1. CASE \E l \in Locks : HandlerThrows(t, l)
    BY <2>1 DEF HandlerThrows
  <2>2. CASE \E c \in Files : NoStream(t, c)
    BY <2>2 DEF NoStream
  <2>3. CASE \E l \in Locks : HandlerLocks(t, l)
    BY <1>4, <2>3 DEF HandlerLocks, InHandler, Locks, system
  <2>4. CASE \E l \in Locks : HandlerLeaves(t, l)
    BY <1>4, <2>4 DEF HandlerLeaves, InHandler, Locks, system
  <2>5. CASE \E c \in Files : Reopen(t, c)
    <3>1. PICK c \in Files : Reopen(t, c)
      BY <2>5
    <3>2. CASE c = b
      BY <1>1, <3>1, <3>2 DEF Reopen, Opened, system
    <3>3. CASE c # b
      BY <1>4, <3>1, <3>3 DEF Reopen, InHandler, system
    <3> QED
      BY <3>2, <3>3
  <2> QED
    BY <1>8, <2>1, <2>2, <2>3, <2>4, <2>5 DEF Handler
<1>9. CASE UNCHANGED vars
  BY <1>5, <1>9 DEF vars, system, handler
<1> QED
  BY <1>2, <1>3, <1>6, <1>7, <1>8, <1>9 DEF Next

\* A backend that still writes to a renamed file has a signal, a pending signal or
\* a handler ahead of it.
THEOREM NoSignalIsLost == Spec => []NoStreamIsLeftBehind
<1> QED
  BY RotationInvariant, InitStream, NextStream, PTL DEF Spec

-----------------------------------------------------------------------------
(* LogFilePosition: what its operators return.                             *)

\* The pieces are integers, and there are finitely many of them.
LEMMA PiecesAreFinite ==
  /\ Pieces \subseteq Int \ {0} /\ Rows \subseteq Pieces
  /\ IsFiniteSet(Pieces) /\ Cardinality(Pieces) \in Nat
  /\ 0 \in Positions
<1> USE BoundsAssumption, SlowAssumption
<1>1. Pieces \subseteq -MaxRows .. MaxRows /\ Pieces \subseteq Int \ {0} /\ Rows \subseteq Pieces
  BY DEF Pieces, Rows
<1>2. IsFiniteSet(-MaxRows .. MaxRows)
  BY FS_Interval
<1>3. IsFiniteSet(Pieces)
  BY <1>1, <1>2, FS_Subset
<1>4. Cardinality(Pieces) \in Nat
  BY <1>3, FS_CardinalityType
<1> QED
  BY <1>1, <1>3, <1>4 DEF Positions

\* The piece that is written next comes later; the one after the first piece of a
\* slow row is its second, and a second piece comes after nothing else.
LEMMA NextPieceIsLater ==
  ASSUME NEW p \in Pieces \cup {0}
  PROVE  /\ NextPiece(p) \in Int \ {0} /\ Order(p) \in Nat
         /\ Order(p) < Order(NextPiece(p))
         /\ NextPiece(p) <= MaxRows => NextPiece(p) \in Pieces
         /\ p \in Slow => NextPiece(p) = -p
         /\ \A l \in Slow : NextPiece(p) = -l => p = l
<1> QED
  BY BoundsAssumption, SlowAssumption DEF NextPiece, Order, Pieces, Rows

\* A row of Slow is known from its second piece.
LEMMA SlowPieces ==
  ASSUME NEW l \in Slow
  PROVE  l \in Pieces /\ -l \in Pieces /\ -l \notin Slow /\ l # -l
<1> QED
  BY BoundsAssumption, SlowAssumption DEF Pieces, Rows

\* What SubSeq and Range make of the rows between two positions.
LEMMA RangeOfPart ==
  ASSUME NEW q \in Seq(Pieces), NEW a \in 1 .. Len(q) + 1, NEW b \in Nat, b <= Len(q)
  PROVE  \A p : p \in Range(SubSeq(q, a, b)) <=> \E i \in a .. b : p = q[i]
<1> DEFINE s == SubSeq(q, a, b)
<1>1. \A i \in a .. b : q[i] \in Pieces
  BY ElementOfSeq
<1>2. /\ s \in Seq(Pieces)
      /\ Len(s) = IF a <= b THEN b - a + 1 ELSE 0
      /\ \A i \in 1 .. b - a + 1 : s[i] = q[a + i - 1]
  BY <1>1, SubSeqProperties
<1>3. Range(s) = {s[i] : i \in 1 .. Len(s)}
  BY <1>2, RangeEquality
<1>4. ASSUME NEW p, p \in Range(s)
      PROVE  \E i \in a .. b : p = q[i]
  <2>1. PICK j \in 1 .. Len(s) : p = s[j]
    BY <1>3, <1>4
  <2>2. a + j - 1 \in a .. b /\ p = q[a + j - 1]
    BY <1>2, <2>1
  <2> QED
    BY <2>2
<1>5. ASSUME NEW i \in a .. b
      PROVE  q[i] \in Range(s)
  <2>1. i - a + 1 \in 1 .. Len(s) /\ q[i] = s[i - a + 1]
    BY <1>2
  <2> QED
    BY <1>3, <2>1
<1> QED
  BY <1>4, <1>5

LEMMA FirstOf ==
  ASSUME NEW q \in Seq(Pieces), NEW n \in Nat
  PROVE  /\ \A p : p \in First(n, q) <=> \E i \in DOMAIN q : i <= n /\ p = q[i]
         /\ First(n, q) \subseteq Pieces
<1>1. Len(q) \in Nat /\ DOMAIN q = 1 .. Len(q)
  BY LenProperties
<1> DEFINE b == IF n < Len(q) THEN n ELSE Len(q)
<1>2. \A p : p \in First(n, q) <=> \E i \in 1 .. b : p = q[i]
  BY <1>1, RangeOfPart, 1 \in 1 .. Len(q) + 1 DEF First
<1>3. 1 .. b = {i \in DOMAIN q : i <= n}
  BY <1>1
<1> QED
  BY <1>1, <1>2, <1>3, ElementOfSeq

LEMMA RangeOf ==
  ASSUME NEW q \in Seq(Pieces)
  PROVE  /\ \A p : p \in Range(q) <=> \E i \in DOMAIN q : p = q[i]
         /\ Range(q) \subseteq Pieces
<1> QED
  BY RangeEquality, RangeOfSeq, LenProperties

\* What is written is no longer than all there is to write.
LEMMA LengthIsAPosition ==
  ASSUME NEW q \in Seq(Pieces), InOrder(q)
  PROVE  Len(q) \in Positions
<1>1. Len(q) \in Nat /\ DOMAIN q = 1 .. Len(q) /\ q \in [1 .. Len(q) -> Pieces]
  BY LenProperties
<1>2. ASSUME NEW i \in 1 .. Len(q), NEW j \in 1 .. Len(q), i < j
      PROVE  q[i] # q[j]
  <2>1. Order(q[i]) < Order(q[j])
    BY <1>1, <1>2 DEF InOrder
  <2>2. Order(q[i]) \in Nat
    BY <1>1, NextPieceIsLater
  <2> QED
    BY <2>1, <2>2
<1>3. \A i, j \in 1 .. Len(q) : q[i] = q[j] => i = j
  BY <1>1, <1>2
<1>4. q \in Injection(1 .. Len(q), Pieces)
  BY <1>1, <1>3 DEF Injection, IsInjective
<1>5. Cardinality(1 .. Len(q)) <= Cardinality(Pieces)
  BY <1>4, PiecesAreFinite, FS_Injection
<1>6. Cardinality(1 .. Len(q)) = Len(q)
  BY <1>1, FS_Interval
<1> QED
  BY <1>1, <1>5, <1>6, PiecesAreFinite DEF Positions

-----------------------------------------------------------------------------
(* What an action does to the parts of the log file and of the reader.     *)

LEMMA PosFacts ==
  ASSUME PosTypeOK
  PROVE  /\ log.ino \in Inodes /\ log.rows \in Seq(Pieces) /\ log.born \in 1 .. MaxChanges + 1
         /\ Len(log.rows) \in Nat /\ DOMAIN log.rows = 1 .. Len(log.rows)
         /\ old \in Seq(Pieces) /\ Len(old) \in Nat /\ DOMAIN old = 1 .. Len(old)
         /\ Stream \in Seq(Pieces) /\ Len(Stream) \in Nat
         /\ DOMAIN Stream = 1 .. Len(Stream)
         /\ r.pos \in Nat /\ r.saved \in Nat /\ r.size \in Nat
         /\ disk.pos \in Nat /\ disk.size \in Nat
         /\ r.of \in Nat /\ disk.of \in Nat
<1> QED
  BY LenProperties, BoundsAssumption, PiecesAreFinite
     DEF PosTypeOK, Readers, Records, Positions, Stream

LEMMA AppendChanges ==
  ASSUME PosTypeOK, Append1
  PROVE  /\ written' = NextPiece(written) /\ written' \in Pieces
         /\ log' \in [ino : Inodes, rows : Seq(Pieces), born : 1 .. MaxChanges + 1]
         /\ log'.ino = log.ino /\ log'.born = log.born
         /\ log'.rows # <<>> /\ Len(log'.rows) = Len(log.rows) + 1
         /\ DOMAIN log'.rows = 1 .. Len(log.rows) + 1
         /\ \A i \in 1 .. Len(log.rows) : log'.rows[i] = log.rows[i]
         /\ log'.rows[Len(log.rows) + 1] = written'
         /\ overlapped' = IF Running THEN overlapped \cup {written'} ELSE overlapped
         /\ unfinished' = IF r.at # "none" /\ written' \in Slow
                            THEN unfinished \cup {written'} ELSE unfinished
         /\ UNCHANGED <<old, disk, r, changes, failures, delivered, excused, split>>
<1>1. written' = NextPiece(written) /\ written' \in Pieces
  BY NextPieceIsLater DEF Append1, PosTypeOK
<1>2. log' = [log EXCEPT !.rows = Append(log.rows, written')]
  BY <1>1 DEF Append1
<1>3. log.rows \in Seq(Pieces) /\ log.ino \in Inodes /\ log.born \in 1 .. MaxChanges + 1
  BY DEF PosTypeOK
<1>4. /\ Append(log.rows, written') \in Seq(Pieces) /\ Append(log.rows, written') # <<>>
      /\ Len(Append(log.rows, written')) = Len(log.rows) + 1
      /\ \A i \in 1 .. Len(log.rows) : Append(log.rows, written')[i] = log.rows[i]
      /\ Append(log.rows, written')[Len(log.rows) + 1] = written'
  BY <1>1, <1>3, AppendProperties
<1>5. log'.rows = Append(log.rows, written') /\ log'.ino = log.ino /\ log'.born = log.born
  BY <1>2 DEF PosTypeOK
<1>6. log' \in [ino : Inodes, rows : Seq(Pieces), born : 1 .. MaxChanges + 1]
  BY <1>2, <1>3, <1>4 DEF PosTypeOK
<1>7. DOMAIN log'.rows = 1 .. Len(log.rows) + 1
  BY <1>4, <1>5, LenProperties
<1> QED
  BY <1>1, <1>4, <1>5, <1>6, <1>7 DEF Append1

LEMMA RotateChanges ==
  ASSUME PosTypeOK, log.born = changes + 1, Rotate
  PROVE  /\ log' \in [ino : Inodes, rows : Seq(Pieces), born : 1 .. MaxChanges + 1]
         /\ log'.rows = <<>> /\ DOMAIN log'.rows = {} /\ Len(log'.rows) = 0
         /\ log'.born = log.born + 1 /\ changes' = changes + 1 /\ changes < MaxChanges
         /\ r'.at = r.at /\ r'.pos = r.pos /\ r'.saved = r.saved /\ r'.ino = r.ino
         /\ r'.size = r.size /\ r'.of = r.of /\ r'.matched = r.matched
         /\ r'.good = r.good /\ r'.cut = r.cut
         /\ r' = [r EXCEPT !.onOld = r'.onOld]
         /\ \/ r.at # "none" /\ ~r.onOld /\ r'.onOld /\ old' = log.rows
            \/ (r.at = "none" \/ r.onOld) /\ UNCHANGED <<old, r>>
         /\ overlapped' = IF Running THEN overlapped \cup Range(log.rows) ELSE overlapped
         /\ unfinished' = unfinished \cup Unfinished
         /\ UNCHANGED <<disk, written, failures, delivered, excused, split>>
<1> USE BoundsAssumption
<1>1. PICK i \in Inodes : log' = [ino |-> i, rows |-> <<>>, born |-> log.born + 1]
  BY DEF Rotate
<1>2. changes < MaxChanges /\ changes' = changes + 1 /\ log.born + 1 \in 1 .. MaxChanges + 1
  BY DEF Rotate, PosTypeOK
<1>3. <<>> \in Seq(Pieces) /\ Len(<<>>) = 0 /\ DOMAIN <<>> = {}
  BY EmptySeq, LenProperties
<1>4. /\ log' \in [ino : Inodes, rows : Seq(Pieces), born : 1 .. MaxChanges + 1]
      /\ log'.rows = <<>> /\ log'.born = log.born + 1
  BY <1>1, <1>2, <1>3
<1>5. /\ r'.at = r.at /\ r'.pos = r.pos /\ r'.saved = r.saved /\ r'.ino = r.ino
      /\ r'.size = r.size /\ r'.of = r.of /\ r'.matched = r.matched
      /\ r'.good = r.good /\ r'.cut = r.cut
      /\ r' = [r EXCEPT !.onOld = r'.onOld]
      /\ \/ r.at # "none" /\ ~r.onOld /\ r'.onOld /\ old' = log.rows
         \/ (r.at = "none" \/ r.onOld) /\ UNCHANGED <<old, r>>
  BY DEF Rotate, PosTypeOK, Readers
<1> QED
  BY <1>2, <1>3, <1>4, <1>5 DEF Rotate

LEMMA TruncateChanges ==
  ASSUME PosTypeOK, log.born = changes + 1, Truncate
  PROVE  /\ log' \in [ino : Inodes, rows : Seq(Pieces), born : 1 .. MaxChanges + 1]
         /\ log'.rows = <<>> /\ DOMAIN log'.rows = {} /\ Len(log'.rows) = 0
         /\ log'.ino = log.ino
         /\ log'.born = log.born + 1 /\ changes' = changes + 1 /\ changes < MaxChanges
         /\ overlapped' = IF Running THEN overlapped \cup Range(log.rows) ELSE overlapped
         /\ unfinished' = unfinished \cup Unfinished
         /\ UNCHANGED <<old, disk, r, written, failures, delivered, excused, split>>
<1> USE BoundsAssumption
<1>1. log' = [log EXCEPT !.rows = <<>>, !.born = log.born + 1]
  BY DEF Truncate
<1>2. changes < MaxChanges /\ changes' = changes + 1 /\ log.born + 1 \in 1 .. MaxChanges + 1
  BY DEF Truncate, PosTypeOK
<1>3. <<>> \in Seq(Pieces) /\ Len(<<>>) = 0 /\ DOMAIN <<>> = {}
  BY EmptySeq, LenProperties
<1>4. /\ log' \in [ino : Inodes, rows : Seq(Pieces), born : 1 .. MaxChanges + 1]
      /\ log'.rows = <<>> /\ log'.born = log.born + 1 /\ log'.ino = log.ino
  BY <1>1, <1>2, <1>3 DEF PosTypeOK
<1> QED
  BY <1>2, <1>3, <1>4 DEF Truncate

LEMMA NobodyReads ==
  /\ NoReader.at = "none" /\ NoReader.pos = 0 /\ NoReader.onOld = FALSE
  /\ NoReader.saved = 0 /\ NoReader.ino = 0 /\ NoReader.size = 0 /\ NoReader.of = 0
  /\ NoReader.matched = {} /\ NoReader.good = TRUE /\ NoReader.cut = 0 /\ NoReader \in Readers
<1> QED
  BY PiecesAreFinite, BoundsAssumption DEF NoReader, Readers, Stages

LEMMA OpenChanges ==
  ASSUME PosTypeOK, Len(log.rows) \in Positions, Open
  PROVE  /\ r.at = "none" /\ r' \in Readers
         /\ r'.at = "position" /\ r'.pos = Len(log.rows) /\ r'.saved = Len(log.rows)
         /\ ~r'.onOld /\ r'.size = 0 /\ r'.of = log.born /\ r'.matched = {}
         /\ r'.good /\ r'.cut = 0
         /\ unfinished' = unfinished \cup Unfinished
         /\ UNCHANGED <<log, old, disk, env, delivered, excused, overlapped, split>>
<1>1. /\ r'.at = "position" /\ r'.pos = Len(log.rows) /\ r'.saved = Len(log.rows)
      /\ ~r'.onOld /\ r'.size = 0 /\ r'.of = log.born /\ r'.matched = {}
      /\ r'.good /\ r'.cut = 0
  BY NobodyReads DEF Open, NoReader
<1>2. log.born \in 0 .. MaxChanges + 1
  BY BoundsAssumption DEF PosTypeOK
<1>3. r' \in Readers
  BY <1>2, NobodyReads DEF Open, Readers, Stages
<1> QED
  BY <1>1, <1>3 DEF Open

LEMMA StopChanges ==
  ASSUME Stop
  PROVE  /\ r' = NoReader /\ old' = <<>> /\ old' \in Seq(Pieces) /\ r' \in Readers
         /\ DOMAIN old' = {} /\ Len(old') = 0 /\ r'.at = "none" /\ r'.of = 0
         /\ ~r'.onOld /\ r'.matched = {} /\ r'.good /\ r'.cut = 0
<1> QED
  BY NobodyReads, EmptySeq, LenProperties DEF Stop

\* The position the stream is set to, and what is excused for it.
StartOf == IF disk.state # "valid" THEN r.saved ELSE IF IsFileNew THEN 0 ELSE disk.pos

LEMMA PositionChanges ==
  ASSUME PosTypeOK, Position
  PROVE  /\ r.at = "position" /\ StartOf \in Positions /\ StartOf \in Nat
         /\ r'.at = "stat" /\ r'.pos = StartOf
         /\ r'.onOld = r.onOld /\ r'.saved = r.saved /\ r'.ino = r.ino /\ r'.size = r.size
         /\ r'.of = r.of /\ r'.matched = r.matched /\ r' \in Readers /\ Stream' = Stream
         /\ r'.good = r.good /\ r'.cut = r.cut
         /\ excused' = IF Excusable THEN excused \cup First(StartOf, Stream) ELSE excused
         /\ unfinished' = IF Excusable /\ StartOf < Len(Stream)
                            THEN unfinished \cup {l \in Slow : Stream[StartOf + 1] = -l}
                            ELSE unfinished
         /\ UNCHANGED <<log, old, disk, env, delivered, overlapped, split>>
<1>1. StartOf \in Positions /\ StartOf \in Nat
  BY PiecesAreFinite DEF StartOf, PosTypeOK, Readers, Records, Positions
<1>2. r' = [r EXCEPT !.at = "stat", !.pos = StartOf]
  BY DEF Position, StartOf
<1>3. /\ r'.at = "stat" /\ r'.pos = StartOf
      /\ r'.onOld = r.onOld /\ r'.saved = r.saved /\ r'.ino = r.ino /\ r'.size = r.size
      /\ r'.of = r.of /\ r'.matched = r.matched /\ r'.good = r.good /\ r'.cut = r.cut
      /\ r' \in Readers
  BY <1>1, <1>2 DEF PosTypeOK, Readers, Stages
<1>4. Stream' = Stream
  BY <1>3 DEF Stream, Position
<1> QED
  BY <1>1, <1>3, <1>4 DEF Position, StartOf

LEMMA UpdateStatDataChanges ==
  ASSUME PosTypeOK, Len(log.rows) \in Positions, UpdateStatData
  PROVE  /\ r.at = "stat" /\ r'.at = "read" /\ r'.ino = log.ino /\ r'.size = Len(log.rows)
         /\ r'.of = IF log.born = r.of THEN r.of ELSE 0
         /\ r'.pos = r.pos /\ r'.onOld = r.onOld /\ r'.saved = r.saved
         /\ r'.good = r.good /\ r'.cut = r.cut
         /\ r'.matched = r.matched /\ r' \in Readers /\ Stream' = Stream
         /\ UNCHANGED <<log, old, disk, env, history>>
<1>1. r' = [r EXCEPT !.at = "read", !.ino = log.ino, !.size = Len(log.rows),
                     !.of = IF log.born = r.of THEN r.of ELSE 0]
  BY DEF UpdateStatData
<1>2. log.ino \in Inodes \cup {0} /\ (IF log.born = r.of THEN r.of ELSE 0) \in 0 .. MaxChanges + 1
  BY BoundsAssumption DEF PosTypeOK, Readers
<1>3. /\ r'.at = "read" /\ r'.ino = log.ino /\ r'.size = Len(log.rows)
      /\ r'.of = IF log.born = r.of THEN r.of ELSE 0
      /\ r'.pos = r.pos /\ r'.onOld = r.onOld /\ r'.saved = r.saved
      /\ r'.good = r.good /\ r'.cut = r.cut
      /\ r'.matched = r.matched /\ r' \in Readers
  BY <1>1, <1>2 DEF PosTypeOK, Readers, Stages
<1>4. Stream' = Stream
  BY <1>3 DEF Stream, UpdateStatData
<1> QED
  BY <1>3, <1>4 DEF UpdateStatData

\* The row that is read.
RowRead == Range(SubSeq(Stream, r.pos + 1, RowEnd))

LEMMA ReadRowChanges ==
  ASSUME PosTypeOK, Len(Stream) \in Positions, ReadRow
  PROVE  /\ r.at = "read" /\ ~AtLimit /\ r.good
         /\ r.pos + 1 \in DOMAIN Stream /\ RowEnd \in DOMAIN Stream /\ RowEnd \in Nat
         /\ \/ RowEnd = r.pos + 2 /\ Stream[r.pos + 1] \in Slow
            \/ /\ RowEnd = r.pos + 1
               /\ Stream[r.pos + 1] \in Slow => r.pos + 1 = Len(Stream)
         /\ \A p : p \in RowRead <=> \E i \in r.pos + 1 .. RowEnd : p = Stream[i]
         /\ RowRead \subseteq Pieces
         /\ r'.at = "read" /\ r'.pos = RowEnd /\ r'.matched = r.matched \cup {RowRead}
         /\ r'.onOld = r.onOld /\ r'.saved = r.saved /\ r'.ino = r.ino /\ r'.size = r.size
         /\ r'.of = r.of /\ r'.good = r.good /\ r'.cut = r.cut
         /\ r' \in Readers /\ Stream' = Stream
         /\ UNCHANGED <<log, old, disk, env, history>>
<1>1. /\ Stream \in Seq(Pieces) /\ Len(Stream) \in Nat /\ DOMAIN Stream = 1 .. Len(Stream)
      /\ r.pos \in Nat
  BY PosFacts
<1>2. r.at = "read" /\ ~AtLimit /\ r.good /\ r.pos < Len(Stream)
  BY <1>1 DEF ReadRow, AtEnd
<1>3. /\ r.pos + 1 \in DOMAIN Stream /\ RowEnd \in DOMAIN Stream /\ RowEnd \in Nat
      /\ \/ RowEnd = r.pos + 2 /\ Stream[r.pos + 1] \in Slow
         \/ /\ RowEnd = r.pos + 1
            /\ Stream[r.pos + 1] \in Slow => r.pos + 1 = Len(Stream)
  BY <1>1, <1>2 DEF RowEnd
<1>4. r.pos + 1 \in 1 .. Len(Stream) + 1 /\ RowEnd <= Len(Stream)
  BY <1>1, <1>3
<1>5. \A p : p \in RowRead <=> \E i \in r.pos + 1 .. RowEnd : p = Stream[i]
  BY <1>1, <1>3, <1>4, RangeOfPart DEF RowRead
<1>6. RowRead \subseteq Pieces
  BY <1>1, <1>3, <1>4, <1>5, ElementOfSeq
<1>7. r' = [r EXCEPT !.pos = RowEnd, !.matched = r.matched \cup {RowRead}]
  BY DEF ReadRow, RowRead
<1>8. RowEnd \in Positions
  BY <1>3, <1>4, PiecesAreFinite DEF Positions
<1>9. /\ r'.at = "read" /\ r'.pos = RowEnd /\ r'.matched = r.matched \cup {RowRead}
      /\ r'.onOld = r.onOld /\ r'.saved = r.saved /\ r'.ino = r.ino /\ r'.size = r.size
      /\ r'.of = r.of /\ r'.good = r.good /\ r'.cut = r.cut
  BY <1>2, <1>7 DEF PosTypeOK, Readers
<1>10. r.matched \cup {RowRead} \in SUBSET SUBSET Pieces
  BY <1>6 DEF PosTypeOK, Readers
<1>11. r' \in Readers
  BY <1>7, <1>8, <1>10 DEF PosTypeOK, Readers
<1>12. Stream' = Stream
  BY <1>9 DEF Stream, ReadRow
<1> QED
  BY <1>2, <1>3, <1>5, <1>6, <1>9, <1>11, <1>12 DEF ReadRow

\* The row that is read begins at the position and ends at the next one.
LEMMA RowReadIsBetween ==
  ASSUME PosTypeOK, Len(Stream) \in Positions, ReadRow
  PROVE  /\ r.pos < RowEnd
         /\ \A p \in RowRead : \E i \in DOMAIN Stream :
              i > r.pos /\ i <= RowEnd /\ p = Stream[i]
<1>1. r.pos \in Nat /\ DOMAIN Stream = 1 .. Len(Stream) /\ Len(Stream) \in Nat
  BY PosFacts
<1>2. RowEnd \in DOMAIN Stream /\ RowEnd \in {r.pos + 1, r.pos + 2}
  BY ReadRowChanges
<1>3. ASSUME NEW i \in r.pos + 1 .. RowEnd
      PROVE  i \in DOMAIN Stream /\ i > r.pos /\ i <= RowEnd
  BY <1>1, <1>2
<1>4. ASSUME NEW p \in RowRead
      PROVE  \E i \in r.pos + 1 .. RowEnd : p = Stream[i]
  BY ReadRowChanges
<1> QED
  BY <1>1, <1>2, <1>3, <1>4

\* A stream goes bad between two rows or within the one at the position.
LEMMA GoBadChanges ==
  ASSUME PosTypeOK, GoBad
  PROVE  /\ r.at = "read" /\ r.good /\ ~AtEnd
         /\ r'.at = "read" /\ ~r'.good /\ r'.cut \in Rows \cup {0}
         /\ unfinished' = unfinished \cup ({r'.cut} \ {0})
         /\ r'.pos = r.pos /\ r'.onOld = r.onOld /\ r'.saved = r.saved /\ r'.ino = r.ino
         /\ r'.size = r.size /\ r'.of = r.of /\ r'.matched = r.matched
         /\ r' \in Readers /\ Stream' = Stream
         /\ failures' \in 0 .. MaxFailures
         /\ UNCHANGED <<log, old, disk, written, changes, delivered, excused, overlapped, split>>
<1>1. PICK row \in {0} \cup (IF AtLimit THEN {} ELSE {RowAt(r.pos + 1)}) :
        /\ r' = [r EXCEPT !.good = FALSE, !.cut = row]
        /\ unfinished' = unfinished \cup ({row} \ {0})
  BY DEF GoBad
<1>2. row \in Rows \cup {0}
  <2>1. r.pos + 1 \in DOMAIN Stream
    BY PosFacts DEF GoBad, AtEnd
  <2>2. Stream[r.pos + 1] \in Pieces
    BY <2>1, PosFacts, ElementOfSeq
  <2> QED
    BY <1>1, <2>2, SlowAssumption, BoundsAssumption DEF RowAt, Pieces, Rows
<1>3. /\ r'.at = r.at /\ ~r'.good /\ r'.cut = row
      /\ r'.pos = r.pos /\ r'.onOld = r.onOld /\ r'.saved = r.saved /\ r'.ino = r.ino
      /\ r'.size = r.size /\ r'.of = r.of /\ r'.matched = r.matched /\ r' \in Readers
  BY <1>1, <1>2 DEF PosTypeOK, Readers
<1>4. Stream' = Stream
  BY <1>3 DEF Stream, GoBad
<1>5. failures' \in 0 .. MaxFailures
  BY BoundsAssumption DEF GoBad, PosTypeOK
<1> QED
  BY <1>1, <1>2, <1>3, <1>4, <1>5 DEF GoBad

\* A reader that stops saves its position, or the end it saw first when tellg does
\* not tell or the file is empty.
LEMMA StopReadingChanges ==
  ASSUME PosTypeOK, StopReading
  PROVE  /\ r.at = "read" /\ (AtLimit \/ AtEnd \/ ~r.good)
         /\ \/ r'.saved = r.pos /\ r.pos > 0
            \/ r'.saved = r.saved /\ (r.pos = 0 \/ AtEnd \/ ~r.good)
         /\ r'.at = "save" /\ r'.size = Larger(r.size, r'.saved)
         /\ r'.pos = r.pos /\ r'.onOld = r.onOld /\ r'.ino = r.ino /\ r'.of = r.of
         /\ r'.good = r.good /\ r'.cut = r.cut
         /\ r'.matched = r.matched /\ r' \in Readers /\ Stream' = Stream
         /\ UNCHANGED <<log, old, disk, env, history>>
<1>1. PICK tellg \in IF ~r.good THEN {-1} ELSE {r.pos} \cup IF AtEnd THEN {-1} ELSE {} :
        r' = [r EXCEPT !.at = "save", !.saved = IF tellg > 0 THEN tellg ELSE r.saved,
                       !.size = Larger(r.size, IF tellg > 0 THEN tellg ELSE r.saved)]
  BY DEF StopReading
<1> DEFINE saved == IF tellg > 0 THEN tellg ELSE r.saved
<1>2. r.pos \in Positions /\ r.saved \in Positions /\ r.size \in Positions /\ r.pos \in Nat
  BY PosFacts DEF PosTypeOK, Readers
<1>3. \/ saved = r.pos /\ r.pos > 0
      \/ saved = r.saved /\ (r.pos = 0 \/ AtEnd \/ ~r.good)
  BY <1>2
<1>4. saved \in Positions /\ Larger(r.size, saved) \in Positions
  BY <1>2, <1>3 DEF Larger
<1>5. r' = [r EXCEPT !.at = "save", !.saved = saved, !.size = Larger(r.size, saved)]
  BY <1>1
<1> HIDE DEF saved
<1>6. /\ r'.at = "save" /\ r'.saved = saved /\ r'.size = Larger(r.size, saved)
      /\ r'.pos = r.pos /\ r'.onOld = r.onOld /\ r'.ino = r.ino /\ r'.of = r.of
      /\ r'.good = r.good /\ r'.cut = r.cut
      /\ r'.matched = r.matched /\ r' \in Readers
  BY <1>4, <1>5 DEF PosTypeOK, Readers, Stages
<1>7. Stream' = Stream
  BY <1>6 DEF Stream, StopReading
<1> QED
  BY <1>3, <1>6, <1>7 DEF StopReading

LEMMA BeginSaveChanges ==
  ASSUME PosTypeOK, BeginSave
  PROVE  /\ r.at = "save" /\ disk' = Corrupt /\ Corrupt.state = "corrupt" /\ Corrupt.of = 0
         /\ Corrupt \in Records
         /\ r'.at = "saving" /\ r'.pos = r.pos /\ r'.onOld = r.onOld
         /\ r'.saved = r.saved /\ r'.ino = r.ino /\ r'.size = r.size /\ r'.of = r.of
         /\ r'.matched = r.matched /\ r'.good = r.good /\ r'.cut = r.cut
         /\ r' \in Readers /\ Stream' = Stream
         /\ UNCHANGED <<log, old, env, history>>
<1>1. Corrupt \in Records /\ Corrupt.state = "corrupt" /\ Corrupt.of = 0
  BY PiecesAreFinite, BoundsAssumption DEF Corrupt, NoRecord, Records
<1>2. r' = [r EXCEPT !.at = "saving"]
  BY DEF BeginSave
<1>3. /\ r'.at = "saving" /\ r'.pos = r.pos /\ r'.onOld = r.onOld
      /\ r'.saved = r.saved /\ r'.ino = r.ino /\ r'.size = r.size /\ r'.of = r.of
      /\ r'.matched = r.matched /\ r'.good = r.good /\ r'.cut = r.cut /\ r' \in Readers
  BY <1>2 DEF PosTypeOK, Readers, Stages
<1>4. Stream' = Stream
  BY <1>3 DEF Stream, BeginSave
<1> QED
  BY <1>1, <1>3, <1>4 DEF BeginSave

LEMMA EndSaveChanges ==
  ASSUME PosTypeOK, EndSave
  PROVE  /\ r.at = "saving" /\ disk' \in Records
         /\ disk'.state = "valid" /\ disk'.pos = r.saved /\ disk'.ino = r.ino
         /\ disk'.size = r.size /\ disk'.of = r.of
         /\ r'.at = "reply" /\ r'.pos = r.pos /\ r'.onOld = r.onOld
         /\ r'.saved = r.saved /\ r'.ino = r.ino /\ r'.size = r.size /\ r'.of = r.of
         /\ r'.matched = r.matched /\ r'.good = r.good /\ r'.cut = r.cut
         /\ r' \in Readers /\ Stream' = Stream
         /\ excused' = excused \cup PassedOver /\ PassedOver \subseteq Pieces
         /\ UNCHANGED <<log, old, env, delivered, overlapped, unfinished, split>>
<1>1. r' = [r EXCEPT !.at = "reply"]
  BY DEF EndSave
<1>2. /\ r'.at = "reply" /\ r'.pos = r.pos /\ r'.onOld = r.onOld
      /\ r'.saved = r.saved /\ r'.ino = r.ino /\ r'.size = r.size /\ r'.of = r.of
      /\ r'.matched = r.matched /\ r'.good = r.good /\ r'.cut = r.cut /\ r' \in Readers
  BY <1>1 DEF PosTypeOK, Readers, Stages
<1>3. disk' \in Records
  BY DEF EndSave, PosTypeOK, Readers, Records
<1>4. Stream' = Stream
  BY <1>2 DEF Stream, EndSave
<1>5. PassedOver \subseteq Pieces
  BY PosFacts, ElementOfSeq DEF PassedOver
<1> QED
  BY <1>2, <1>3, <1>4, <1>5 DEF EndSave

LEMMA LengthsArePositions ==
  ASSUME PosTypeOK, FilesInOrder
  PROVE  /\ Len(log.rows) \in Positions /\ Len(old) \in Positions
         /\ Len(Stream) \in Positions
<1> QED
  BY LengthIsAPosition, PosFacts DEF FilesInOrder, Stream

LEMMA UnfinishedAreRows == Unfinished \subseteq Rows /\ Slow \subseteq Rows
<1> QED
  BY SlowAssumption DEF Unfinished, Rows

-----------------------------------------------------------------------------
(* The inductive invariant of LogFilePosition, part by part.               *)

LEMMA InitPosInv == PosInit => PosInv
<1> SUFFICES ASSUME PosInit PROVE PosInv
  OBVIOUS
<1> USE BoundsAssumption, MaxMatchedAssumption, PiecesAreFinite
<1>1. FirstInode \in Inodes /\ log = [ino |-> FirstInode, rows |-> <<>>, born |-> 1]
  BY InodeAssumption DEF PosInit
<1>2. /\ <<>> \in Seq(Pieces) /\ Len(<<>>) = 0 /\ DOMAIN <<>> = {} /\ Range(<<>>) = {}
      /\ IsFiniteSet({}) /\ Cardinality({}) = 0
  BY EmptySeq, LenProperties, FS_EmptySet DEF Range
<1>3. /\ log.rows = <<>> /\ log.born = 1 /\ log.ino \in Inodes
      /\ log \in [ino : Inodes, rows : Seq(Pieces), born : 1 .. MaxChanges + 1]
  BY <1>1, <1>2
<1>4. NoRecord \in Records /\ NoRecord.state = "none" /\ NoRecord.of = 0
  BY DEF NoRecord, Records
<1>5. PosTypeOK
  BY <1>2, <1>3, <1>4, NobodyReads DEF PosInit, PosTypeOK
<1>6. FilesInOrder
  BY <1>2, <1>3, NobodyReads DEF PosInit, FilesInOrder, InOrder
<1>7. RecordFits /\ ReaderFits
  BY <1>3, <1>4, NobodyReads DEF PosInit, RecordFits, ReaderFits
<1>8. NothingIsAhead /\ ReadIsBehind /\ NothingIsMissing
  BY <1>3, <1>4, NobodyReads
     DEF PosInit, NothingIsAhead, ReadIsBehind, NothingIsMissing, OnlyOverlappedRowsRepeat,
         Running
<1>9. CutsAreKnown
  BY <1>2, <1>3, <1>4, NobodyReads, SlowAssumption
     DEF PosInit, CutsAreKnown, CutIsKnown, OnlyUnfinishedRowsAreSplit
<1> QED
  BY <1>5, <1>6, <1>7, <1>8, <1>9 DEF PosInv

LEMMA NextPosTypeOK ==
  ASSUME PosTypeOK, FilesInOrder, [PosNext]_posVars
  PROVE  PosTypeOK'
<1> USE BoundsAssumption, MaxMatchedAssumption DEF env, history
<1>1. /\ log \in [ino : Inodes, rows : Seq(Pieces), born : 1 .. MaxChanges + 1]
      /\ old \in Seq(Pieces) /\ disk \in Records /\ r \in Readers
      /\ IsFiniteSet(r.matched) /\ Cardinality(r.matched) <= MaxMatched
      /\ written \in Pieces \cup {0}
      /\ changes \in 0 .. MaxChanges /\ failures \in 0 .. MaxFailures
      /\ delivered \in [Pieces -> 0 .. 2]
      /\ excused \subseteq Pieces /\ overlapped \subseteq Pieces
      /\ unfinished \subseteq Rows /\ split \subseteq Rows
  BY DEF PosTypeOK
<1>2. Len(log.rows) \in Positions /\ Len(Stream) \in Positions /\ Len(old) \in Positions
  BY LengthsArePositions
<1>3. log.born = changes + 1
  BY DEF FilesInOrder
<1>4. UNION r.matched \subseteq Pieces
  BY <1>1 DEF Readers
<1>5. r'.matched = {} => IsFiniteSet(r'.matched) /\ Cardinality(r'.matched) <= MaxMatched
  <2>1. IsFiniteSet({}) /\ Cardinality({}) <= MaxMatched
    BY FS_EmptySet
  <2> QED
    BY <2>1
<1>6. CASE Append1
  BY <1>1, <1>6, AppendChanges, UnfinishedAreRows DEF PosTypeOK
<1>7. CASE Rotate
  <2>1. r' \in Readers /\ old' \in Seq(Pieces) /\ r'.matched = r.matched
    <3>1. r'.onOld \in BOOLEAN
      BY <1>1, <1>3, <1>7, RotateChanges DEF Readers
    <3> QED
      BY <1>1, <1>3, <1>7, <3>1, RotateChanges DEF Readers
  <2>2. Range(log.rows) \subseteq Pieces
    BY <1>1, RangeOf
  <2> QED
    BY SMTT(30), <1>1, <1>3, <1>7, <2>1, <2>2, RotateChanges, UnfinishedAreRows DEF PosTypeOK
<1>8. CASE Truncate
  <2>1. Range(log.rows) \subseteq Pieces
    BY <1>1, RangeOf
  <2> QED
    BY <1>1, <1>3, <1>8, <2>1, TruncateChanges, UnfinishedAreRows DEF PosTypeOK
<1>9. CASE Open
  BY <1>1, <1>2, <1>5, <1>9, OpenChanges, UnfinishedAreRows DEF PosTypeOK
<1>10. CASE Position
  <2>1. First(StartOf, Stream) \subseteq Pieces
    BY <1>10, PositionChanges, PosFacts, FirstOf
  <2> QED
    BY <1>1, <1>10, <2>1, PositionChanges, UnfinishedAreRows DEF PosTypeOK
<1>11. CASE UpdateStatData
  BY <1>1, <1>2, <1>11, UpdateStatDataChanges DEF PosTypeOK
<1>12. CASE ReadRow
  <2>1. Cardinality(r.matched) \in Nat /\ Cardinality(r.matched) < MaxMatched
    BY <1>1, <1>2, <1>12, ReadRowChanges, FS_CardinalityType DEF AtLimit
  <2>2. /\ IsFiniteSet(r.matched \cup {RowRead})
        /\ Cardinality(r.matched \cup {RowRead}) <= MaxMatched
    <3>1. /\ IsFiniteSet(r.matched \cup {RowRead})
          /\ \/ Cardinality(r.matched \cup {RowRead}) = Cardinality(r.matched)
             \/ Cardinality(r.matched \cup {RowRead}) = Cardinality(r.matched) + 1
      BY <1>1, FS_AddElement
    <3> QED
      BY <2>1, <3>1
  <2> QED
    BY <1>1, <1>2, <1>12, <2>2, ReadRowChanges DEF PosTypeOK
<1>13. CASE StopReading
  BY <1>1, <1>13, StopReadingChanges DEF PosTypeOK
<1>14. CASE BeginSave
  BY <1>1, <1>14, BeginSaveChanges DEF PosTypeOK
<1>15. CASE EndSave
  BY <1>1, <1>15, EndSaveChanges DEF PosTypeOK
<1>16. CASE Reply
  <2>1. delivered' \in [Pieces -> 0 .. 2]
    <3>1. \A p \in Pieces : delivered[p] \in 0 .. 2
      BY <1>1
    <3>2. \A p \in Pieces :
            (IF p \in UNION r.matched /\ delivered[p] < 2 THEN delivered[p] + 1 ELSE delivered[p])
              \in 0 .. 2
      BY <3>1
    <3> QED
      BY <1>16, <3>2 DEF Reply
  <2>2. /\ split' \subseteq Rows
        /\ UNCHANGED <<log, disk, env, excused, overlapped, unfinished>> /\ Stop
    BY <1>1, <1>16, UnfinishedAreRows DEF Reply, Readers
  <2> QED
    BY <1>1, <1>5, <2>1, <2>2, StopChanges DEF PosTypeOK
<1>17. CASE Fail
  <2>1. failures' \in 0 .. MaxFailures /\ Stop
        /\ UNCHANGED <<log, disk, written, changes, history>>
    BY <1>1, <1>17 DEF Fail
  <2> QED
    BY <1>1, <1>5, <2>1, StopChanges DEF PosTypeOK
<1>18. CASE Kill
  <2>1. /\ failures' \in 0 .. MaxFailures /\ Stop /\ excused' \subseteq Pieces
        /\ UNCHANGED <<log, disk, written, changes, delivered, overlapped, unfinished, split>>
    BY <1>1, <1>4, <1>18 DEF Kill
  <2> QED
    BY <1>1, <1>5, <2>1, StopChanges DEF PosTypeOK
<1>19. CASE UNCHANGED posVars
  BY <1>19 DEF posVars, PosTypeOK
<1>20. CASE GoBad
  BY <1>1, <1>20, GoBadChanges DEF PosTypeOK
<1> QED
  BY <1>6, <1>7, <1>8, <1>9, <1>10, <1>11, <1>12, <1>13, <1>14, <1>15, <1>16, <1>17, <1>18,
     <1>19, <1>20 DEF PosNext, Reader

\* A sequence stays in order when more is written elsewhere, and when the piece that
\* is written goes to its end.
LEMMA OrderIsKept ==
  ASSUME PosTypeOK, FilesInOrder, Append1
  PROVE  InOrder(old)' /\ InOrder(log.rows)'
<1>1. /\ written' = NextPiece(written) /\ written' \in Pieces
      /\ Order(written) < Order(written') /\ Order(written) \in Nat /\ Order(written') \in Nat
  BY AppendChanges, NextPieceIsLater DEF PosTypeOK
<1>2. InOrder(log.rows) /\ InOrder(old)
  BY DEF FilesInOrder
<1> DEFINE n == Len(log.rows)
<1>3. /\ n \in Nat /\ DOMAIN log.rows = 1 .. n
      /\ \A i \in 1 .. n : log.rows[i] \in Pieces /\ Order(log.rows[i]) \in Nat
      /\ \A i \in DOMAIN old : Order(old[i]) \in Nat
  BY PosFacts, ElementOfSeq, NextPieceIsLater
<1>4. InOrder(old)'
  <2>1. old' = old
    BY AppendChanges
  <2>2. \A i \in DOMAIN old : Order(old[i]) <= Order(written')
    BY <1>1, <1>2, <1>3 DEF InOrder
  <2> QED
    BY <1>2, <2>1, <2>2 DEF InOrder
<1>5. /\ DOMAIN log'.rows = 1 .. n + 1
      /\ \A i \in 1 .. n : log'.rows[i] = log.rows[i]
      /\ log'.rows[n + 1] = written'
  BY AppendChanges
<1>6. InOrder(log.rows)'
  <2> SUFFICES ASSUME NEW i \in 1 .. n + 1
               PROVE  /\ Order(log'.rows[i]) <= Order(written')
                      /\ \A j \in 1 .. n + 1 :
                           i < j => Order(log'.rows[i]) < Order(log'.rows[j])
                      /\ i + 1 \in 1 .. n + 1 => log'.rows[i + 1] = NextPiece(log'.rows[i])
    BY <1>5 DEF InOrder
  <2>1. CASE i = n + 1
    BY <1>1, <1>3, <1>5, <2>1
  <2>2. CASE i \in 1 .. n
    <3>1. /\ log'.rows[i] = log.rows[i] /\ Order(log.rows[i]) \in Nat
          /\ Order(log.rows[i]) <= Order(written)
          /\ \A j \in 1 .. n : i < j => Order(log.rows[i]) < Order(log.rows[j])
          /\ i + 1 \in 1 .. n => log.rows[i + 1] = NextPiece(log.rows[i])
      BY <1>2, <1>3, <1>5, <2>2 DEF InOrder
    <3>2. i + 1 = n + 1 => log.rows[i] = written
      <4>1. n > 0 => log.rows[n] = written
        BY <1>3, PosFacts, EmptySeq DEF FilesInOrder
      <4> QED
        BY <1>3, <2>2, <4>1
    <3>3. \A j \in 1 .. n + 1 : i < j => Order(log'.rows[i]) < Order(log'.rows[j])
      <4> SUFFICES ASSUME NEW j \in 1 .. n + 1, i < j
                   PROVE  Order(log.rows[i]) < Order(log'.rows[j])
        BY <3>1
      <4>1. CASE j = n + 1
        BY <1>1, <1>5, <3>1, <4>1
      <4>2. CASE j \in 1 .. n
        BY <1>5, <3>1, <4>2
      <4>3. n \in Nat
        BY <1>3
      <4> QED
        BY <4>1, <4>2, <4>3
    <3>4. i + 1 \in 1 .. n + 1 => log'.rows[i + 1] = NextPiece(log'.rows[i])
      BY <1>1, <1>3, <1>5, <2>2, <3>1, <3>2
    <3> QED
      BY <1>1, <3>1, <3>3, <3>4
  <2> QED
    BY <1>3, <2>1, <2>2
<1> QED
  BY <1>4, <1>6

LEMMA NextFilesInOrder ==
  ASSUME PosTypeOK, FilesInOrder, [PosNext]_posVars
  PROVE  FilesInOrder'
<1> USE DEF env, history
<1>1. /\ log.born = changes + 1 /\ InOrder(log.rows) /\ InOrder(old)
      /\ log.rows # <<>> => log.rows[Len(log.rows)] = written
      /\ \A p \in Pieces : delivered[p] > 0 \/ p \in UNION r.matched
                             => Order(p) <= Order(written)
  BY DEF FilesInOrder
<1>2. InOrder(<<>>) /\ InOrder(<<>>)'
  BY EmptySeq, LenProperties DEF InOrder
\* Nothing is written, and no more is in an answer, or read.
<1>3. ASSUME UNCHANGED <<log, old, written, changes>>,
             \A p \in Pieces : delivered'[p] > 0 \/ p \in UNION r'.matched
                                 => Order(p) <= Order(written)
      PROVE  FilesInOrder'
  BY <1>1, <1>3 DEF FilesInOrder, InOrder
<1>4. CASE Append1
  <2>1. /\ Order(written) < Order(written') /\ Order(written) \in Nat
        /\ Order(written') \in Nat
    BY <1>4, AppendChanges, NextPieceIsLater DEF PosTypeOK
  <2>2. /\ log'.born = changes' + 1 /\ delivered' = delivered /\ r' = r
        /\ log'.rows[Len(log'.rows)] = written'
    BY <1>1, <1>4, AppendChanges
  <2>3. \A p \in Pieces : delivered'[p] > 0 \/ p \in UNION r'.matched
                            => Order(p) <= Order(written')
    <3>1. \A p \in Pieces : Order(p) \in Nat
      BY NextPieceIsLater
    <3> QED
      BY <1>1, <2>1, <2>2, <3>1
  <2> QED
    BY <1>4, <2>2, <2>3, OrderIsKept DEF FilesInOrder
<1>5. CASE Rotate \/ Truncate
  <2>1. /\ log'.rows = <<>> /\ log'.born = changes' + 1 /\ written' = written
        /\ old' = old \/ old' = log.rows
        /\ delivered' = delivered /\ r'.matched = r.matched
    BY <1>1, <1>5, RotateChanges, TruncateChanges DEF PosTypeOK
  <2>2. InOrder(old)'
    BY <1>1, <2>1 DEF InOrder
  <2> QED
    BY <1>1, <1>2, <2>1, <2>2 DEF FilesInOrder
<1>6. CASE Open
  BY <1>1, <1>3, <1>6, OpenChanges, LengthsArePositions
<1>7. CASE Position \/ UpdateStatData \/ GoBad \/ StopReading \/ BeginSave \/ EndSave
  BY <1>1, <1>3, <1>7, PositionChanges, UpdateStatDataChanges, GoBadChanges,
     StopReadingChanges, BeginSaveChanges, EndSaveChanges, LengthsArePositions
<1>8. CASE ReadRow
  <2>1. /\ UNCHANGED <<log, old, env, history>> /\ r'.matched = r.matched \cup {RowRead}
        /\ \A p \in RowRead : \E i \in DOMAIN Stream : p = Stream[i]
    <3>1. /\ UNCHANGED <<log, old, env, history>> /\ r'.matched = r.matched \cup {RowRead}
          /\ r.pos + 1 \in DOMAIN Stream /\ RowEnd \in DOMAIN Stream
          /\ \A p : p \in RowRead <=> \E i \in r.pos + 1 .. RowEnd : p = Stream[i]
      BY <1>8, ReadRowChanges, LengthsArePositions
    <3>2. Len(Stream) \in Nat /\ DOMAIN Stream = 1 .. Len(Stream) /\ r.pos \in Nat
      BY LengthsArePositions, PosFacts
    <3>3. \A i \in r.pos + 1 .. RowEnd : i \in DOMAIN Stream
      <4> SUFFICES ASSUME NEW i \in r.pos + 1 .. RowEnd PROVE i \in 1 .. Len(Stream)
        BY <3>2
      <4> QED
        BY <3>1, <3>2
    <3> QED
      BY <3>1, <3>3
  <2>2. \A p \in RowRead : Order(p) <= Order(written)
    BY <1>1, <2>1 DEF Stream, InOrder
  <2> QED
    BY <1>1, <1>3, <2>1, <2>2
<1>9. CASE Reply \/ Fail \/ Kill
  <2>1. /\ UNCHANGED <<log, written, changes>> /\ Stop
        /\ \A p \in Pieces : delivered'[p] > 0 => delivered[p] > 0 \/ p \in UNION r.matched
    <3>1. CASE Reply
      BY <3>1 DEF Reply
    <3>2. CASE Fail \/ Kill
      BY <3>2 DEF Fail, Kill
    <3> QED
      BY <1>9, <3>1, <3>2
  <2>2. r'.matched = {} /\ old' = <<>>
    BY <2>1, StopChanges
  <2>3. InOrder(log.rows)'
    BY <1>1, <2>1 DEF InOrder
  <2> QED
    BY <1>1, <1>2, <2>1, <2>2, <2>3 DEF FilesInOrder
<1>10. CASE UNCHANGED posVars
  BY <1>1, <1>3, <1>10 DEF posVars
<1> QED
  BY <1>4, <1>5, <1>6, <1>7, <1>8, <1>9, <1>10 DEF PosNext, Reader

LEMMA NextRecordFits ==
  ASSUME PosTypeOK, FilesInOrder, RecordFits, ReaderFits, [PosNext]_posVars
  PROVE  RecordFits'
<1> USE PosFacts DEF env, history
<1>1. log.born = changes + 1
  BY DEF FilesInOrder
<1>2. CASE UNCHANGED <<log, disk>>
  BY <1>2 DEF RecordFits
<1>3. CASE Append1
  BY <1>3, AppendChanges DEF RecordFits
<1>4. CASE Rotate \/ Truncate
  BY <1>1, <1>4, RotateChanges, TruncateChanges DEF RecordFits
<1>5. CASE BeginSave
  BY <1>5, BeginSaveChanges DEF RecordFits
<1>6. CASE EndSave
  BY <1>6, EndSaveChanges DEF RecordFits, ReaderFits
<1>7. CASE Reply \/ Fail \/ Kill
  BY <1>2, <1>7 DEF Reply, Fail, Kill
<1>8. CASE Open \/ Position \/ UpdateStatData \/ ReadRow \/ GoBad \/ StopReading
  BY <1>2, <1>8, OpenChanges, PositionChanges, UpdateStatDataChanges, ReadRowChanges,
     GoBadChanges, StopReadingChanges, LengthsArePositions
<1>9. CASE UNCHANGED posVars
  BY <1>2, <1>9 DEF posVars
<1> QED
  BY <1>3, <1>4, <1>5, <1>6, <1>7, <1>8, <1>9 DEF PosNext, Reader

LEMMA NextReaderFits ==
  ASSUME PosTypeOK, FilesInOrder, RecordFits, ReaderFits, [PosNext]_posVars
  PROVE  ReaderFits'
<1> USE PosFacts, NobodyReads DEF env, history
<1>1. log.born = changes + 1 /\ log.born # 0
  BY DEF FilesInOrder
<1>2. CASE Append1
  <2>1. /\ UNCHANGED <<r, old, disk>> /\ log'.born = log.born /\ log'.ino = log.ino
        /\ Len(log'.rows) = Len(log.rows) + 1
    BY <1>2, AppendChanges
  <2>2. ASSUME r.at # "none", r.of = log.born
        PROVE  /\ r.saved <= Len(log'.rows) /\ r.size <= Len(log'.rows)
               /\ r.pos <= Len(log'.rows)
               /\ r.at \notin {"position", "stat"} => r.ino = log'.ino
    BY SMTT(30), <2>1, <2>2 DEF ReaderFits
  <2> QED
    BY <2>1, <2>2 DEF ReaderFits
<1>3. CASE Rotate
  <2>1. /\ r'.at = r.at /\ r'.pos = r.pos /\ r'.saved = r.saved /\ r'.size = r.size
        /\ r'.of = r.of /\ r'.matched = r.matched /\ r'.good = r.good
        /\ log'.born = log.born + 1
        /\ r.at = "none" => UNCHANGED <<old, r>>
        /\ UNCHANGED disk
    BY <1>1, <1>3, RotateChanges
  <2>2. r'.of < log'.born
    BY <2>1 DEF ReaderFits
  <2> QED
    BY <2>1, <2>2 DEF ReaderFits
<1>4. CASE Truncate
  BY SMTT(30), <1>1, <1>4, TruncateChanges DEF ReaderFits
<1>5. CASE Open
  BY <1>1, <1>5, OpenChanges, LengthsArePositions DEF ReaderFits
<1>6. CASE Position
  <2>1. r.of = log.born => StartOf <= Len(log.rows)
    BY <1>6, PositionChanges DEF ReaderFits, RecordFits, StartOf, IsFileNew
  <2> QED
    BY <1>6, <2>1, PositionChanges DEF ReaderFits
<1>7. CASE UpdateStatData
  BY <1>1, <1>7, UpdateStatDataChanges, LengthsArePositions DEF ReaderFits
<1>8. CASE ReadRow
  <2>1. /\ r.at = "read" /\ r'.at = "read" /\ r'.pos = RowEnd /\ RowEnd \in 1 .. Len(Stream)
        /\ r'.onOld = r.onOld /\ r'.saved = r.saved /\ r'.size = r.size /\ r'.ino = r.ino
        /\ r'.of = r.of /\ r'.good = r.good /\ UNCHANGED <<log, old, disk>>
    BY <1>8, ReadRowChanges, LengthsArePositions
  <2>2. r.of = log.born => RowEnd <= Len(log.rows)
    BY <2>1 DEF ReaderFits, Stream
  <2> QED
    BY <2>1, <2>2 DEF ReaderFits
<1>9. CASE StopReading
  <2>1. /\ r.at = "read" /\ r'.at = "save" /\ r'.size = Larger(r.size, r'.saved)
        /\ r'.saved \in {r.pos, r.saved}
        /\ r'.pos = r.pos /\ r'.onOld = r.onOld /\ r'.ino = r.ino /\ r'.of = r.of
        /\ r'.matched = r.matched /\ r'.good = r.good /\ UNCHANGED <<log, old, disk>>
    BY <1>9, StopReadingChanges
  <2>2. r'.saved <= r'.size
    BY <2>1 DEF Larger
  <2>3. r.of = log.born => r'.saved <= Len(log.rows) /\ r'.size <= Len(log.rows)
    BY <2>1 DEF Larger, ReaderFits
  <2> QED
    BY <2>1, <2>2, <2>3 DEF ReaderFits
<1>10. CASE BeginSave
  BY <1>10, BeginSaveChanges DEF ReaderFits
<1>11. CASE EndSave
  BY <1>11, EndSaveChanges DEF ReaderFits
<1>12. CASE Reply \/ Fail \/ Kill
  <2>1. Stop /\ log' = log
    BY <1>12 DEF Reply, Fail, Kill
  <2> QED
    BY <2>1, StopChanges DEF ReaderFits
<1>13. CASE UNCHANGED posVars
  BY <1>13 DEF posVars, ReaderFits
<1>14. CASE GoBad
  BY <1>14, GoBadChanges DEF ReaderFits
<1> QED
  BY <1>2, <1>3, <1>4, <1>5, <1>6, <1>7, <1>8, <1>9, <1>10, <1>11, <1>12, <1>13, <1>14
     DEF PosNext, Reader

\* No piece is in a file twice.
LEMMA PiecesDiffer ==
  ASSUME PosTypeOK, FilesInOrder, NEW i \in DOMAIN log.rows, NEW j \in DOMAIN log.rows, i < j
  PROVE  log.rows[i] # log.rows[j]
<1>1. Order(log.rows[i]) < Order(log.rows[j])
  BY DEF FilesInOrder, InOrder
<1>2. Order(log.rows[i]) \in Nat
  BY PosFacts, ElementOfSeq, NextPieceIsLater
<1> QED
  BY <1>1, <1>2

\* A piece that is only now written was not read, and is in no answer.
LEMMA WrittenIsNew ==
  ASSUME PosTypeOK, FilesInOrder, Append1
  PROVE  /\ written' \notin UNION r.matched /\ ~(delivered[written'] > 0)
         /\ written' \in Pieces
<1>1. /\ Order(written) < Order(written') /\ Order(written) \in Nat
      /\ Order(written') \in Nat /\ written' \in Pieces
  BY AppendChanges, NextPieceIsLater DEF PosTypeOK
<1> QED
  BY <1>1 DEF FilesInOrder

LEMMA NextReadIsBehind ==
  ASSUME PosTypeOK, FilesInOrder, ReaderFits, ReadIsBehind, [PosNext]_posVars
  PROVE  ReadIsBehind'
<1> USE PosFacts DEF env, history, Running, ReadUpTo, In
<1>1. log.born = changes + 1 /\ log.born # 0
  BY DEF FilesInOrder
<1>2. CASE Append1
  <2>1. /\ written' \notin UNION r.matched /\ UNCHANGED <<r, old>> /\ log'.born = log.born
        /\ DOMAIN log'.rows = 1 .. Len(log.rows) + 1
        /\ \A i \in 1 .. Len(log.rows) : log'.rows[i] = log.rows[i]
        /\ log'.rows[Len(log.rows) + 1] = written'
        /\ overlapped \subseteq overlapped'
        /\ Running => written' \in overlapped'
    BY <1>2, AppendChanges, WrittenIsNew
  <2>2. ASSUME NEW i \in DOMAIN log'.rows
        PROVE  \/ i \in DOMAIN log.rows /\ log'.rows[i] = log.rows[i]
               \/ log'.rows[i] = written'
    BY <2>1
  <2>3. ASSUME Running, NEW i \in DOMAIN log'.rows, i > In(r.saved, r.of)
        PROVE  log'.rows[i] \in overlapped'
    BY <2>1, <2>2, <2>3 DEF ReadIsBehind
  <2>4. ASSUME r.at = "read", r.of = log.born,
               NEW i \in DOMAIN log'.rows, i > r.pos, log'.rows[i] \in UNION r.matched
        PROVE  log'.rows[i] \in overlapped'
    BY <2>1, <2>2, <2>4 DEF ReadIsBehind
  <2>5. ASSUME r.at \in {"save", "saving", "reply"}, NEW i \in DOMAIN log'.rows,
               i > In(r.saved, r.of), log'.rows[i] \in UNION r.matched
        PROVE  log'.rows[i] \in overlapped'
    BY <2>1, <2>2, <2>5 DEF ReadIsBehind
  <2>6. Running => Range(old) \subseteq overlapped'
    BY <2>1 DEF ReadIsBehind
  <2> QED
    BY <2>1, <2>3, <2>4, <2>5, <2>6 DEF ReadIsBehind
<1>3. CASE Rotate
  BY <1>1, <1>3, RotateChanges DEF ReadIsBehind
<1>4. CASE Truncate
  BY <1>1, <1>4, TruncateChanges DEF ReadIsBehind
<1>5. CASE Open
  <2>1. Range(<<>>) = {}
    BY DEF Range
  <2> QED
    BY <1>5, <2>1, OpenChanges, LengthsArePositions DEF ReadIsBehind, ReaderFits
<1>6. CASE Position
  BY <1>6, PositionChanges DEF ReadIsBehind
<1>7. CASE UpdateStatData
  BY <1>1, <1>7, UpdateStatDataChanges, LengthsArePositions DEF ReadIsBehind, ReaderFits
<1>8. CASE ReadRow
  <2>1. /\ r.at = "read" /\ r'.at = "read" /\ r'.pos = RowEnd /\ RowEnd \in Nat
        /\ r'.matched = r.matched \cup {RowRead} /\ r'.of = r.of /\ r'.saved = r.saved
        /\ UNCHANGED <<log, old, overlapped>>
    BY <1>8, ReadRowChanges, LengthsArePositions
  <2>2. ASSUME r.of = log.born, NEW i \in DOMAIN log.rows, i > RowEnd,
               log.rows[i] \in UNION r'.matched
        PROVE  log.rows[i] \in overlapped
    <3>1. Stream = log.rows
      BY <2>2 DEF Stream, ReaderFits
    <3>2. log.rows[i] \notin RowRead
      <4> SUFFICES ASSUME log.rows[i] \in RowRead
                   PROVE  FALSE
        OBVIOUS
      <4>1. PICK j \in DOMAIN log.rows : j <= RowEnd /\ log.rows[i] = log.rows[j]
        BY <1>8, <3>1, RowReadIsBetween, LengthsArePositions
      <4>2. j < i
        BY <2>1, <2>2, <4>1
      <4> QED
        BY <2>2, <4>1, <4>2, PiecesDiffer
    <3>3. r.pos < RowEnd
      BY <1>8, RowReadIsBetween, LengthsArePositions
    <3>4. log.rows[i] \in UNION r.matched /\ i > r.pos
      BY <2>1, <2>2, <3>2, <3>3
    <3> QED
      BY <2>1, <2>2, <3>4 DEF ReadIsBehind
  <2> QED
    BY <2>1, <2>2 DEF ReadIsBehind
<1>9. CASE StopReading
  BY <1>9, StopReadingChanges DEF ReadIsBehind
<1>10. CASE BeginSave
  BY <1>10, BeginSaveChanges DEF ReadIsBehind
<1>11. CASE EndSave
  BY <1>11, EndSaveChanges DEF ReadIsBehind
<1>12. CASE Reply \/ Fail \/ Kill
  BY <1>12, StopChanges DEF Reply, Fail, Kill, ReadIsBehind
<1>13. CASE UNCHANGED posVars
  BY <1>13 DEF posVars, ReadIsBehind
<1>14. CASE GoBad
  BY <1>14, GoBadChanges DEF ReadIsBehind
<1> QED
  BY <1>2, <1>3, <1>4, <1>5, <1>6, <1>7, <1>8, <1>9, <1>10, <1>11, <1>12, <1>13, <1>14
     DEF PosNext, Reader

LEMMA NextNothingIsAhead ==
  ASSUME PosTypeOK, FilesInOrder, RecordFits, ReaderFits, ReadIsBehind, NothingIsAhead,
         [PosNext]_posVars
  PROVE  NothingIsAhead'
<1> USE PosFacts DEF env, history, Fresh, In
<1>1. log.born = changes + 1 /\ log.born # 0
  BY DEF FilesInOrder
<1>2. CASE Append1
  <2>1. /\ UNCHANGED <<r, disk, delivered>> /\ log'.born = log.born
        /\ DOMAIN log'.rows = 1 .. Len(log.rows) + 1
        /\ \A i \in 1 .. Len(log.rows) : log'.rows[i] = log.rows[i]
        /\ log'.rows[Len(log.rows) + 1] = written' /\ ~(delivered[written'] > 0)
        /\ overlapped \subseteq overlapped'
    BY <1>2, AppendChanges, WrittenIsNew
  <2>2. ASSUME NEW pos \in Nat, Fresh(pos)
        PROVE  \A i \in DOMAIN log'.rows :
                 i > pos /\ delivered'[log'.rows[i]] > 0 => log'.rows[i] \in overlapped'
    <3> SUFFICES ASSUME NEW i \in DOMAIN log'.rows, i > pos, delivered'[log'.rows[i]] > 0
                 PROVE  log'.rows[i] \in overlapped'
      OBVIOUS
    <3>1. CASE i = Len(log.rows) + 1
      <4>1. ~(delivered'[log'.rows[i]] > 0)
        BY <2>1, <3>1
      <4> QED
        BY <4>1
    <3>2. CASE i # Len(log.rows) + 1
      <4>1. Len(log.rows) \in Nat
        BY LengthsArePositions
      <4>2. i \in 1 .. Len(log.rows) + 1
        BY <2>1
      <4>3. i \in 1 .. Len(log.rows)
        BY <3>2, <4>1, <4>2
      <4>4. log'.rows[i] = log.rows[i]
        BY <2>1, <4>3
      <4>5. i \in DOMAIN log.rows
        BY <4>3, LengthsArePositions
      <4> QED
        BY <2>1, <2>2, <4>4, <4>5
    <3> QED
      BY <3>1, <3>2
  <2>3. OnlyOverlappedRowsRepeat'
    BY <2>1 DEF NothingIsAhead, OnlyOverlappedRowsRepeat
  <2>4. disk.state = "valid" => Fresh(In(disk.pos, disk.of))'
    BY <2>1, <2>2 DEF NothingIsAhead
  <2>5. r.at # "none" => Fresh(In(r.saved, r.of))'
    BY <2>1, <2>2 DEF NothingIsAhead
  <2>6. r.at \in {"stat", "read"} /\ r.of = log.born => Fresh(r.pos)'
    BY <2>1, <2>2 DEF NothingIsAhead
  <2> QED
    BY <2>1, <2>3, <2>4, <2>5, <2>6 DEF NothingIsAhead
<1>3. CASE Rotate \/ Truncate
  BY <1>1, <1>3, RotateChanges, TruncateChanges DEF NothingIsAhead, OnlyOverlappedRowsRepeat
<1>4. CASE Open
  BY <1>4, OpenChanges, LengthsArePositions DEF NothingIsAhead, OnlyOverlappedRowsRepeat
<1>5. CASE Position
  <2>1. r.of = log.born => Fresh(StartOf)
    <3>1. r.at = "position"
      BY <1>5, PositionChanges
    <3>2. CASE disk.state = "valid" /\ ~IsFileNew /\ disk.of = log.born
      BY <3>2 DEF NothingIsAhead, StartOf
    <3>3. CASE disk.state # "valid"
      BY <3>1, <3>3 DEF NothingIsAhead, StartOf
    <3>4. CASE disk.state = "valid" /\ (IsFileNew \/ disk.of # log.born)
      <4>1. Fresh(0)
        <5>1. CASE disk.of # log.born
          BY <3>4, <5>1 DEF NothingIsAhead
        <5>2. CASE disk.of = log.born
          <6>1. ~IsFileNew
            BY <3>4, <5>2 DEF RecordFits, IsFileNew
          <6> QED
            BY <3>4, <5>2, <6>1
        <5> QED
          BY <5>1, <5>2
      <4>2. StartOf \in Nat
        BY <1>5, PositionChanges
      <4> QED
        BY <4>1, <4>2
    <3> QED
      BY <3>2, <3>3, <3>4
  <2> QED
    BY <1>5, <2>1, PositionChanges DEF NothingIsAhead, OnlyOverlappedRowsRepeat
<1>6. CASE UpdateStatData
  BY <1>1, <1>6, UpdateStatDataChanges, LengthsArePositions
     DEF NothingIsAhead, OnlyOverlappedRowsRepeat
<1>7. CASE ReadRow
  <2>1. /\ r.at = "read" /\ r'.at = "read" /\ r'.pos = RowEnd /\ RowEnd \in Nat
        /\ r'.matched = r.matched \cup {RowRead} /\ r'.of = r.of /\ r'.saved = r.saved
        /\ UNCHANGED <<log, old, disk, delivered, overlapped>>
    BY <1>7, ReadRowChanges, LengthsArePositions
  <2>2. ASSUME NEW p \in RowRead, delivered[p] > 0
        PROVE  p \in overlapped
    <3>1. PICK i \in DOMAIN Stream : i > r.pos /\ p = Stream[i]
      BY <1>7, <2>2, RowReadIsBetween, LengthsArePositions
    <3>2. CASE r.onOld
      BY <2>1, <3>1, <3>2, RangeOf DEF Stream, ReadIsBehind, Running
    <3>3. CASE ~r.onOld /\ r.of = log.born
      BY <2>1, <2>2, <3>1, <3>3 DEF Stream, NothingIsAhead
    <3>4. CASE ~r.onOld /\ r.of # log.born
      BY <2>1, <3>1, <3>4 DEF Stream, ReadIsBehind, Running
    <3> QED
      BY <3>2, <3>3, <3>4
  <2>3. r.pos < RowEnd
    BY <1>7, RowReadIsBetween, LengthsArePositions
  <2> QED
    BY <2>1, <2>2, <2>3 DEF NothingIsAhead, OnlyOverlappedRowsRepeat
<1>8. CASE StopReading
  BY <1>8, StopReadingChanges DEF NothingIsAhead, OnlyOverlappedRowsRepeat
<1>9. CASE BeginSave
  BY <1>9, BeginSaveChanges DEF NothingIsAhead, OnlyOverlappedRowsRepeat
<1>10. CASE EndSave
  BY <1>10, EndSaveChanges DEF NothingIsAhead, OnlyOverlappedRowsRepeat
<1>11. CASE Reply
  <2>1. /\ r.at = "reply" /\ UNCHANGED <<log, disk, overlapped>>
        /\ r'.at = "none" /\ r'.matched = {}
    BY <1>11, StopChanges DEF Reply
  <2>2. \A p \in Pieces :
          delivered'[p] = IF p \in UNION r.matched /\ delivered[p] < 2
                            THEN delivered[p] + 1 ELSE delivered[p]
    BY <1>11 DEF Reply
  <2>3. \A p \in Pieces : delivered[p] \in 0 .. 2
    BY DEF PosTypeOK
  <2>4. OnlyOverlappedRowsRepeat'
    <3>1. ASSUME NEW p \in Pieces, delivered'[p] > 1
          PROVE  delivered[p] > 1 \/ (p \in UNION r.matched /\ delivered[p] > 0)
      <4>1. /\ delivered[p] \in 0 .. 2
            /\ delivered'[p] = IF p \in UNION r.matched /\ delivered[p] < 2
                                 THEN delivered[p] + 1 ELSE delivered[p]
        BY <2>2, <2>3
      <4> HIDE PosFacts
      <4> QED
        BY <3>1, <4>1
    <3>2. ASSUME NEW p \in Pieces, delivered'[p] > 1
          PROVE  p \in overlapped
      BY <3>1, <3>2 DEF NothingIsAhead, OnlyOverlappedRowsRepeat
    <3> QED
      BY <2>1, <3>2 DEF OnlyOverlappedRowsRepeat
  <2>5. ASSUME disk.state = "valid", NEW i \in DOMAIN log.rows, i > In(disk.pos, disk.of),
               delivered'[log.rows[i]] > 0
        PROVE  log.rows[i] \in overlapped
    <3>1. log.rows[i] \in Pieces
      BY ElementOfSeq
    <3>2. delivered[log.rows[i]] > 0 \/ log.rows[i] \in UNION r.matched
      BY <2>2, <2>3, <2>5, <3>1
    <3>3. In(disk.pos, disk.of) = In(r.saved, r.of)
      BY <2>1 DEF ReaderFits
    <3> QED
      BY <2>1, <2>5, <3>2, <3>3 DEF NothingIsAhead, ReadIsBehind, ReadUpTo
  <2> QED
    BY <2>1, <2>4, <2>5 DEF NothingIsAhead
<1>12. CASE Fail \/ Kill
  BY <1>12, StopChanges DEF Fail, Kill, NothingIsAhead, OnlyOverlappedRowsRepeat
<1>13. CASE UNCHANGED posVars
  BY <1>13 DEF posVars, NothingIsAhead, OnlyOverlappedRowsRepeat
<1>14. CASE GoBad
  BY <1>14, GoBadChanges DEF NothingIsAhead, OnlyOverlappedRowsRepeat
<1> QED
  BY <1>2, <1>3, <1>4, <1>5, <1>6, <1>7, <1>8, <1>9, <1>10, <1>11, <1>12, <1>13, <1>14
     DEF PosNext, Reader

LEMMA NextNothingIsMissing ==
  ASSUME PosTypeOK, FilesInOrder, RecordFits, ReaderFits, NothingIsMissing, [PosNext]_posVars
  PROVE  NothingIsMissing'
<1> USE PosFacts DEF env, history, AccountedTo
<1>1. log.born = changes + 1 /\ log.born # 0
  BY DEF FilesInOrder
<1>2. CASE Append1
  <2>1. /\ UNCHANGED <<r, disk, delivered, excused>> /\ log'.born = log.born
        /\ DOMAIN log'.rows = 1 .. Len(log.rows) + 1
        /\ \A i \in 1 .. Len(log.rows) : log'.rows[i] = log.rows[i]
    BY <1>2, AppendChanges
  <2>2. \A i \in DOMAIN log'.rows : i <= Len(log.rows) => /\ i \in DOMAIN log.rows
                                                         /\ log'.rows[i] = log.rows[i]
    BY <2>1
  <2>3. disk.state = "valid" /\ disk.of = log.born => disk.pos <= Len(log.rows)
    BY DEF RecordFits
  <2> DEFINE known == IF r.good THEN r.saved ELSE r.pos
  <2>4. r.of = log.born => /\ r.at \in {"stat", "read"} => r.pos <= Len(log.rows)
                           /\ r.at \in {"save", "saving"} => known <= Len(log.rows)
    BY DEF ReaderFits
  <2>5. ASSUME disk.state = "valid", disk.of = log.born,
               NEW i \in DOMAIN log'.rows, i <= disk.pos
        PROVE  \/ delivered[log'.rows[i]] > 0
               \/ log'.rows[i] \in excused \cup UNION IF r.at = "reply" THEN r.matched ELSE {}
    <3>1. i \in DOMAIN log.rows /\ log'.rows[i] = log.rows[i]
      BY <2>1, <2>2, <2>3, <2>5
    <3> QED
      BY <2>5, <3>1 DEF NothingIsMissing
  <2>6. ASSUME r.of = log.born, r.at \in {"stat", "read"},
               NEW i \in DOMAIN log'.rows, i <= r.pos
        PROVE  delivered[log'.rows[i]] > 0 \/ log'.rows[i] \in excused \cup UNION r.matched
    <3>1. i \in DOMAIN log.rows /\ log'.rows[i] = log.rows[i]
      BY <2>1, <2>2, <2>4, <2>6
    <3> QED
      BY <2>6, <3>1 DEF NothingIsMissing
  <2>7. ASSUME r.of = log.born, r.at \in {"save", "saving"},
               NEW i \in DOMAIN log'.rows, i <= known
        PROVE  delivered[log'.rows[i]] > 0 \/ log'.rows[i] \in excused \cup UNION r.matched
    <3>1. i \in DOMAIN log.rows /\ log'.rows[i] = log.rows[i]
      BY <2>1, <2>2, <2>4, <2>7
    <3> QED
      BY <2>7, <3>1 DEF NothingIsMissing
  <2> QED
    BY <2>1, <2>5, <2>6, <2>7 DEF NothingIsMissing
<1>3. CASE Rotate \/ Truncate
  BY <1>1, <1>3, RotateChanges, TruncateChanges DEF NothingIsMissing
<1>4. CASE Open
  BY <1>4, OpenChanges, LengthsArePositions DEF NothingIsMissing
<1>5. CASE Position
  <2>1. r.of = log.born => Stream = log.rows
    BY DEF Stream, ReaderFits
  <2>2. ASSUME r.of = log.born, NEW i \in DOMAIN log.rows, i <= StartOf
        PROVE  delivered[log.rows[i]] > 0 \/ log.rows[i] \in excused'
    <3>1. CASE Excusable
      BY <1>5, <2>1, <2>2, <3>1, PositionChanges, FirstOf
    <3>2. CASE ~Excusable
      <4>1. disk.state = "valid" /\ disk.of = log.born /\ i <= disk.pos /\ r.at # "reply"
        BY <1>5, <2>2, <3>2, PositionChanges DEF Excusable, IsFileNew, StartOf
      <4> QED
        BY <1>5, <2>2, <3>2, <4>1, PositionChanges DEF NothingIsMissing
    <3> QED
      BY <3>1, <3>2
  <2>3. /\ r.at = "position" /\ r'.at = "stat" /\ r'.pos = StartOf /\ r'.of = r.of
        /\ UNCHANGED <<log, disk, delivered>> /\ excused \subseteq excused'
    BY <1>5, PositionChanges
  <2> QED
    BY <2>2, <2>3 DEF NothingIsMissing
<1>6. CASE UpdateStatData
  BY <1>1, <1>6, UpdateStatDataChanges, LengthsArePositions DEF NothingIsMissing
<1>7. CASE ReadRow
  <2>1. /\ r.at = "read" /\ r'.at = "read" /\ r'.pos = RowEnd /\ RowEnd \in Nat
        /\ r'.matched = r.matched \cup {RowRead} /\ r'.of = r.of
        /\ \A i \in r.pos + 1 .. RowEnd : Stream[i] \in RowRead
        /\ UNCHANGED <<log, disk, delivered, excused>>
    BY <1>7, ReadRowChanges, LengthsArePositions
  <2>2. ASSUME r.of = log.born, NEW i \in DOMAIN log.rows, i <= RowEnd
        PROVE  delivered[log.rows[i]] > 0 \/ log.rows[i] \in excused \cup UNION r'.matched
    <3>1. Stream = log.rows
      BY <2>2 DEF Stream, ReaderFits
    <3>2. i <= r.pos \/ i \in r.pos + 1 .. RowEnd
      BY <2>1, <2>2
    <3> QED
      BY <2>1, <2>2, <3>1, <3>2 DEF NothingIsMissing
  <2> QED
    BY <2>1, <2>2 DEF NothingIsMissing
<1>8. CASE StopReading
  <2>1. r.of = log.born => Stream = log.rows
    BY DEF Stream, ReaderFits
  <2>2. r.at = "read" /\ r.pos = 0 => AtEnd \/ ~r.good
    <3>1. ~(Cardinality({}) >= MaxMatched)
      BY MaxMatchedAssumption, FS_EmptySet
    <3>2. r.at = "read" /\ r.pos = 0 => r.matched = {}
      BY DEF ReaderFits
    <3> QED
      BY <1>8, <3>1, <3>2, StopReadingChanges DEF AtLimit
  <2>3. /\ r.at = "read" /\ r'.at = "save" /\ r'.of = r.of /\ r'.matched = r.matched
        /\ r'.saved = r.pos \/ AtEnd \/ ~r.good
        /\ r'.pos = r.pos /\ r'.good = r.good
        /\ UNCHANGED <<log, disk, delivered, excused>>
    BY <1>8, <2>2, StopReadingChanges
  <2>4. ASSUME r.of = log.born
        PROVE  AccountedTo(IF r.good THEN r'.saved ELSE r.pos, r.matched)
    <3>1. AccountedTo(r.pos, r.matched)
      BY <2>3, <2>4 DEF NothingIsMissing
    <3>2. AtEnd => \A i \in DOMAIN log.rows : i <= r.pos
      BY <2>1, <2>4 DEF AtEnd
    <3> QED
      BY <2>3, <3>1, <3>2
  <2> QED
    BY <2>3, <2>4 DEF NothingIsMissing
<1>9. CASE BeginSave
  BY <1>9, BeginSaveChanges DEF NothingIsMissing
<1>10. CASE EndSave
  <2>1. /\ r.at = "saving" /\ r'.at = "reply" /\ disk'.pos = r.saved /\ disk'.of = r.of
        /\ r'.matched = r.matched /\ r'.of = r.of /\ excused' = excused \cup PassedOver
        /\ UNCHANGED <<log, delivered>>
    BY <1>10, EndSaveChanges
  <2>2. ASSUME r.of = log.born, NEW i \in DOMAIN log.rows, i <= r.saved
        PROVE  delivered[log.rows[i]] > 0 \/ log.rows[i] \in excused' \cup UNION r.matched
    <3>1. CASE r.good \/ i <= r.pos
      BY <2>1, <2>2, <3>1 DEF NothingIsMissing
    <3>2. CASE ~r.good /\ i > r.pos
      <4>1. Stream = log.rows
        BY <2>2 DEF Stream, ReaderFits
      <4>2. i \in DOMAIN Stream \cap (r.pos + 1 .. r.saved)
        BY <2>2, <3>2, <4>1
      <4>3. log.rows[i] \in PassedOver
        BY <3>2, <4>1, <4>2 DEF PassedOver
      <4> QED
        BY <2>1, <4>3
    <3> QED
      BY <3>1, <3>2
  <2> QED
    BY <2>1, <2>2 DEF NothingIsMissing
<1>11. CASE Reply
  <2>1. /\ r.at = "reply" /\ UNCHANGED <<log, disk, excused>>
        /\ r'.at = "none" /\ r'.matched = {} /\ r'.of = 0
    BY <1>11, StopChanges DEF Reply
  <2>2. ASSUME NEW p \in Pieces, delivered[p] > 0 \/ p \in UNION r.matched
        PROVE  delivered'[p] > 0
    <3>1. delivered'[p] = IF p \in UNION r.matched /\ delivered[p] < 2
                            THEN delivered[p] + 1 ELSE delivered[p]
      BY <1>11 DEF Reply
    <3>2. delivered[p] \in 0 .. 2
      BY DEF PosTypeOK
    <3> QED
      BY <2>2, <3>1, <3>2
  <2>3. \A i \in DOMAIN log.rows : log.rows[i] \in Pieces
    BY ElementOfSeq
  <2> QED
    BY <1>1, <2>1, <2>2, <2>3 DEF NothingIsMissing
<1>12. CASE Fail
  BY <1>1, <1>12, StopChanges DEF Fail, NothingIsMissing
<1>13. CASE Kill
  BY <1>1, <1>13, StopChanges DEF Kill, NothingIsMissing
<1>14. CASE UNCHANGED posVars
  BY <1>14 DEF posVars, NothingIsMissing
<1>15. CASE GoBad
  BY <1>15, GoBadChanges DEF NothingIsMissing
<1> QED
  BY <1>2, <1>3, <1>4, <1>5, <1>6, <1>7, <1>8, <1>9, <1>10, <1>11, <1>12, <1>13, <1>14, <1>15
     DEF PosNext, Reader

\* The last row of the file at the path has no end when its first piece was the last
\* that was written.
LEMMA LastOfLog ==
  ASSUME PosTypeOK, FilesInOrder
  PROVE  /\ Len(log.rows) \in DOMAIN log.rows => log.rows[Len(log.rows)] = written
         /\ log.rows # <<>> <=> Len(log.rows) \in DOMAIN log.rows
         /\ Len(log.rows) \in DOMAIN log.rows /\ written \in Slow => Unfinished = {written}
         /\ old # <<>> <=> Len(old) \in DOMAIN old
<1> QED
  BY PosFacts, EmptySeq DEF FilesInOrder, Unfinished

\* Whatever has been read, a row of Slow is followed by its second piece.
LEMMA StreamInOrder ==
  ASSUME PosTypeOK, FilesInOrder, NEW i \in DOMAIN Stream, i + 1 \in DOMAIN Stream
  PROVE  /\ Stream[i] \in Slow => Stream[i + 1] = -Stream[i]
         /\ \A l \in Slow : Stream[i + 1] = -l => Stream[i] = l
<1>1. Stream[i + 1] = NextPiece(Stream[i])
  BY DEF FilesInOrder, InOrder, Stream
<1>2. Stream[i] \in Pieces
  BY PosFacts, ElementOfSeq
<1> QED
  BY <1>1, <1>2, NextPieceIsLater

\* A row without an end, or without a beginning, is known when it is where the stream
\* is, at the end or at the beginning of a file.
LEMMA EndsAreKnown ==
  ASSUME PosTypeOK, FilesInOrder, CutsAreKnown, r.at # "none"
  PROVE  /\ CutIsKnown(Stream, Len(Stream))
         /\ 1 \in DOMAIN Stream => \A l \in Slow : Stream[1] = -l => l \in unfinished
<1>1. CutIsKnown(log.rows, Len(log.rows))
  BY LastOfLog DEF CutsAreKnown, CutIsKnown
<1>2. 1 \in DOMAIN Stream => Stream # <<>> /\ Stream \in {log.rows, old}
  BY PosFacts, EmptySeq DEF Stream
<1> QED
  BY <1>1, <1>2 DEF CutsAreKnown, Stream

LEMMA AppendCutsAreKnown ==
  ASSUME PosTypeOK, FilesInOrder, RecordFits, ReaderFits, CutsAreKnown, Append1
  PROVE  CutsAreKnown'
<1> USE PosFacts DEF CutIsKnown
<1> DEFINE n == Len(log.rows)
<1>1. /\ written' = NextPiece(written)
      /\ DOMAIN log'.rows = 1 .. n + 1 /\ log'.rows # <<>> /\ log'.born = log.born
      /\ \A i \in 1 .. n : log'.rows[i] = log.rows[i]
      /\ log'.rows[n + 1] = written'
      /\ unfinished \subseteq unfinished'
      /\ r.at # "none" /\ written' \in Slow => written' \in unfinished'
      /\ UNCHANGED <<old, disk, r, split>>
  BY AppendChanges
<1>2. written' \in Slow /\ (r'.at # "none" \/ log'.rows = <<>>) => written' \in unfinished'
  BY <1>1
<1>3. CutIsKnown(old, Len(old))'
  BY <1>1 DEF CutsAreKnown
<1>4. ASSUME NEW l \in Slow, log'.rows[1] = -l
      PROVE  l \in unfinished'
  <2>1. CASE n = 0
    <3>1. written = l /\ log.rows = <<>>
      BY <1>1, <1>4, <2>1, NextPieceIsLater, LastOfLog DEF PosTypeOK
    <3> QED
      BY <1>1, <3>1 DEF CutsAreKnown
  <2>2. CASE n # 0
    <3>1. 1 \in 1 .. n /\ n \in DOMAIN log.rows
      BY <2>2
    <3>2. log.rows # <<>> /\ log.rows[1] = -l
      BY <1>1, <1>4, <3>1, LastOfLog
    <3> QED
      BY <1>1, <3>2 DEF CutsAreKnown
  <2> QED
    BY <2>1, <2>2
<1>5. \A q \in {log'.rows, old'} :
        q # <<>> => \A l \in Slow : q[1] = -l => l \in unfinished'
  BY <1>1, <1>4 DEF CutsAreKnown
<1>6. ASSUME NEW pos \in Nat, CutIsKnown(log.rows, pos), pos <= n \/ r.at # "none"
      PROVE  CutIsKnown(log.rows, pos)'
  BY <1>1, <1>6
<1>7. disk.state = "valid" /\ disk.of = log.born => CutIsKnown(log.rows, disk.pos)'
  <2> SUFFICES ASSUME disk.state = "valid", disk.of = log.born
               PROVE  CutIsKnown(log.rows, disk.pos)'
    BY <1>1
  <2>1. CutIsKnown(log.rows, disk.pos) /\ disk.pos <= n
    BY DEF CutsAreKnown, RecordFits
  <2>2. disk.pos \in Nat /\ disk' = disk
    BY <1>1
  <2> HIDE DEF CutIsKnown
  <2> QED
    BY <1>6, <2>1, <2>2
<1>8. r.at # "none" /\ r.of = log.born => CutIsKnown(log.rows, r.saved)'
  BY <1>1, <1>6 DEF CutsAreKnown
<1>9. r.at \in {"stat", "read"} => CutIsKnown(Stream, r.pos)'
  BY <1>1, <1>6 DEF CutsAreKnown, Stream
<1>10. /\ \A l \in Slow : {l} \in r'.matched \/ {-l} \in r'.matched => l \in unfinished'
       /\ r'.cut # 0 => r'.cut \in unfinished'
       /\ OnlyUnfinishedRowsAreSplit'
  BY <1>1 DEF CutsAreKnown, OnlyUnfinishedRowsAreSplit
<1> QED
  BY <1>1, <1>2, <1>3, <1>5, <1>7, <1>8, <1>9, <1>10 DEF CutsAreKnown

LEMMA RotateCutsAreKnown ==
  ASSUME PosTypeOK, FilesInOrder, RecordFits, ReaderFits, CutsAreKnown, Rotate \/ Truncate
  PROVE  CutsAreKnown'
<1> USE PosFacts DEF CutIsKnown
<1>1. /\ log'.rows = <<>> /\ DOMAIN log'.rows = {} /\ written' = written
      /\ unfinished' = unfinished \cup Unfinished /\ r'.at = r.at /\ r'.pos = r.pos
      /\ r'.matched = r.matched /\ r'.cut = r.cut /\ UNCHANGED split
      /\ \/ r.at # "none" /\ ~r.onOld /\ r'.onOld /\ old' = log.rows
         \/ (r.at = "none" \/ r.onOld) /\ UNCHANGED <<old, r>>
         \/ UNCHANGED <<old, r>>
  BY RotateChanges, TruncateChanges DEF FilesInOrder
<1>2. written' \in Slow => written' \in unfinished'
  BY <1>1, LastOfLog DEF CutsAreKnown
<1>3. CutIsKnown(old, Len(old))'
  <2>1. CutIsKnown(log.rows, Len(log.rows))'
    BY <1>1
  <2>2. Len(log.rows) \in DOMAIN log.rows /\ log.rows[Len(log.rows)] \in Slow
          => log.rows[Len(log.rows)] \in unfinished'
    BY <1>1, LastOfLog
  <2> QED
    BY <1>1, <2>2 DEF CutsAreKnown
<1>4. \A q \in {log'.rows, old'} :
        q # <<>> => \A l \in Slow : q[1] = -l => l \in unfinished'
  BY <1>1 DEF CutsAreKnown
<1>5. r.at \in {"stat", "read"} => CutIsKnown(Stream, r.pos)'
  BY <1>1 DEF CutsAreKnown, Stream
<1>6. /\ \A l \in Slow : {l} \in r'.matched \/ {-l} \in r'.matched => l \in unfinished'
      /\ r'.cut # 0 => r'.cut \in unfinished'
      /\ OnlyUnfinishedRowsAreSplit'
  BY <1>1 DEF CutsAreKnown, OnlyUnfinishedRowsAreSplit
<1> QED
  BY <1>1, <1>2, <1>3, <1>4, <1>5, <1>6 DEF CutsAreKnown

LEMMA PositionCutsAreKnown ==
  ASSUME PosTypeOK, FilesInOrder, RecordFits, ReaderFits, CutsAreKnown, Position
  PROVE  CutsAreKnown'
<1> USE PosFacts DEF CutIsKnown
<1>1. /\ r.at = "position" /\ StartOf \in Nat /\ r'.at = "stat" /\ r'.pos = StartOf
      /\ r'.saved = r.saved /\ r'.of = r.of /\ r'.matched = r.matched /\ Stream' = Stream
      /\ r'.cut = r.cut /\ unfinished \subseteq unfinished'
      /\ UNCHANGED <<log, old, disk, written, split>>
  BY PositionChanges DEF env
<1>2. ASSUME StartOf \in DOMAIN Stream, Stream[StartOf] \in Slow
      PROVE  Stream[StartOf] \in unfinished'
  <2>1. CASE StartOf = Len(Stream)
    BY <1>1, <1>2, <2>1, EndsAreKnown
  <2>2. CASE StartOf < Len(Stream) /\ Excusable
    <3>1. StartOf + 1 \in DOMAIN Stream
      BY <1>2, <2>2
    <3>2. Stream[StartOf + 1] = -Stream[StartOf]
      BY <1>2, <3>1, StreamInOrder
    <3> QED
      BY <1>2, <2>2, <3>2, PositionChanges
  <2>3. CASE ~Excusable
    <3>1. /\ disk.state = "valid" /\ disk.of = log.born /\ StartOf = disk.pos
          /\ r.of = log.born
      BY <1>2, <2>3 DEF Excusable, IsFileNew, StartOf
    <3>2. Stream = log.rows
      BY <3>1 DEF Stream, ReaderFits
    <3> QED
      BY <1>1, <1>2, <3>1, <3>2 DEF CutsAreKnown
  <2> QED
    BY <1>2, <2>1, <2>2, <2>3
<1>3. CutIsKnown(Stream, r.pos)'
  BY <1>1, <1>2
<1> QED
  BY <1>1, <1>3 DEF CutsAreKnown, OnlyUnfinishedRowsAreSplit

LEMMA ReadRowCutsAreKnown ==
  ASSUME PosTypeOK, FilesInOrder, ReaderFits, CutsAreKnown, ReadRow
  PROVE  CutsAreKnown'
<1> USE PosFacts DEF CutIsKnown
<1> DEFINE p == r.pos + 1
<1>1. /\ r.at = "read" /\ r'.at = "read" /\ r'.pos = RowEnd /\ RowEnd \in Nat
      /\ p \in DOMAIN Stream /\ RowEnd \in DOMAIN Stream
      /\ \/ RowEnd = r.pos + 2 /\ Stream[p] \in Slow
         \/ /\ RowEnd = p
            /\ Stream[p] \in Slow => p = Len(Stream)
      /\ r'.matched = r.matched \cup {RowRead} /\ r'.of = r.of /\ r'.saved = r.saved
      /\ r'.cut = r.cut /\ Stream' = Stream
      /\ UNCHANGED <<log, old, disk, written, unfinished, split>>
  BY ReadRowChanges, LengthsArePositions DEF env, history
<1>2. Stream[p] \in RowRead /\ Stream[RowEnd] \in RowRead
  <2>1. p \in r.pos + 1 .. RowEnd /\ RowEnd \in r.pos + 1 .. RowEnd
    BY <1>1
  <2> QED
    BY <2>1, ReadRowChanges, LengthsArePositions
<1>3. RowEnd = r.pos + 2 => Stream[RowEnd] = -Stream[p]
  <2>1. RowEnd = r.pos + 2 => p + 1 \in DOMAIN Stream /\ RowEnd = p + 1
    BY SMTT(30), <1>1
  <2> QED
    BY <1>1, <2>1, StreamInOrder
<1>4. ASSUME NEW l \in Slow, RowRead = {l} \/ RowRead = {-l}
      PROVE  l \in unfinished
  <2>1. RowEnd = p
    BY <1>1, <1>2, <1>3, <1>4, SlowPieces
  <2>2. CASE RowRead = {l}
    <3>1. Stream[p] = l /\ p = Len(Stream)
      BY <1>1, <1>2, <1>4, <2>1, <2>2, SlowPieces
    <3> QED
      BY <1>1, <3>1, EndsAreKnown
  <2>3. CASE RowRead = {-l}
    <3>1. Stream[p] = -l
      BY <1>2, <2>3
    <3>2. CASE r.pos = 0
      BY <1>1, <3>1, <3>2, EndsAreKnown
    <3>3. CASE r.pos # 0
      <4>1. r.pos \in DOMAIN Stream /\ r.pos + 1 \in DOMAIN Stream
        BY <1>1, <3>3
      <4>2. Stream[r.pos] = l
        BY <3>1, <4>1, StreamInOrder
      <4> QED
        BY <1>1, <4>1, <4>2 DEF CutsAreKnown
    <3> QED
      BY <3>2, <3>3
  <2> QED
    BY <1>4, <2>2, <2>3
<1>5. CutIsKnown(Stream, RowEnd)
  <2>1. CASE RowEnd = r.pos + 2
    BY <1>1, <1>3, <2>1, SlowPieces
  <2>2. CASE RowEnd = p
    BY <1>1, <2>2, EndsAreKnown
  <2> QED
    BY <1>1, <2>1, <2>2
<1>6. CutIsKnown(Stream, r.pos)'
  BY <1>1, <1>5
<1>7. \A l \in Slow : {l} \in r'.matched \/ {-l} \in r'.matched => l \in unfinished
  BY <1>1, <1>4 DEF CutsAreKnown
<1> QED
  BY <1>1, <1>6, <1>7 DEF CutsAreKnown, OnlyUnfinishedRowsAreSplit

LEMMA NextCutsAreKnown ==
  ASSUME PosTypeOK, FilesInOrder, RecordFits, ReaderFits, CutsAreKnown, [PosNext]_posVars
  PROVE  CutsAreKnown'
<1> USE PosFacts DEF env, history, CutIsKnown
<1>1. log.born = changes + 1 /\ log.born # 0
  BY DEF FilesInOrder
<1>2. CASE Open
  <2>1. /\ r.at = "none" /\ r'.at = "position" /\ r'.saved = Len(log.rows)
        /\ r'.matched = {} /\ r'.cut = 0 /\ unfinished' = unfinished \cup Unfinished
        /\ UNCHANGED <<log, old, disk, written, split>>
    BY <1>2, OpenChanges, LengthsArePositions
  <2>2. written \in Slow => written \in unfinished'
    BY <2>1, LastOfLog DEF CutsAreKnown
  <2>3. CutIsKnown(log.rows, Len(log.rows))'
    BY <2>1, <2>2, LastOfLog
  <2> QED
    BY <2>1, <2>2, <2>3 DEF CutsAreKnown, OnlyUnfinishedRowsAreSplit
<1>3. CASE UpdateStatData
  <2>1. /\ r.at = "stat" /\ r'.at = "read" /\ r'.of \in {r.of, 0} /\ r'.pos = r.pos
        /\ r'.saved = r.saved /\ r'.matched = r.matched /\ Stream' = Stream /\ r'.cut = r.cut
        /\ UNCHANGED <<log, old, disk, written, unfinished, split>>
    BY <1>3, UpdateStatDataChanges, LengthsArePositions
  <2> QED
    BY ZenonT(30), <1>1, <2>1 DEF CutsAreKnown, OnlyUnfinishedRowsAreSplit
<1>4. CASE StopReading
  <2>1. r.of = log.born => Stream = log.rows
    BY DEF Stream, ReaderFits
  <2>2. /\ r.at = "read" /\ r'.at = "save" /\ r'.of = r.of /\ r'.saved \in {r.pos, r.saved}
        /\ r'.matched = r.matched /\ r'.cut = r.cut
        /\ UNCHANGED <<log, old, disk, written, unfinished, split>>
    BY <1>4, StopReadingChanges
  <2>3. r.of = log.born => CutIsKnown(log.rows, r'.saved)
    BY <2>1, <2>2 DEF CutsAreKnown
  <2> QED
    BY <2>2, <2>3 DEF CutsAreKnown, OnlyUnfinishedRowsAreSplit
<1>5. CASE BeginSave
  BY <1>5, BeginSaveChanges DEF CutsAreKnown, OnlyUnfinishedRowsAreSplit
<1>6. CASE EndSave
  BY <1>6, EndSaveChanges DEF CutsAreKnown, OnlyUnfinishedRowsAreSplit
<1>7. CASE Reply \/ Fail \/ Kill
  <2>1. /\ r.at # "none" /\ Stop /\ UNCHANGED <<log, disk, written, unfinished>>
        /\ \/ UNCHANGED split
           \/ split' = split \cup {l \in Slow : {l} \in r.matched \/ {-l} \in r.matched}
                             \cup ({r.cut} \ {0})
    BY <1>7 DEF Reply, Fail, Kill
  <2>2. split' \subseteq unfinished'
    BY <2>1 DEF CutsAreKnown, OnlyUnfinishedRowsAreSplit
  <2>3. /\ r'.at = "none" /\ r'.matched = {} /\ old' = <<>> /\ DOMAIN old' = {} /\ r'.cut = 0
    BY <2>1, StopChanges
  <2> QED
    BY <2>1, <2>2, <2>3 DEF CutsAreKnown, OnlyUnfinishedRowsAreSplit
<1>8. CASE UNCHANGED posVars
  BY ZenonT(30), <1>8 DEF posVars, CutsAreKnown, OnlyUnfinishedRowsAreSplit, Stream
<1>9. CASE GoBad
  <2>1. /\ r.at = "read" /\ r'.at = "read" /\ r'.of = r.of /\ r'.pos = r.pos
        /\ r'.saved = r.saved /\ r'.matched = r.matched /\ Stream' = Stream
        /\ unfinished' = unfinished \cup ({r'.cut} \ {0})
        /\ UNCHANGED <<log, old, disk, written, split>>
    BY <1>9, GoBadChanges
  <2> QED
    BY <2>1 DEF CutsAreKnown, OnlyUnfinishedRowsAreSplit
<1> QED
  BY <1>2, <1>3, <1>4, <1>5, <1>6, <1>7, <1>8, <1>9, AppendCutsAreKnown, RotateCutsAreKnown,
     PositionCutsAreKnown, ReadRowCutsAreKnown
     DEF PosNext, Reader

\* Whatever happens to the log file, and however readers fail, what the reader read,
\* what it will save and what is saved fit the file at the path, or are about contents
\* that are gone.
THEOREM PositionInvariant == PosSpec => []PosInv
<1>1. PosInv /\ [PosNext]_posVars => PosInv'
  BY NextPosTypeOK, NextFilesInOrder, NextRecordFits, NextReaderFits, NextReadIsBehind,
     NextNothingIsAhead, NextNothingIsMissing, NextCutsAreKnown DEF PosInv
<1> QED
  BY <1>1, InitPosInv, PTL DEF PosSpec

\* Between invocations, no row before the persisted position is missing from the
\* answers without an excuse: the rows a bad stream passes over are among the excused.
THEOREM NothingSkipped == PosSpec => []NothingIsSkipped
<1>1. PosInv => NothingIsSkipped
  <2> SUFFICES ASSUME PosInv, r.at = "none", disk.state = "valid", disk.of = log.born,
                      NEW p \in First(disk.pos, log.rows)
               PROVE  delivered[p] > 0 \/ p \in excused
    BY DEF NothingIsSkipped
  <2>1. PICK i \in DOMAIN log.rows : i <= disk.pos /\ p = log.rows[i]
    BY PosFacts, FirstOf DEF PosInv
  <2> QED
    BY <2>1 DEF PosInv, NothingIsMissing, AccountedTo
<1> QED
  BY <1>1, PositionInvariant, PTL

\* A row that was there before a reader began, and stayed, is in one answer at most.
THEOREM NoRowTwice == PosSpec => []OnlyOverlappedRowsRepeat
<1>1. PosInv => OnlyOverlappedRowsRepeat
  BY DEF PosInv, NothingIsAhead
<1> QED
  BY <1>1, PositionInvariant, PTL

\* A row is in an answer in parts only when it had no end, was cut from it, or when
\* the stream went bad within it.
THEOREM NoRowInParts == PosSpec => []OnlyUnfinishedRowsAreSplit
<1>1. PosInv => OnlyUnfinishedRowsAreSplit
  BY DEF PosInv, CutsAreKnown
<1> QED
  BY <1>1, PositionInvariant, PTL
=============================================================================
