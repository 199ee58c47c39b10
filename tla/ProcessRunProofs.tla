---------------------------- MODULE ProcessRunProofs ----------------------------
(***************************************************************************)
(* Proofs about ProcessRun: whatever the child, its daemon, the monitor    *)
(* and the system do, a run that ends with the end of its child has all    *)
(* the child wrote, returns how its own child ended, leaves no monitor     *)
(* behind, and fails only when a call of the system fails it.              *)
(***************************************************************************)
EXTENDS ProcessRun, TLAPS

LEMMA InitIInv == Init => IInv
<1> SUFFICES ASSUME Init PROVE IInv
  OBVIOUS
<1>1. TypeOK
  <2>1. inPipe \in 0 .. Capacity /\ input \in 0 .. Chunks
    BY PipeAssumption DEF Init
  <2>2. pipe \in [Outputs -> 0 .. Capacity] /\ wrote \in [Outputs -> Nat] /\ got \in [Outputs -> Nat]
    BY PipeAssumption DEF Init
  <2>3. revents \in [ready : SUBSET Streams, hungUp : SUBSET Outputs]
    BY DEF Init, NoEvents
  <2> QED
    BY <2>1, <2>2, <2>3 DEF Init, TypeOK
<1>2. StreamsKnown
  BY DEF Init, StreamsKnown, NoWriteBlocks, NoEvents, Outputs, Streams
<1> QED
  BY <1>1, <1>2 DEF Init, IInv, ChildKnown, MonitorKnown, NoMonitorIsLeft, ResultKnown,
                    LastReadKnown, Outputs, Streams

-----------------------------------------------------------------------------
(* The child and the system.                                               *)

\* What the child does by itself keeps the invariant: it writes only to a stream it
\* has open, so never to one the thread has stopped to poll, and never after it
\* has ended.
LEMMA ChildIInv ==
  ASSUME IInv,
         ChildReads \/ (\E s \in Outputs : ChildWrites(s) \/ ChildCloses(s))
           \/ ChildForks \/ ChildHangs
  PROVE  IInv'
<1> USE DEF parent, io, Alive
<1>1. CASE ChildReads
  BY <1>1, PipeAssumption DEF ChildReads, IInv, TypeOK, ChildKnown, MonitorKnown, NoMonitorIsLeft, ResultKnown,
              StreamsKnown, NoWriteBlocks, LastReadKnown, ToServe
<1>2. ASSUME NEW s \in Outputs, ChildWrites(s)
      PROVE  IInv'
  <2>1. s \in active /\ ~second
    BY <1>2 DEF ChildWrites, IInv, ChildKnown, StreamsKnown
  <2>2. TypeOK'
    BY <1>2, PipeAssumption DEF ChildWrites, IInv, TypeOK
  <2>3. StreamsKnown'
    BY <1>2, <2>1 DEF ChildWrites, IInv, TypeOK, StreamsKnown, NoWriteBlocks
  <2>4. LastReadKnown'
    BY <1>2, <2>1 DEF ChildWrites, IInv, TypeOK, LastReadKnown
  <2> QED
    BY <1>2, <2>2, <2>3, <2>4
       DEF ChildWrites, IInv, ChildKnown, MonitorKnown, NoMonitorIsLeft, ResultKnown
<1>3. ASSUME NEW s \in Outputs, ChildCloses(s)
      PROVE  IInv'
  BY <1>3 DEF ChildCloses, IInv, TypeOK, ChildKnown, MonitorKnown, NoMonitorIsLeft, ResultKnown,
              StreamsKnown, NoWriteBlocks, LastReadKnown, ToServe
<1>4. CASE ChildForks
  BY <1>4 DEF ChildForks, IInv, TypeOK, ChildKnown, MonitorKnown, NoMonitorIsLeft, ResultKnown,
              StreamsKnown, NoWriteBlocks, LastReadKnown, ToServe
<1>5. CASE ChildHangs
  BY <1>5 DEF ChildHangs, IInv, TypeOK, ChildKnown, MonitorKnown, NoMonitorIsLeft, ResultKnown,
              StreamsKnown, NoWriteBlocks, LastReadKnown, ToServe
<1> QED
  BY <1>1, <1>2, <1>3, <1>4, <1>5

\* The end of a running child, by itself or by the monitor, keeps what is known of
\* it: it leaves its output in the pipes.
LEMMA EndKeeps ==
  ASSUME IInv, NEW how \in {"exit", "signal"}, child = "running", End(how),
         UNCHANGED <<io, at, waitCompleted, terminated, limited, result, failures>>
  PROVE  /\ monitor' \in {"watch", "kill", "over"} => TypeOK'
         /\ ChildKnown' /\ ResultKnown' /\ StreamsKnown' /\ LastReadKnown'
<1>1. ASSUME monitor' \in {"watch", "kill", "over"}
      PROVE  TypeOK'
  BY <1>1 DEF End, io, IInv, TypeOK
<1>2. ChildKnown' /\ ResultKnown'
  BY DEF End, io, IInv, TypeOK, ChildKnown, ResultKnown
<1>3. StreamsKnown' /\ LastReadKnown'
  BY DEF End, io, IInv, TypeOK, StreamsKnown, NoWriteBlocks, LastReadKnown, ToServe
<1> QED
  BY <1>1, <1>2, <1>3

LEMMA ChildEndsIInv == IInv /\ ChildEnds => IInv'
<1> SUFFICES ASSUME IInv, ChildEnds PROVE IInv'
  OBVIOUS
<1>1. PICK how \in {"exit", "signal"} : End(how)
  BY DEF ChildEnds
<1>2. child = "running" /\ UNCHANGED <<io, at, waitCompleted, terminated, limited, monitor,
                                       result, failures>>
  BY DEF ChildEnds, Alive, parent, io
<1>3. MonitorKnown' /\ monitor' \in {"watch", "kill", "over"}
  BY <1>2 DEF IInv, TypeOK, MonitorKnown, NoMonitorIsLeft
<1> QED
  BY <1>1, <1>2, <1>3, EndKeeps DEF IInv

-----------------------------------------------------------------------------
(* The monitor.                                                            *)

LEMMA MonitorIInv == IInv /\ Monitor => IInv'
<1> SUFFICES ASSUME IInv, Monitor PROVE IInv'
  OBVIOUS
<1>1. MonitorKnown' /\ monitor' \in {"watch", "kill", "over"}
  BY DEF Monitor, SeeTerminated, TimeIsUp, Kill, unlessMonitor, IInv, TypeOK, MonitorKnown,
         NoMonitorIsLeft
<1>2. CASE UNCHANGED process
  BY <1>1, <1>2 DEF Monitor, SeeTerminated, TimeIsUp, Kill, unlessMonitor, io, process, IInv,
                    TypeOK, ChildKnown, ResultKnown, StreamsKnown, NoWriteBlocks, LastReadKnown,
                    ToServe
<1>3. CASE Kill /\ child = "running" /\ End("signal")
  BY <1>1, <1>3, EndKeeps DEF Kill, unlessMonitor, io, IInv
<1> QED
  BY <1>2, <1>3 DEF Monitor, SeeTerminated, TimeIsUp, Kill

-----------------------------------------------------------------------------
(* InternalPerformIO.                                                      *)

\* When both outputs are dead nothing is left in them.
LEMMA NothingToPollIInv == IInv /\ NothingToPoll => IInv'
<1> SUFFICES ASSUME IInv, NothingToPoll PROVE IInv'
  OBVIOUS
<1>1. \A s \in Outputs : s \notin holds /\ pipe[s] = 0
  BY DEF NothingToPoll, IInv, StreamsKnown
<1>2. LastReadKnown'
  BY <1>1 DEF NothingToPoll, AfterIO, unlessIO, io, process, IInv, TypeOK, LastReadKnown, Streams,
              Outputs
<1> QED
  BY <1>2 DEF NothingToPoll, AfterIO, unlessIO, io, process, IInv, TypeOK, ChildKnown,
              MonitorKnown, NoMonitorIsLeft, ResultKnown, StreamsKnown, NoWriteBlocks, Streams,
              Outputs

\* What poll returns covers every output with something in it: one that is not
\* polled is empty.
LEMMA PollIInv == IInv /\ Poll => IInv'
<1> SUFFICES ASSUME IInv, Poll PROVE IInv'
  OBVIOUS
<1>1. Ready \subseteq Streams /\ HungUp \subseteq Outputs /\ HungUp \subseteq Ready \ holds
  BY DEF Ready, HungUp, Streams
<1>2. \A s \in Outputs : pipe[s] > 0 => s \in Ready
  BY DEF Ready, IInv, TypeOK, StreamsKnown
<1>3. TypeOK'
  BY <1>1 DEF Poll, unlessIO, process, IInv, TypeOK, Streams
<1>4. StreamsKnown'
  <2>1. "stdin" \in Ready /\ child = "running" => inPipe < Capacity
    BY DEF Ready, Outputs
  <2> QED
    BY <1>1, <2>1 DEF Poll, unlessIO, process, IInv, StreamsKnown, NoWriteBlocks
<1>5. LastReadKnown'
  BY <1>2 DEF Poll, unlessIO, process, IInv, LastReadKnown, ToServe
<1> QED
  BY <1>3, <1>4, <1>5 DEF Poll, unlessIO, process, IInv, ChildKnown, MonitorKnown,
                          NoMonitorIsLeft, ResultKnown

\* An error leaves the child, its streams and the monitor as they are.
LEMMA ThrowIInv == IInv /\ (PollFails \/ TransferFails \/ WaitFails) => IInv'
<1> SUFFICES ASSUME IInv, PollFails \/ TransferFails \/ WaitFails PROVE IInv'
  OBVIOUS
<1>1. at \in {"poll", "wait"} \cup Streams /\ result = "none"
  BY DEF PollFails, TransferFails, WaitFails, IInv, TypeOK, ResultKnown, Streams, Outputs
<1>2. /\ failures' \in Nat /\ at' = "flag" /\ result' = "error"
      /\ UNCHANGED <<process, io, waitCompleted, terminated, limited, monitor>>
  BY DEF PollFails, TransferFails, WaitFails, Throw, IInv, TypeOK
<1> QED
  BY <1>1, <1>2 DEF process, io, IInv, TypeOK, ChildKnown, MonitorKnown, NoMonitorIsLeft,
                    ResultKnown, StreamsKnown, NoWriteBlocks, LastReadKnown, Streams, Outputs

LEMMA ServeInputIInv == IInv /\ ServeInput => IInv'
<1> SUFFICES ASSUME IInv, ServeInput PROVE IInv'
  OBVIOUS
<1>1. TypeOK'
  <2>1. inPipe' \in 0 .. Capacity /\ input' \in 0 .. Chunks /\ active' \subseteq Streams
    BY PipeAssumption DEF ServeInput, IInv, TypeOK
  <2>2. at' \in Streams
    BY DEF ServeInput, Streams, Outputs
  <2> QED
    BY <2>1, <2>2 DEF ServeInput, IInv, TypeOK
<1>2. active' \cap Outputs = active \cap Outputs
  BY DEF ServeInput, Outputs
<1>3. StreamsKnown'
  BY <1>2 DEF ServeInput, IInv, StreamsKnown, NoWriteBlocks
<1>4. LastReadKnown'
  BY DEF ServeInput, IInv, LastReadKnown, ToServe, Streams, Outputs
<1> QED
  BY <1>1, <1>3, <1>4 DEF ServeInput, IInv, ChildKnown, MonitorKnown, NoMonitorIsLeft, ResultKnown

\* Reading moves all that is in the pipe into the buffer; a stream found hung up has
\* been ready, and is empty when it is no longer polled.  After the last of the
\* two outputs nothing is left of what poll has told.
LEMMA ServeOutputIInv ==
  ASSUME IInv, ServeOutput("stdout", "stderr") \/ ServeOutput("stderr", AfterIO)
  PROVE  IInv'
<1>1. PICK s \in Outputs, next \in {"stderr", "check", "wait"} :
        /\ ServeOutput(s, next)
        /\ \/ s = "stdout" /\ next = "stderr"
           \/ s = "stderr" /\ next = AfterIO
  BY DEF Outputs, AfterIO
<1> DEFINE n == IF s \in revents.ready THEN pipe[s] ELSE 0
<1>2. n \in Nat /\ pipe[s] - n \in 0 .. Capacity /\ pipe[s] \in Nat
  BY PipeAssumption DEF IInv, TypeOK
<1>3. /\ got' = [got EXCEPT ![s] = @ + n] /\ pipe' = [pipe EXCEPT ![s] = @ - n]
      /\ active' = IF s \in revents.hungUp THEN active \ {s} ELSE active
      /\ at = s /\ at' = next
      /\ UNCHANGED <<child, ending, hung, daemon, holds, inPipe, wrote, input, second, revents,
                     waitCompleted, terminated, limited, monitor, result, failures>>
  BY <1>1 DEF ServeOutput
<1>4. \A t \in Outputs \ {s} : got'[t] = got[t] /\ pipe'[t] = pipe[t]
  BY <1>3 DEF IInv, TypeOK
<1>5. got'[s] = got[s] + n /\ pipe'[s] = pipe[s] - n
  BY <1>3 DEF IInv, TypeOK
<1> HIDE DEF n
<1>6. TypeOK'
  BY <1>2, <1>3 DEF IInv, TypeOK, Outputs, Streams
<1>7. s \in revents.ready => pipe'[s] = 0
  BY <1>2, <1>5 DEF n
<1>8. StreamsKnown'
  <2>1. \A t \in Outputs : wrote'[t] = got'[t] + pipe'[t]
    BY <1>2, <1>3, <1>4, <1>5 DEF IInv, TypeOK, StreamsKnown
  <2>2. \A t \in Outputs \ active' : t \notin holds' /\ pipe'[t] = 0
    <3>1. pipe[s] = 0 => pipe'[s] = 0
      BY <1>2, <1>5 DEF n
    <3> QED
      BY <1>3, <1>4, <1>7, <3>1 DEF IInv, StreamsKnown
  <2> QED
    BY <1>3, <2>1, <2>2 DEF IInv, StreamsKnown, NoWriteBlocks
<1>9. LastReadKnown'
  <2>1. second => (pipe[s] > 0 => s \in revents.ready)
    BY <1>3 DEF IInv, LastReadKnown, Streams
  <2>2. second => pipe'[s] = 0
    BY <1>2, <1>5, <1>7, <2>1 DEF n
  <2>3. CASE next = "stderr"
    <3>1. s = "stdout"
      BY <1>1, <2>3 DEF AfterIO
    <3>2. second => \A t \in Outputs : pipe'[t] > 0 => t \in {"stderr"} \cap revents.ready
      BY <1>3, <1>4, <2>2, <3>1 DEF IInv, TypeOK, LastReadKnown, Streams, Outputs
    <3> QED
      BY <1>3, <2>3, <3>2 DEF IInv, LastReadKnown, ToServe
  <2>4. CASE next = AfterIO /\ s = "stderr"
    <3>1. second => pipe["stdout"] = 0
      BY <1>3, <2>4 DEF IInv, TypeOK, LastReadKnown, ToServe, Streams, Outputs
    <3>2. second => \A t \in Outputs : pipe'[t] = 0
      BY <1>4, <2>2, <2>4, <3>1 DEF Outputs
    <3> QED
      BY <1>3, <2>4, <3>2 DEF AfterIO, LastReadKnown, Streams, Outputs
  <2> QED
    BY <1>1, <2>3, <2>4
<1> QED
  BY <1>3, <1>6, <1>8, <1>9 DEF IInv, ChildKnown, MonitorKnown, NoMonitorIsLeft, ResultKnown,
                               Outputs

-----------------------------------------------------------------------------
(* PerformIO, WaitForReturn and Run.                                       *)

LEMMA CheckChildIInv == IInv /\ CheckChild => IInv'
<1> SUFFICES ASSUME IInv, CheckChild PROVE IInv'
  OBVIOUS
<1>1. TypeOK'
  <2>1. /\ child' \in {"running", "zombie", "reaped"} /\ at' \in {"poll", "wait"}
        /\ waitCompleted' \in BOOLEAN /\ second' \in BOOLEAN
    BY DEF CheckChild, Reap, process, IInv, TypeOK
  <2>2. UNCHANGED <<ending, hung, daemon, holds, inPipe, pipe, wrote, input, got, revents, active,
                    terminated, limited, monitor, result, failures>>
    BY DEF CheckChild, Reap, process
  <2> QED
    BY <2>1, <2>2 DEF IInv, TypeOK
<1>2. ChildKnown' /\ MonitorKnown' /\ ResultKnown'
  BY DEF CheckChild, Reap, process, IInv, TypeOK, ChildKnown, MonitorKnown, NoMonitorIsLeft,
         ResultKnown
<1>3. StreamsKnown'
  BY DEF CheckChild, Reap, process, IInv, StreamsKnown, NoWriteBlocks
<1>4. LastReadKnown'
  <2>1. active \cap Outputs = {} => holds = {} /\ \A s \in Outputs : pipe[s] = 0
    BY DEF IInv, TypeOK, StreamsKnown
  <2> QED
    BY <2>1 DEF CheckChild, Reap, process, IInv, LastReadKnown, Streams, Outputs
<1> QED
  BY <1>1, <1>2, <1>3, <1>4 DEF IInv

\* The blocking call knows if the other one has had the child: it never waits for a
\* child that is reaped, so it never fails.
LEMMA WaitForChildIInv == IInv /\ WaitForChild => IInv' /\ result' # "error"
<1> SUFFICES ASSUME IInv, WaitForChild PROVE IInv' /\ result' # "error"
  OBVIOUS
<1>1. child # "running" /\ waitCompleted' = TRUE /\ child' = "reaped" /\ result' = ending
  BY DEF WaitForChild, Reap, process, IInv, TypeOK, ChildKnown
<1>2. ending \in {"exit", "signal"} /\ at = "wait" /\ at' = "flag"
  BY <1>1 DEF WaitForChild, IInv, TypeOK, ChildKnown
<1>3. UNCHANGED <<ending, hung, daemon, holds, inPipe, pipe, wrote, io, terminated, limited,
                  monitor, failures>>
  BY DEF WaitForChild, Reap, process
<1> QED
  BY <1>1, <1>2, <1>3 DEF io, IInv, TypeOK, ChildKnown, MonitorKnown, NoMonitorIsLeft, ResultKnown,
                          StreamsKnown, NoWriteBlocks, LastReadKnown, ToServe, Streams, Outputs

\* Both ways out of Run set the flag if there is a monitor; only the one that
\* returns an exit code waits for it.
LEMMA LeaveIInv == IInv /\ (SetTerminated \/ Join) => IInv'
<1> SUFFICES ASSUME IInv, SetTerminated \/ Join PROVE IInv'
  OBVIOUS
<1>1. MonitorKnown'
  BY DEF SetTerminated, Join, process, io, IInv, TypeOK, MonitorKnown, NoMonitorIsLeft
<1> QED
  BY <1>1 DEF SetTerminated, Join, process, io, IInv, TypeOK, ChildKnown, ResultKnown,
              StreamsKnown, NoWriteBlocks, LastReadKnown, ToServe, Streams, Outputs

-----------------------------------------------------------------------------
(* The theorems.                                                           *)

LEMMA StepIInv == IInv /\ [Next]_vars => IInv'
<1> SUFFICES ASSUME IInv, [Next]_vars PROVE IInv'
  OBVIOUS
<1>1. CASE Run
  BY <1>1, NothingToPollIInv, PollIInv, ServeInputIInv, ServeOutputIInv, CheckChildIInv,
     WaitForChildIInv, LeaveIInv DEF Run
<1>2. CASE PollFails \/ TransferFails \/ WaitFails
  BY <1>2, ThrowIInv
<1>3. CASE Monitor
  BY <1>3, MonitorIInv
<1>4. CASE ChildReads \/ (\E s \in Outputs : ChildWrites(s) \/ ChildCloses(s))
             \/ ChildForks \/ ChildHangs
  BY <1>4, ChildIInv
<1>5. CASE ChildEnds
  BY <1>5, ChildEndsIInv
<1>6. CASE UNCHANGED vars
  BY <1>6 DEF vars, process, io, IInv, TypeOK, ChildKnown, MonitorKnown, NoMonitorIsLeft,
              ResultKnown, StreamsKnown, NoWriteBlocks, LastReadKnown, ToServe
<1> QED
  BY <1>1, <1>2, <1>3, <1>4, <1>5, <1>6 DEF Next

\* What Run knows of child, monitor and streams is true at every step (SCXProcess,
\* ProcessThreadParam).
THEOREM RunInvariant == Spec => []IInv
<1> QED
  BY InitIInv, StepIInv, PTL DEF Spec

\* A run that ends with the end of its child has all the child wrote, for pipes of
\* every capacity (PerformIO, InternalPerformIO, ReadToStream).
THEOREM OutputComplete == Spec => []OutputIsComplete
<1>1. IInv => OutputIsComplete
  <2> SUFFICES ASSUME IInv, at = "done", result \in {"exit", "signal"} PROVE got = wrote
    BY DEF OutputIsComplete
  <2>1. \A s \in Outputs : pipe[s] = 0
    BY DEF IInv, LastReadKnown
  <2>2. \A s \in Outputs : got[s] = wrote[s]
    BY <2>1 DEF IInv, TypeOK, StreamsKnown
  <2> QED
    BY <2>2 DEF IInv, TypeOK
<1> QED
  BY <1>1, RunInvariant, PTL

\* No monitor that could still kill outlives a run that returns an exit code (Run).
THEOREM MonitorIsJoined == Spec => []NoMonitorIsLeft
<1>1. IInv => NoMonitorIsLeft
  BY DEF IInv, MonitorKnown
<1> QED
  BY <1>1, RunInvariant, PTL

\* Only a call of the system that fails, in poll, in a read or write, or in a waitpid
\* that is interrupted before the child ends, makes Run fail: neither of the two calls
\* of waitpid takes from the other one what it needs (DoWaitPID).
THEOREM FailuresAreOfTheSystem == Spec => []FailsOnlyWithTheSystem
<1> DEFINE Known == IInv /\ FailsOnlyWithTheSystem
<1>1. Init => Known
  BY InitIInv DEF Init, FailsOnlyWithTheSystem
<1>2. Known /\ [Next]_vars => Known'
  <2> SUFFICES ASSUME Known, [Next]_vars PROVE FailsOnlyWithTheSystem'
    BY StepIInv
  <2>1. CASE WaitForChild
    BY <2>1, WaitForChildIInv DEF FailsOnlyWithTheSystem
  <2>2. CASE Throw
    BY <2>2 DEF Throw, FailsOnlyWithTheSystem, IInv, TypeOK
  <2>3. CASE UNCHANGED <<result, failures>>
    BY <2>3 DEF FailsOnlyWithTheSystem
  <2> QED
    BY <2>1, <2>2, <2>3
       DEF Next, Run, Monitor, PollFails, TransferFails, WaitFails, NothingToPoll, Poll,
           ServeInput, ServeOutput, CheckChild, SetTerminated,
           Join, SeeTerminated, TimeIsUp, Kill, ChildReads, ChildWrites, ChildCloses,
           ChildForks, ChildHangs, ChildEnds, unlessIO, unlessMonitor, parent, vars
<1> QED
  BY <1>1, <1>2, PTL DEF Spec

\* The thread never blocks in a write, for pipes of every capacity: what poll saw of
\* the pipe stays true up to the write (InternalPerformIO, SendInput).
THEOREM WritesFit == Spec => []NoWriteBlocks
<1>1. IInv => NoWriteBlocks
  BY DEF IInv, StreamsKnown
<1> QED
  BY <1>1, RunInvariant, PTL

-----------------------------------------------------------------------------
(* The refinement of ChildCall, step by step.                              *)

LEMMA InitRefines == Init => Call!Init
  BY PipeAssumption DEF Init, Call!Init

\* What the caller of ChildCall is given, in terms of Run.
Given == IF result \in {"exit", "signal"} THEN got ELSE [s \in Outputs |-> 0]

\* A step is none of the call's own when it leaves alone what the child has to read and
\* has written, how it ended and what Run returns.
LEMMA Stutters ==
  ASSUME UNCHANGED <<input, inPipe, wrote, ending, result, Given>>
  PROVE  UNCHANGED Call!cvars
  BY DEF Call!cvars, Given

LEMMA ChildRefines ==
  ASSUME IInv,
         ChildReads \/ (\E s \in Outputs : ChildWrites(s) \/ ChildCloses(s))
           \/ ChildForks \/ ChildHangs \/ ChildEnds
  PROVE  [Call!Next]_(Call!cvars)
<1> USE DEF parent, io, Alive
<1>1. CASE ChildReads
  <2>1. input' + inPipe' = (input + inPipe) - 1 /\ input + inPipe > 0 /\ ending = "none"
    BY <1>1, PipeAssumption DEF ChildReads, IInv, TypeOK, ChildKnown
  <2>2. Call!Read
    BY <1>1, <2>1 DEF ChildReads, Call!Read
  <2> QED
    BY <2>2 DEF Call!Next
<1>2. ASSUME NEW s \in Outputs, ChildWrites(s)
      PROVE  Call!Next
  <2>1. Call!Write(s)
    BY <1>2 DEF ChildWrites, IInv, ChildKnown, Call!Write
  <2> QED
    BY <2>1 DEF Call!Next
<1>3. CASE (\E s \in Outputs : ChildCloses(s)) \/ ChildForks \/ ChildHangs
  BY <1>3, Stutters DEF ChildCloses, ChildForks, ChildHangs, Given
<1>4. CASE ChildEnds
  <2>1. PICK how \in {"exit", "signal"} : End(how)
    BY <1>4 DEF ChildEnds
  <2>2. Call!End(how)
    BY <1>4, <2>1 DEF ChildEnds, End, IInv, ChildKnown, Call!End
  <2> QED
    BY <2>2 DEF Call!Next
<1> QED
  BY <1>1, <1>2, <1>3, <1>4

LEMMA MonitorRefines == IInv /\ Monitor => [Call!Next]_(Call!cvars)
<1> SUFFICES ASSUME IInv, Monitor PROVE [Call!Next]_(Call!cvars)
  OBVIOUS
<1>1. CASE UNCHANGED process
  BY <1>1, Stutters
     DEF Monitor, SeeTerminated, TimeIsUp, Kill, unlessMonitor, io, process, Given
<1>2. CASE Kill /\ child = "running" /\ End("signal")
  <2>1. Call!End("signal")
    BY <1>2 DEF Kill, End, unlessMonitor, io, IInv, ChildKnown, Call!End
  <2> QED
    BY <2>1 DEF Call!Next
<1> QED
  BY <1>1, <1>2 DEF Monitor, SeeTerminated, TimeIsUp, Kill

\* Feeding moves a chunk into the pipe, where the child has not read it yet either.
LEMMA ServeInputRefines == IInv /\ ServeInput => [Call!Next]_(Call!cvars)
<1> SUFFICES ASSUME IInv, ServeInput PROVE UNCHANGED Call!cvars
  OBVIOUS
<1>1. input' + inPipe' = input + inPipe
  BY PipeAssumption DEF ServeInput, IInv, TypeOK
<1> QED
  BY <1>1 DEF ServeInput, Call!cvars

\* What is read is given only with the result, and nothing is read after that.
LEMMA PollingRefines ==
  ASSUME IInv,
         \/ NothingToPoll \/ Poll \/ CheckChild \/ SetTerminated \/ Join
         \/ ServeOutput("stdout", "stderr") \/ ServeOutput("stderr", AfterIO)
  PROVE  UNCHANGED Call!cvars
<1>1. UNCHANGED <<input, inPipe, wrote, ending, result>>
  BY DEF NothingToPoll, Poll, CheckChild, Reap, SetTerminated, Join, ServeOutput, unlessIO,
         process, io
<1>2. result = "none" \/ UNCHANGED got
  BY DEF NothingToPoll, Poll, CheckChild, SetTerminated, Join, ServeOutput, io, IInv,
         ResultKnown
<1> QED
  BY <1>1, <1>2, Stutters DEF Given

\* The call returns when the end of the child is known: there is nothing left in the
\* pipes then, so what was read is all it wrote.
LEMMA WaitForChildRefines == IInv /\ WaitForChild => Call!Next
<1> SUFFICES ASSUME IInv, WaitForChild PROVE Call!Return
  BY DEF Call!Next
<1>1. at = "wait" /\ result = "none" /\ UNCHANGED <<input, inPipe, wrote, ending, got>>
  BY DEF WaitForChild, Reap, process, io, IInv, ResultKnown
<1>2. ending \in {"exit", "signal"} /\ result' = ending
  BY DEF WaitForChild, IInv, TypeOK, ChildKnown
<1>3. got = wrote
  <2>1. \A s \in Outputs : got[s] = wrote[s]
    BY <1>1 DEF IInv, TypeOK, StreamsKnown, LastReadKnown
  <2> QED
    BY <2>1 DEF IInv, TypeOK
<1> QED
  BY <1>1, <1>2, <1>3 DEF Call!Return

LEMMA ThrowRefines == IInv /\ (PollFails \/ TransferFails \/ WaitFails) => Call!Next
<1> SUFFICES ASSUME IInv, PollFails \/ TransferFails \/ WaitFails PROVE Call!Fail
  BY DEF Call!Next
<1>1. result = "none" /\ result' = "error" /\ UNCHANGED <<process, io>>
  BY DEF PollFails, TransferFails, WaitFails, Throw, IInv, TypeOK, ResultKnown, Streams, Outputs
<1> QED
  BY <1>1 DEF process, io, Call!Fail

\* Run implements ChildCall: polling, the pipes, the two calls of waitpid and the
\* monitor are hidden from who calls it, for pipes of every capacity and any amount of
\* input and output.
THEOREM RunImplementsChildCall == Spec => ImplementsChildCall
<1>1. IInv /\ [Next]_vars => [Call!Next]_(Call!cvars)
  <2> SUFFICES ASSUME IInv, [Next]_vars PROVE [Call!Next]_(Call!cvars)
    OBVIOUS
  <2>1. CASE Run
    BY <2>1, ServeInputRefines, PollingRefines, WaitForChildRefines DEF Run
  <2>2. CASE PollFails \/ TransferFails \/ WaitFails
    BY <2>2, ThrowRefines
  <2>3. CASE Monitor
    BY <2>3, MonitorRefines
  <2>4. CASE \/ ChildReads \/ (\E s \in Outputs : ChildWrites(s) \/ ChildCloses(s))
             \/ ChildForks \/ ChildHangs \/ ChildEnds
    BY <2>4, ChildRefines
  <2>5. CASE UNCHANGED vars
    BY <2>5, Stutters DEF vars, process, io, Given
  <2> QED
    BY <2>1, <2>2, <2>3, <2>4, <2>5 DEF Next
<1> QED
  BY <1>1, InitRefines, RunInvariant, PTL DEF Spec, ImplementsChildCall, Call!Spec
=============================================================================
