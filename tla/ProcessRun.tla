------------------------------- MODULE ProcessRun -------------------------------
(***************************************************************************)
(* SCXProcess::Run (scxprocess.cpp): a thread of the provider runs a child *)
(* process, feeds its standard input, collects what it writes and waits    *)
(* for it, while a monitor thread kills the child when its time is up.     *)
(*                                                                         *)
(* The child is any program: it reads and writes in any order, closes its  *)
(* streams, hangs, exits or dies of a signal, and leaves behind a daemon   *)
(* that keeps its streams open.  A pipe holds Capacity chunks.  Time is    *)
(* left out: poll may time out whenever nothing is ready, and the time of  *)
(* the child may be up at any moment.                                      *)
(***************************************************************************)
EXTENDS Integers, FiniteSets

CONSTANTS Chunks,     \* bound: chunks of input, and of output on each stream
          Capacity,   \* what a pipe holds
          MaxFailures \* bound: calls of the system that fail

ASSUME PipeAssumption == Chunks \in Nat /\ Capacity \in Nat \ {0}

VARIABLES child,      \* "running", "zombie" or "reaped"
          ending,     \* how the child ended
          hung,       \* the child does nothing more by itself
          daemon,     \* a descendant has inherited the streams that were open
          holds,      \* streams the child, or its daemon, has open
          input,      \* chunks of mystdin not yet sent
          inPipe,     \* chunks in the pipe to the child
          pipe,       \* pipe[s]: chunks in the pipe from the child
          wrote,      \* wrote[s]: chunks the child itself has written
          got,        \* got[s]: chunks in mystdout and mystderr
          at,         \* where the thread is in Run
          second,     \* it is in the InternalPerformIO after the child's end
          revents,    \* what poll returned
          active,     \* m_stdinActive, m_stdoutActive, m_stderrActive
          waitCompleted,
          terminated, \* m_processTerminated
          limited,    \* Run was given a timeout
          monitor,    \* where the monitor thread is
          result,     \* what Run returned or threw
          failures    \* calls of the system that have failed so far

process == <<child, ending, hung, daemon, holds, inPipe, pipe, wrote>>
io == <<input, got, second, revents, active>>
vars == <<process, io, at, waitCompleted, terminated, limited, monitor, result, failures>>

Outputs == {"stdout", "stderr"}
Streams == {"stdin"} \cup Outputs

NoEvents == [ready |-> {}, hungUp |-> {}]

Init == /\ child = "running" /\ ending = "none" /\ hung = FALSE
        /\ daemon = FALSE /\ holds = Outputs
        /\ input \in 0 .. Chunks
        /\ inPipe = 0
        /\ pipe = [s \in Outputs |-> 0] /\ wrote = pipe /\ got = pipe
        /\ at = "poll" /\ second = FALSE /\ revents = NoEvents /\ active = Streams
        /\ waitCompleted = FALSE /\ terminated = FALSE
        /\ limited \in BOOLEAN
        /\ monitor = IF limited THEN "watch" ELSE "over"
        /\ result = "none" /\ failures = 0

-----------------------------------------------------------------------------
(* The child and the system.                                               *)

parent == <<io, at, waitCompleted, terminated, limited, monitor, result, failures>>
Alive == child = "running" /\ ~hung

ChildReads == /\ Alive /\ inPipe > 0
              /\ inPipe' = inPipe - 1
              /\ UNCHANGED <<child, ending, hung, daemon, holds, pipe, wrote, parent>>

ChildWrites(s) == /\ Alive /\ s \in holds
                  /\ wrote[s] < Chunks /\ pipe[s] < Capacity
                  /\ pipe' = [pipe EXCEPT ![s] = @ + 1]
                  /\ wrote' = [wrote EXCEPT ![s] = @ + 1]
                  /\ UNCHANGED <<child, ending, hung, daemon, holds, inPipe, parent>>

ChildCloses(s) == /\ Alive /\ s \in holds /\ ~daemon
                  /\ holds' = holds \ {s}
                  /\ UNCHANGED <<child, ending, hung, daemon, inPipe, pipe, wrote, parent>>

ChildForks == /\ Alive /\ ~daemon
              /\ daemon' = TRUE
              /\ UNCHANGED <<child, ending, hung, holds, inPipe, pipe, wrote, parent>>

ChildHangs == /\ Alive
              /\ hung' = TRUE
              /\ UNCHANGED <<child, ending, daemon, holds, inPipe, pipe, wrote, parent>>

End(how) == /\ child' = "zombie" /\ ending' = how
            /\ holds' = IF daemon THEN holds ELSE {}
            /\ UNCHANGED <<hung, daemon, inPipe, pipe, wrote>>

\* It exits, or somebody else kills it.
ChildEnds == /\ Alive
             /\ \E how \in {"exit", "signal"} : End(how)
             /\ UNCHANGED parent

-----------------------------------------------------------------------------
(* InternalPerformIO.                                                      *)

unlessIO == <<process, waitCompleted, terminated, limited, monitor, result, failures>>

\* PerformIO: after the second call it returns false whatever that returned.
AfterIO == IF second THEN "wait" ELSE "check"

\* Both output pipes are dead.
NothingToPoll == /\ at = "poll" /\ active \cap Outputs = {}
                 /\ at' = AfterIO
                 /\ UNCHANGED <<io, unlessIO>>

\* Mutant: poll does not ask whether standard input can be written.
Ready_InputAlways == active \cap ({"stdin"} \cup {s \in Outputs : pipe[s] > 0 \/ s \notin holds})

\* POLLIN or POLLHUP for an output; POLLOUT, or POLLERR without a reader, for input.
Ready == active \cap ((IF inPipe < Capacity \/ child # "running" THEN {"stdin"} ELSE {})
                      \cup {s \in Outputs : pipe[s] > 0 \/ s \notin holds})

HungUp == active \cap (Outputs \ holds)

\* Nothing ready is a timeout of poll.
Poll == /\ at = "poll" /\ active \cap Outputs # {}
        /\ at' = "stdin"
        /\ revents' = [ready |-> Ready, hungUp |-> HungUp]
        /\ UNCHANGED <<input, got, second, active, unlessIO>>

\* A call of the system fails and SCXInternalErrorException leaves WaitForReturn.
Throw == /\ failures < MaxFailures /\ failures' = failures + 1
         /\ at' = "flag" /\ result' = "error"
         /\ UNCHANGED <<process, io, waitCompleted, terminated, limited, monitor>>

\* EINTR is an error like any other.
PollFails == at = "poll" /\ active \cap Outputs # {} /\ Throw

\* SendInput cannot read mystdin or gets another error than EPIPE, ReadToStream
\* another one than EAGAIN.
TransferFails == /\ at \in revents.ready
                 /\ at \in Outputs => pipe[at] > 0
                 /\ Throw

\* Mutant: the write does not stop at what the pipe can take.
ServeInput_All ==
  /\ at = "stdin" /\ at' = "stdout"
  /\ IF "stdin" \notin revents.ready THEN UNCHANGED <<inPipe, input, active>>
     ELSE IF child = "running" /\ input > 0
       THEN /\ inPipe' = inPipe + input /\ input' = 0
            /\ UNCHANGED active
       ELSE active' = active \ {"stdin"} /\ UNCHANGED <<inPipe, input>>
  /\ UNCHANGED <<child, ending, hung, daemon, holds, pipe, wrote, got, second, revents,
                 waitCompleted, terminated, limited, monitor, result, failures>>

\* SendInput, which writes without O_NONBLOCK; EPIPE when nobody reads.
ServeInput ==
  /\ at = "stdin" /\ at' = "stdout"
  /\ IF "stdin" \notin revents.ready THEN UNCHANGED <<inPipe, input, active>>
     ELSE IF child = "running" /\ input > 0
       THEN /\ inPipe < Capacity
            /\ inPipe' = inPipe + 1 /\ input' = input - 1
            /\ UNCHANGED active
       ELSE active' = active \ {"stdin"} /\ UNCHANGED <<inPipe, input>>
  /\ UNCHANGED <<child, ending, hung, daemon, holds, pipe, wrote, got, second, revents,
                 waitCompleted, terminated, limited, monitor, result, failures>>

\* ReadToStream reads until there is nothing left.
ServeOutput(s, next) ==
  /\ at = s /\ at' = next
  /\ LET n == IF s \in revents.ready THEN pipe[s] ELSE 0
     IN  /\ got' = [got EXCEPT ![s] = @ + n]
         /\ pipe' = [pipe EXCEPT ![s] = @ - n]
  /\ active' = IF s \in revents.hungUp THEN active \ {s} ELSE active
  /\ UNCHANGED <<child, ending, hung, daemon, holds, inPipe, wrote, input, second, revents,
                 waitCompleted, terminated, limited, monitor, result, failures>>

-----------------------------------------------------------------------------
(* PerformIO, WaitForReturn and Run.                                       *)

\* Mutant: that the child was waited for is not remembered.
Reap_Forgotten == /\ child' = "reaped"
                  /\ UNCHANGED <<ending, hung, daemon, holds, inPipe, pipe, wrote, waitCompleted>>

\* waitpid returns the id of the child.
Reap == /\ child' = "reaped"
        /\ waitCompleted' = TRUE
        /\ UNCHANGED <<ending, hung, daemon, holds, inPipe, pipe, wrote>>

\* Mutant: nothing is read after the end of the child.
CheckChild_NoLastRead ==
  /\ at = "check"
  /\ IF child = "zombie"
       THEN Reap /\ at' = "wait" /\ UNCHANGED second
       ELSE /\ at' = IF active \cap Outputs # {} THEN "poll" ELSE "wait"
            /\ UNCHANGED <<process, waitCompleted, second>>
  /\ UNCHANGED <<input, got, revents, active, terminated, limited, monitor, result, failures>>

\* DoWaitPID without blocking; some systems let a process die without closing
\* its outputs.
CheckChild ==
  /\ at = "check"
  /\ IF child = "zombie"
       THEN Reap /\ second' = TRUE /\ at' = "poll"
       ELSE /\ at' = IF active \cap Outputs # {} THEN "poll" ELSE "wait"
            /\ UNCHANGED <<process, waitCompleted, second>>
  /\ UNCHANGED <<input, got, revents, active, terminated, limited, monitor, result, failures>>

\* Mutant: what the process was terminated by is not looked at.
WaitForChild_Exit ==
  /\ at = "wait" /\ at' = "flag"
  /\ \/ waitCompleted /\ result' = "exit" /\ UNCHANGED <<process, waitCompleted>>
     \/ ~waitCompleted /\ child = "zombie" /\ result' = "exit" /\ Reap
     \/ ~waitCompleted /\ child = "reaped" /\ result' = "error"
        /\ UNCHANGED <<process, waitCompleted>>
  /\ UNCHANGED <<io, terminated, limited, monitor, failures>>

\* DoWaitPID, blocking: cached, or from the system; a child that is reaped and not
\* remembered is an error.
WaitForChild ==
  /\ at = "wait" /\ at' = "flag"
  /\ \/ waitCompleted /\ result' = ending /\ UNCHANGED <<process, waitCompleted>>
     \/ ~waitCompleted /\ child = "zombie" /\ result' = ending /\ Reap
     \/ ~waitCompleted /\ child = "reaped" /\ result' = "error"
        /\ UNCHANGED <<process, waitCompleted>>
  /\ UNCHANGED <<io, terminated, limited, monitor, failures>>

\* The signal that log rotation is told by interrupts waitpid while it waits: its
\* handler is installed without SA_RESTART.
WaitFails == at = "wait" /\ ~waitCompleted /\ child = "running" /\ Throw

\* ProcessThreadParam::WaitForReturn sets the flag on every path; an exception
\* leaves Run before t.Wait.
SetTerminated == /\ at = "flag"
                 /\ terminated' = limited
                 /\ at' = IF limited /\ result = "exit" THEN "join" ELSE "done"
                 /\ UNCHANGED <<process, io, waitCompleted, limited, monitor, result,
                                failures>>

\* Mutant: Run does not wait for the monitor.
Join_Not == /\ at = "join" /\ at' = "done"
            /\ UNCHANGED <<process, io, waitCompleted, terminated, limited, monitor, result,
                           failures>>

Join == /\ at = "join" /\ at' = "done"
        /\ monitor = "over"
        /\ UNCHANGED <<process, io, waitCompleted, terminated, limited, monitor, result,
                       failures>>

-----------------------------------------------------------------------------
(* The monitor.                                                            *)

unlessMonitor == <<io, at, waitCompleted, terminated, limited, result, failures>>

SeeTerminated == /\ monitor = "watch" /\ terminated
                 /\ monitor' = "over"
                 /\ UNCHANGED <<process, unlessMonitor>>

TimeIsUp == /\ monitor = "watch" /\ ~terminated
            /\ monitor' = "kill"
            /\ UNCHANGED <<process, unlessMonitor>>

\* kill(m_pid, SIGKILL), which has no effect on a child that has ended.  Run may
\* have left by an exception and its SCXProcess be destroyed: then nothing is
\* known of m_pid.
Kill == /\ monitor = "kill" /\ monitor' = "over"
        /\ IF at # "done" /\ child = "running" THEN End("signal") ELSE UNCHANGED process
        /\ UNCHANGED unlessMonitor

-----------------------------------------------------------------------------
Run == \/ NothingToPoll \/ Poll \/ ServeInput
       \/ ServeOutput("stdout", "stderr") \/ ServeOutput("stderr", AfterIO)
       \/ CheckChild \/ WaitForChild \/ SetTerminated \/ Join

Monitor == SeeTerminated \/ TimeIsUp \/ Kill

Next == \/ Run \/ PollFails \/ TransferFails \/ WaitFails \/ Monitor
        \/ ChildReads \/ (\E s \in Outputs : ChildWrites(s) \/ ChildCloses(s))
        \/ ChildForks \/ ChildHangs \/ ChildEnds

Spec == Init /\ [][Next]_vars

HasWritten == \A s \in holds : wrote[s] = Chunks
HasRead == input = 0 /\ inPipe = 0

\* Both threads are scheduled.  A child that does not hang goes on writing when
\* it can; it need not read before all its output is written, and it need not
\* exit before it has read all its input.
FairSpec == /\ Spec /\ WF_vars(Run) /\ WF_vars(Monitor)
            /\ WF_vars(\E s \in Outputs : ChildWrites(s))
            /\ WF_vars(HasWritten /\ ChildReads)
            /\ WF_vars(HasWritten /\ HasRead /\ ChildEnds)

-----------------------------------------------------------------------------
\* Every variable keeps its type, and no pipe holds more than its capacity.
TypeOK == /\ child \in {"running", "zombie", "reaped"}
          /\ ending \in {"none", "exit", "signal"}
          /\ hung \in BOOLEAN /\ daemon \in BOOLEAN
          /\ holds \subseteq Outputs /\ active \subseteq Streams
          /\ inPipe \in 0 .. Capacity /\ input \in 0 .. Chunks
          /\ pipe \in [Outputs -> 0 .. Capacity]
          /\ wrote \in [Outputs -> Nat] /\ got \in [Outputs -> Nat]
          /\ at \in {"poll", "check", "wait", "flag", "join", "done"} \cup Streams
          /\ revents \in [ready : SUBSET Streams, hungUp : SUBSET Outputs]
          /\ second \in BOOLEAN /\ waitCompleted \in BOOLEAN
          /\ terminated \in BOOLEAN /\ limited \in BOOLEAN
          /\ monitor \in {"watch", "kill", "over"}
          /\ result \in {"none", "exit", "signal", "error"}
          /\ failures \in Nat

\* A run that ends with the end of its child has everything the child wrote, also
\* what it wrote between the last poll and its exit, and whether or not a daemon
\* keeps the pipes open (PerformIO, InternalPerformIO, ReadToStream).
OutputIsComplete == at = "done" /\ result \in {"exit", "signal"} => got = wrote

\* A run with a time limit that returns an exit code has no monitor left, so that
\* none can kill once the SCXProcess is destroyed (Run).
NoMonitorIsLeft == at = "done" /\ result = "exit" => monitor = "over"

\* waitpid has returned the child exactly if that is remembered, and what is left
\* of it has no stream open.
ChildKnown == /\ child = "reaped" <=> waitCompleted
              /\ child = "running" <=> ending = "none"
              /\ child # "running" /\ ~daemon => holds = {}
              /\ second => waitCompleted

\* The flag is set on the way out, and only then and by a run with a time limit.
MonitorKnown == /\ ~limited => monitor = "over"
                /\ terminated <=> limited /\ at \in {"join", "done"}
                /\ NoMonitorIsLeft

ResultKnown == /\ result = "none" <=> at \notin {"flag", "join", "done"}
               /\ result \in {"exit", "signal"} => waitCompleted /\ result = ending

\* The thread never waits in a write, though the pipe to the child is blocking: the
\* room that poll has found is still there when it gets to the write, since only the
\* thread writes to that pipe, and a chunk, which is at most what m_stdinChars holds,
\* fits (InternalPerformIO, SendInput).
NoWriteBlocks ==
  at = "stdin" /\ "stdin" \in revents.ready /\ child = "running" => inPipe < Capacity

\* Nothing is lost between the child and the buffers; a stream that is no longer
\* polled, or that poll has found hung up, has no writer, and one that is no longer
\* polled is empty.  There is room for what is to be written.
StreamsKnown ==
  /\ \A s \in Outputs : wrote[s] = got[s] + pipe[s]
  /\ \A s \in Outputs \ active : s \notin holds /\ pipe[s] = 0
  /\ revents.hungUp \subseteq revents.ready \ holds
  /\ NoWriteBlocks

\* The outputs InternalPerformIO has yet to read in this round.
ToServe == CASE at \in {"stdin", "stdout"} -> Outputs
             [] at = "stderr" -> {"stderr"}
             [] OTHER -> {}

\* The last round of reading misses nothing: poll has told of all that is still
\* unread, and when the thread has left PerformIO, other than by an error,
\* there is nothing left and nobody to write more.
LastReadKnown ==
  /\ at = "check" => ~second
  /\ second /\ at \in Streams => \A s \in Outputs : pipe[s] > 0 => s \in ToServe \cap revents.ready
  /\ at \in {"wait", "flag", "join", "done"} /\ result # "error" =>
       /\ \A s \in Outputs : pipe[s] = 0
       /\ second \/ holds = {}

\* What holds of child, thread and monitor at every step of Run: in particular, that
\* a run with a time limit that returns an exit code leaves no monitor, and that what
\* it returns is how its own child ended, whichever of the two calls of waitpid
\* got to know and whoever killed it; and what is where of the child's output.
IInv == TypeOK /\ ChildKnown /\ MonitorKnown /\ ResultKnown /\ StreamsKnown /\ LastReadKnown

\* Run fails only when a call of the system fails it, in poll, in a read or a write, or
\* in a waitpid that is interrupted while the child is still running, and never because
\* of the two calls of waitpid: the child is reaped once, by whichever of them comes
\* first, and the other one knows (DoWaitPID).
FailsOnlyWithTheSystem == result = "error" => failures > 0

\* What the comment on "timeout" says, "Max number of milliseconds the process is
\* allowed to run": once Run is left and its monitor is over, its child does not run.
\* It is false: when poll, a read, a write or waitpid fails, the flag is set that
\* ends the monitor, and nobody kills the child (ProcessThreadParam::WaitForReturn).
\* No run checks it.
LimitIsKept == limited /\ at = "done" /\ monitor = "over" => child # "running"

\* Run, whatever its pipes hold, is a call to a child: no chunk is lost or made up in
\* either direction, and it returns once, when the child has ended, with how it did
\* and with all it wrote.
Call == INSTANCE ChildCall WITH
          unread <- input + inPipe,
          ended <- ending,
          answer <- result,
          output <- IF result \in {"exit", "signal"} THEN got ELSE [s \in Outputs |-> 0]

ImplementsChildCall == Call!Spec

\* Run returns, though child and thread write to each other through pipes of
\* limited capacity, though a daemon keeps the outputs open, and, with a time
\* limit, though the child hangs.  Without one it waits for ever for a child that
\* hangs, and for one that closes both outputs before it has read its input: it
\* is sent no more (InternalPerformIO).
RunReturns == \/ <>(at = "done")
              \/ <>[](~limited /\ child = "running" /\ (hung \/ holds = {}))
=============================================================================
