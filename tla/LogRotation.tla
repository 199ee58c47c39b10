------------------------------- MODULE LogRotation -------------------------------
(***************************************************************************)
(* Log rotation: logrotate renames the log file and then has scx_admin     *)
(* send SIGCONT to the agent, whose handler (scxloghandlefactory.cpp) asks *)
(* the mediator to have every backend close its stream and open the file   *)
(* of that name again.  The handler runs on top of whatever a thread was   *)
(* doing, and takes two of the locks that the log framework itself uses:   *)
(* the one of the factory's Instance() and the mediator's.                 *)
(*                                                                         *)
(* A lock is an SCXThreadLockHandle: a call of Lock by the thread that has *)
(* it is refused with an exception, if m_lockCount and m_threadID show it  *)
(* (see ThreadLock); between the mutex and these two they do not.  A file  *)
(* is named by the number of renames before it was created.                *)
(***************************************************************************)
EXTENDS Integers, FiniteSets

CONSTANTS Threads,
          Files,         \* the backends that write to a file
          Unwritable,    \* those of them whose file may be impossible to open
          MaxRotations,  \* bound: renames
          Nobody

ASSUME RotationAssumption == /\ Nobody \notin Threads
                             /\ Unwritable \subseteq Files
                             /\ MaxRotations \in Nat

VARIABLES made,      \* the SCXLogHandleFactory exists, and the handler is installed
          name,      \* the number of the file that has the name of the log file
          told,      \* the last rename that was followed by a signal
          pending,   \* the signal waits to be delivered
          owner,     \* owner[l]: who has the native mutex of lock l
          pc,        \* pc[t]: what t does, when it is not interrupted
          todo,      \* todo[t]: backends that have yet to get the item t logs
          hpc,       \* hpc[t]: where the handler is that interrupts t
          htodo,     \* htodo[t]: backends it has yet to turn to
          stream,    \* stream[b]: the file that m_FileStream has open
          crashed    \* the agent is gone

system == <<name, told, pending>>
user == <<pc, todo>>
handler == <<hpc, htodo>>
vars == <<made, system, owner, user, handler, stream, crashed>>

Locks == {"factory", "mediator"}
Closed == -1

\* A thread that calls Lock, has the mutex only, is seen to have the lock, and has
\* the mutex only again, in Unlock.
Idle == [at |-> "idle", lock |-> "factory"]
At(where, l) == [at |-> where, lock |-> l]
Calls == {Idle} \cup {At(w, l) : w \in {"want", "enter", "in", "leave"}, l \in Locks}

\* A handler that was not called, waits for a lock, or has it.
NotCalled == At("none", "factory")
HandlerStates == {NotCalled} \cup {At(w, l) : w \in {"want", "in"}, l \in Locks}

Init == /\ made = FALSE
        /\ name = 0 /\ told = 0 /\ pending = FALSE
        /\ owner = [l \in Locks |-> Nobody]
        /\ pc = [t \in Threads |-> Idle] /\ todo = [t \in Threads |-> {}]
        /\ hpc = [t \in Threads |-> NotCalled] /\ htodo = todo
        /\ stream = [b \in Files |-> Closed]
        /\ crashed = FALSE

Runs(t) == ~crashed /\ hpc[t] = NotCalled

-----------------------------------------------------------------------------
(* logrotate.                                                              *)

Rename == /\ name < MaxRotations
          /\ name' = name + 1
          /\ UNCHANGED <<made, told, pending, owner, user, handler, stream, crashed>>

\* SCX_LogConfigurator::LogRotate.  A signal that is pending already is not queued,
\* and without the handler SIGCONT has no effect.
Signal == /\ told < name /\ ~crashed
          /\ told' = name
          /\ pending' = made
          /\ UNCHANGED <<made, name, owner, user, handler, stream, crashed>>

-----------------------------------------------------------------------------
(* What the threads do with the log.                                       *)

\* GetLogHandle: Instance().
BeginInstance(t) ==
  /\ Runs(t) /\ pc[t] = Idle
  /\ pc' = [pc EXCEPT ![t] = At("want", "factory")]
  /\ UNCHANGED <<made, system, owner, todo, handler, stream, crashed>>

\* LogThisItem of the mediator, for the backends whose filters let the item pass, or
\* one of the calls of the mediator that do not write.
BeginLog(t) ==
  /\ Runs(t) /\ pc[t] = Idle /\ made
  /\ pc' = [pc EXCEPT ![t] = At("want", "mediator")]
  /\ \E bs \in SUBSET Files : todo' = [todo EXCEPT ![t] = bs]
  /\ UNCHANGED <<made, system, owner, handler, stream, crashed>>

Acquire(t) ==
  /\ Runs(t) /\ pc[t].at = "want"
  /\ LET l == pc[t].lock
     IN  /\ owner[l] = Nobody
         /\ owner' = [owner EXCEPT ![l] = t]
         /\ pc' = [pc EXCEPT ![t] = At("enter", l)]
  /\ UNCHANGED <<made, system, todo, handler, stream, crashed>>

\* m_lockCount and m_threadID.
Record(t) == /\ Runs(t) /\ pc[t].at = "enter"
             /\ pc' = [pc EXCEPT ![t].at = "in"]
             /\ UNCHANGED <<made, system, owner, todo, handler, stream, crashed>>

\* The first call of Instance makes the factory, and the last thing that its
\* constructor does is InstallLogRotateSupport.
Make(t) == /\ Runs(t) /\ pc[t] = At("in", "factory") /\ ~made
           /\ made' = TRUE
           /\ UNCHANGED <<system, owner, user, handler, stream, crashed>>

\* DoLogItem opens the file if it has no stream that is open; if that is not possible
\* the item is dropped.
Opened(b) == {name} \cup (IF b \in Unwritable THEN {Closed} ELSE {})

WriteItem(t, b) ==
  /\ Runs(t) /\ pc[t] = At("in", "mediator") /\ b \in todo[t]
  /\ todo' = [todo EXCEPT ![t] = @ \ {b}]
  /\ IF stream[b] # Closed THEN UNCHANGED stream
     ELSE \E f \in Opened(b) : stream' = [stream EXCEPT ![b] = f]
  /\ UNCHANGED <<made, system, owner, pc, handler, crashed>>

ClearId(t) == /\ Runs(t) /\ pc[t].at = "in" /\ todo[t] = {} /\ made
              /\ pc' = [pc EXCEPT ![t].at = "leave"]
              /\ UNCHANGED <<made, system, owner, todo, handler, stream, crashed>>

Release(t) == /\ Runs(t) /\ pc[t].at = "leave"
              /\ owner' = [owner EXCEPT ![pc[t].lock] = Nobody]
              /\ pc' = [pc EXCEPT ![t] = Idle]
              /\ UNCHANGED <<made, system, todo, handler, stream, crashed>>

-----------------------------------------------------------------------------
(* The handler.                                                            *)

\* On any thread that is not in the handler already: there the signal is blocked.
Deliver(t) == /\ Runs(t) /\ pending
              /\ pending' = FALSE
              /\ hpc' = [hpc EXCEPT ![t] = At("want", "factory")]
              /\ UNCHANGED <<made, name, told, owner, user, htodo, stream, crashed>>

InHandler(t, where, l) == ~crashed /\ hpc[t] = At(where, l)

\* HaveLock is true in the thread that was interrupted.
Refused(t, l) == pc[t] = At("in", l)

\* Lock throws; nothing catches the exception on its way out of the handler.
HandlerThrows(t, l) ==
  /\ InHandler(t, "want", l) /\ Refused(t, l)
  /\ crashed' = TRUE
  /\ UNCHANGED <<made, system, owner, user, handler, stream>>

\* Mutant: the handler does not wait for the lock.
HandlerLocks_Not(t, l) ==
  /\ InHandler(t, "want", l) /\ ~Refused(t, l)
  /\ hpc' = [hpc EXCEPT ![t] = At("in", l)]
  /\ htodo' = [htodo EXCEPT ![t] = IF l = "mediator" THEN Files ELSE {}]
  /\ UNCHANGED <<made, system, owner, user, stream, crashed>>

HandlerLocks(t, l) ==
  /\ InHandler(t, "want", l) /\ ~Refused(t, l)
  /\ owner[l] = Nobody
  /\ owner' = [owner EXCEPT ![l] = t]
  /\ hpc' = [hpc EXCEPT ![t] = At("in", l)]
  /\ htodo' = [htodo EXCEPT ![t] = IF l = "mediator" THEN Files ELSE {}]
  /\ UNCHANGED <<made, system, user, stream, crashed>>

\* Mutant: a stream that is open is kept.
Reopen_Open(t, b) ==
  /\ InHandler(t, "in", "mediator") /\ b \in htodo[t]
  /\ stream[b] # Closed
  /\ htodo' = [htodo EXCEPT ![t] = @ \ {b}]
  /\ UNCHANGED <<made, system, owner, user, hpc, stream, crashed>>

\* SCXLogFileBackend::HandleLogRotate: close, and DoLogItem.
Reopen(t, b) ==
  /\ InHandler(t, "in", "mediator") /\ b \in htodo[t]
  /\ stream[b] # Closed
  /\ \E f \in Opened(b) : stream' = [stream EXCEPT ![b] = f]
  /\ htodo' = [htodo EXCEPT ![t] = @ \ {b}]
  /\ UNCHANGED <<made, system, owner, user, hpc, crashed>>

\* m_FileStream is NULL until something was logged, and after a file could not be
\* opened: m_FileStream->close().
NoStream(t, b) ==
  /\ InHandler(t, "in", "mediator") /\ b \in htodo[t]
  /\ stream[b] = Closed
  /\ crashed' = TRUE
  /\ UNCHANGED <<made, system, owner, user, handler, stream>>

\* Mutant: a handler that is done keeps the lock of the mediator.
HandlerLeaves_Locked(t, l) ==
  /\ InHandler(t, "in", l) /\ htodo[t] = {}
  /\ owner' = [owner EXCEPT !["factory"] = IF l = "factory" THEN Nobody ELSE @]
  /\ hpc' = [hpc EXCEPT ![t] = IF l = "factory" THEN At("want", "mediator") ELSE NotCalled]
  /\ UNCHANGED <<made, system, user, htodo, stream, crashed>>

\* From Instance to the mediator, and from the mediator to the next handler in the
\* chain, which has nothing to do with the log.
HandlerLeaves(t, l) ==
  /\ InHandler(t, "in", l) /\ htodo[t] = {}
  /\ owner' = [owner EXCEPT ![l] = Nobody]
  /\ hpc' = [hpc EXCEPT ![t] = IF l = "factory" THEN At("want", "mediator") ELSE NotCalled]
  /\ UNCHANGED <<made, system, user, htodo, stream, crashed>>

-----------------------------------------------------------------------------
Handler(t) == \/ \E l \in Locks : \/ HandlerThrows(t, l) \/ HandlerLocks(t, l)
                                  \/ HandlerLeaves(t, l)
              \/ \E b \in Files : Reopen(t, b) \/ NoStream(t, b)

Continue(t) == \/ Acquire(t) \/ Record(t) \/ Make(t) \/ ClearId(t) \/ Release(t)
               \/ \E b \in Files : WriteItem(t, b)

Next == \/ Rename \/ Signal
        \/ \E t \in Threads : \/ BeginInstance(t) \/ BeginLog(t) \/ Continue(t)
                              \/ Deliver(t) \/ Handler(t)

Spec == Init /\ [][Next]_vars

\* Threads are scheduled, and a mutex that is free again and again is had at last;
\* a pending signal is delivered.
FairSpec == /\ Spec
            /\ \A t \in Threads : SF_vars(Continue(t)) /\ SF_vars(Handler(t))
            /\ WF_vars(\E t \in Threads : Deliver(t))

-----------------------------------------------------------------------------
TypeOK == /\ made \in BOOLEAN /\ pending \in BOOLEAN /\ crashed \in BOOLEAN
          /\ name \in 0 .. MaxRotations /\ told \in 0 .. name
          /\ owner \in [Locks -> Threads \cup {Nobody}]
          /\ pc \in [Threads -> Calls]
          /\ todo \in [Threads -> SUBSET Files]
          /\ hpc \in [Threads -> HandlerStates]
          /\ htodo \in [Threads -> SUBSET Files]
          /\ stream \in [Files -> {Closed} \cup (0 .. name)]

\* The thread itself, or a handler on top of it, is between Lock and Unlock of l.
Inside(t, l) == \/ pc[t] \in {At("enter", l), At("in", l), At("leave", l)}
                \/ hpc[t] = At("in", l)

LocksRecorded == \A t \in Threads, l \in Locks : owner[l] = t <=> Inside(t, l)

\* A handler never gets a lock that the thread under it has.
InsideOnce == \A t \in Threads, l \in Locks :
                hpc[t] = At("in", l) => pc[t] \notin {At("enter", l), At("in", l), At("leave", l)}

\* Nothing is logged before there is a factory.
MadeFirst == ~made => /\ \A b \in Files : stream[b] = Closed
                      /\ \A t \in Threads : pc[t].lock = "factory"

\* Every variable keeps its type, and no two threads are between Lock and Unlock of
\* a lock, one of them in the handler or both: no stream is closed while a backend
\* is writing to it, although HandleLogRotate does not take the backend's own lock.
IInv == TypeOK /\ LocksRecorded /\ InsideOnce /\ MadeFirst

\* A handler will turn to b.
Coming(b) == \E t \in Threads :
               hpc[t] # NotCalled /\ (hpc[t] # At("in", "mediator") \/ b \in htodo[t])

\* A backend that still writes to a file that was renamed is told so: signals that
\* come while one is pending, or while the handler runs on another thread, are not
\* lost, and none is taken to be dealt with before the backend has the new file.
NoStreamIsLeftBehind ==
  ~crashed => \A b \in Files : stream[b] \in 0 .. name - 1
                               => told < name \/ pending \/ Coming(b)

\* A handler waits for a lock that the thread under it has: for ever.
Stuck == \E t \in Threads, l \in Locks : hpc[t] = At("want", l) /\ owner[l] = t

\* After a signal every backend comes to have the new file or none; only a signal
\* that hits a thread between the two ends of a lock, or a backend without a
\* stream, keeps the agent from it.  No two threads wait for each other.
RotationEnds ==
  \A n \in 1 .. MaxRotations :
    told = n ~> \/ \A b \in Files : stream[b] = Closed \/ stream[b] >= n
                \/ crashed \/ Stuck

\* "Make the application support log rotate by installing necessary signal handler"
\* (scxloghandlefactory.cpp:115), with a signal that, unlike others, does not cause
\* "the application to terminate" (:29): a rotation neither ends the agent nor
\* makes it hang.
RotationIsSurvived == ~crashed /\ ~Stuck
=============================================================================
