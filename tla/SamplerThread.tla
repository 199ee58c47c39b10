----------------------------- MODULE SamplerThread -----------------------------
(***************************************************************************)
(* Sampler threads and the provider that owns them.  The CPU, disk and     *)
(* process enumerations each start one SCXThread (scxthread.cpp) whose body*)
(* sleeps on the SCXCondition (scxcondition.cpp) of its parameter and, at  *)
(* every timeout, samples the enumeration under the enumeration lock - all *)
(* of it with the mutex of the condition locked.  The owner is the thread  *)
(* that has the provider lock: it creates the enumerations, takes an       *)
(* enumeration lock for a request, cleans up and destroys, one enumeration *)
(* after the other (DiskProvider has two with a sampler).                  *)
(*                                                                         *)
(* Time is left out: a timeout, like a spurious wakeup, may come whenever  *)
(* a sampler waits.                                                        *)
(***************************************************************************)
CONSTANTS Samplers,  \* the enumerations of the provider that have a sampler
          Catching   \* those whose thread body catches what SampleData throws
                     \* (process, disk); the CPU sampler does not

ASSUME CatchingAssumption == Catching \subseteq Samplers

VARIABLES op,         \* op[s]: what the owner is doing with s
          sp,         \* sp[s]: where the sampler thread of s is
          condMutex,  \* condMutex[s]: who has SCXCondition::m_lock
          enumLock,   \* enumLock[s]: who has the enumeration lock
          flag,       \* flag[s]: m_terminateFlag
          update,     \* update[s]: bUpdate of the thread body
          tid         \* tid[s]: m_threadID # 0

locks == <<condMutex, enumLock>>
vars == <<op, sp, locks, flag, update, tid>>

\* Where the owner rests, so that it may turn to another enumeration.
Resting == {"none", "ready", "cleaned"}
OwnerPCs == Resting \cup {"request", "lock", "set", "signal", "unlock", "join",
                          "delete"}
\* "none": not started; "over": ended but not joined; "joined": reaped.
SamplerPCs == {"none", "begin", "test", "sample", "sampling", "enter", "waiting",
               "timedout", "woken", "leave", "throw", "over", "joined"}
Who == {"nobody", "owner", "sampler"}

Init == /\ op = [s \in Samplers |-> "none"]
        /\ sp = [s \in Samplers |-> "none"]
        /\ condMutex = [s \in Samplers |-> "nobody"]
        /\ enumLock = [s \in Samplers |-> "nobody"]
        /\ flag = [s \in Samplers |-> FALSE]
        /\ update = [s \in Samplers |-> TRUE]
        /\ tid = [s \in Samplers |-> FALSE]

-----------------------------------------------------------------------------
(* The owner.                                                              *)

OwnerIsFree == \A s \in Samplers : op[s] \in Resting

OwnerGoes(s, from, to) == op[s] = from /\ op' = [op EXCEPT ![s] = to]

\* new SCXThread(body, param): a fresh object, parameter and condition.
StartThread(s) == /\ OwnerIsFree
                  /\ OwnerGoes(s, "none", "ready")
                  /\ sp' = [sp EXCEPT ![s] = "begin"]
                  /\ flag' = [flag EXCEPT ![s] = FALSE]
                  /\ update' = [update EXCEPT ![s] = TRUE]
                  /\ tid' = [tid EXCEPT ![s] = TRUE]
                  /\ UNCHANGED locks

BeginRequest(s) == /\ OwnerIsFree
                   /\ OwnerGoes(s, "ready", "request")
                   /\ enumLock[s] = "nobody"
                   /\ enumLock' = [enumLock EXCEPT ![s] = "owner"]
                   /\ UNCHANGED <<sp, condMutex, flag, update, tid>>

EndRequest(s) == /\ OwnerGoes(s, "request", "ready")
                 /\ enumLock' = [enumLock EXCEPT ![s] = "nobody"]
                 /\ UNCHANGED <<sp, condMutex, flag, update, tid>>

\* CleanUp: RequestTerminate, step by step, and Wait.
CallCleanUp(s) == /\ OwnerIsFree
                  /\ OwnerGoes(s, "ready", "lock")
                  /\ UNCHANGED <<sp, locks, flag, update, tid>>

\* Mutant: RequestTerminate does not lock the condition.
LockCondition_Not(s) == /\ OwnerGoes(s, "lock", "set")
                        /\ UNCHANGED <<sp, locks, flag, update, tid>>

LockCondition(s) == /\ OwnerGoes(s, "lock", "set")
                    /\ condMutex[s] = "nobody"
                    /\ condMutex' = [condMutex EXCEPT ![s] = "owner"]
                    /\ UNCHANGED <<sp, enumLock, flag, update, tid>>

SetFlag(s) == /\ OwnerGoes(s, "set", "signal")
              /\ flag' = [flag EXCEPT ![s] = TRUE]
              /\ UNCHANGED <<sp, locks, update, tid>>

\* Mutant: the flag is set, but the condition is not signalled.
SignalCondition_Not(s) == /\ OwnerGoes(s, "signal", "unlock")
                          /\ UNCHANGED <<sp, locks, flag, update, tid>>

\* pthread_cond_signal wakes the sampler if it waits, and is lost otherwise.
SignalCondition(s) ==
  /\ OwnerGoes(s, "signal", "unlock")
  /\ sp' = IF sp[s] = "waiting" THEN [sp EXCEPT ![s] = "woken"] ELSE sp
  /\ UNCHANGED <<locks, flag, update, tid>>

UnlockCondition(s) == /\ OwnerGoes(s, "unlock", "join")
                      /\ condMutex' = [condMutex EXCEPT ![s] = "nobody"]
                      /\ UNCHANGED <<sp, enumLock, flag, update, tid>>

\* Wait: pthread_join returns when the thread is over.
Join(s) == /\ OwnerGoes(s, "join", "cleaned")
           /\ sp[s] = "over"
           /\ sp' = [sp EXCEPT ![s] = "joined"]
           /\ tid' = [tid EXCEPT ![s] = FALSE]
           /\ UNCHANGED <<locks, flag, update>>

\* Mutant: the destructor does not clean up.
Destroy_NoCleanUp(s) == /\ OwnerIsFree
                        /\ \/ OwnerGoes(s, "ready", "delete")
                           \/ ~tid[s] /\ OwnerGoes(s, "cleaned", "delete")
                        /\ UNCHANGED <<sp, locks, flag, update, tid>>

\* The destructor of the enumeration: CleanUp if IsAlive, which is true for a
\* running thread and, for one that is over, whatever pthread_kill says of a
\* thread nobody has joined.
Destroy(s) == /\ OwnerIsFree
              /\ \/ tid[s] /\ OwnerGoes(s, "ready", "lock")
                 \/ sp[s] = "over" /\ OwnerGoes(s, "ready", "delete")
                 \/ ~tid[s] /\ OwnerGoes(s, "cleaned", "delete")
              /\ UNCHANGED <<sp, locks, flag, update, tid>>

\* ~SCXThread; then the enumeration is gone.
DeleteThread(s) == /\ OwnerGoes(s, "delete", "none")
                   /\ UNCHANGED <<sp, locks, flag, update, tid>>

-----------------------------------------------------------------------------
(* The sampler thread: ThreadStartRoutine and the thread body.             *)

SamplerGoes(s, from, to) == sp[s] \in from /\ sp' = [sp EXCEPT ![s] = to]
SamplerOnly == UNCHANGED <<op, flag, tid>>

TakeCondition(s) == /\ condMutex[s] = "nobody"
                    /\ condMutex' = [condMutex EXCEPT ![s] = "sampler"]

DropCondition(s) == condMutex' = [condMutex EXCEPT ![s] = "nobody"]

\* SetSleep, then the constructor of the SCXConditionHandle.
BeginCondition(s) == /\ SamplerGoes(s, {"begin"}, "test")
                     /\ TakeCondition(s)
                     /\ SamplerOnly /\ UNCHANGED <<enumLock, update>>

TestFlag(s) == /\ SamplerGoes(s, {"test"}, IF flag[s] THEN "leave"
                                           ELSE IF update[s] THEN "sample"
                                           ELSE "enter")
               /\ SamplerOnly /\ UNCHANGED <<locks, update>>

BeginSample(s) == /\ SamplerGoes(s, {"sample"}, "sampling")
                  /\ enumLock[s] = "nobody"
                  /\ enumLock' = [enumLock EXCEPT ![s] = "sampler"]
                  /\ SamplerOnly /\ UNCHANGED <<condMutex, update>>

\* SampleData returns or throws.  Its scoped lock is released in both cases; an
\* exception the body does not catch leaves the loop.
EndSample(s) == /\ enumLock' = [enumLock EXCEPT ![s] = "nobody"]
                /\ \/ /\ SamplerGoes(s, {"sampling"}, "enter")
                      /\ update' = [update EXCEPT ![s] = FALSE]
                   \/ /\ s \notin Catching
                      /\ SamplerGoes(s, {"sampling"}, "throw")
                      /\ UNCHANGED update
                /\ SamplerOnly /\ UNCHANGED condMutex

\* pthread_cond_timedwait releases the mutex and starts to wait in one step.
EnterWait(s) == /\ SamplerGoes(s, {"enter"}, "waiting")
                /\ DropCondition(s)
                /\ SamplerOnly /\ UNCHANGED <<enumLock, update>>

Timeout(s) == /\ SamplerGoes(s, {"waiting"}, "timedout")
              /\ SamplerOnly /\ UNCHANGED <<locks, update>>

SpuriousWakeup(s) == /\ SamplerGoes(s, {"waiting"}, "woken")
                     /\ SamplerOnly /\ UNCHANGED <<locks, update>>

\* Mutant: a timeout does not ask for a sample.
LeaveWait_NoUpdate(s) == /\ SamplerGoes(s, {"timedout", "woken"}, "test")
                         /\ TakeCondition(s)
                         /\ SamplerOnly /\ UNCHANGED <<enumLock, update>>

\* The wait returns with the mutex locked again; a timeout asks for a sample.
LeaveWait(s) ==
  /\ SamplerGoes(s, {"timedout", "woken"}, "test")
  /\ TakeCondition(s)
  /\ update' = IF sp[s] = "timedout" THEN [update EXCEPT ![s] = TRUE] ELSE update
  /\ SamplerOnly /\ UNCHANGED enumLock

\* The end of the scope of the SCXConditionHandle, on both ways out of the loop;
\* ThreadStartRoutine asserts when an exception arrives.
EndThread(s) == /\ SamplerGoes(s, {"leave", "throw"}, "over")
                /\ DropCondition(s)
                /\ SamplerOnly /\ UNCHANGED <<enumLock, update>>

-----------------------------------------------------------------------------
OwnerStep(s) == \/ EndRequest(s) \/ SetFlag(s) \/ SignalCondition(s)
                \/ UnlockCondition(s) \/ Join(s) \/ DeleteThread(s)
Call(s) == StartThread(s) \/ BeginRequest(s) \/ CallCleanUp(s) \/ Destroy(s)
SamplerStep(s) == \/ BeginCondition(s) \/ TestFlag(s) \/ BeginSample(s)
                  \/ EndSample(s) \/ EnterWait(s) \/ LeaveWait(s) \/ EndThread(s)

Next == \E s \in Samplers :
           \/ OwnerStep(s) \/ Call(s) \/ LockCondition(s)
           \/ SamplerStep(s) \/ Timeout(s) \/ SpuriousWakeup(s)

Spec == Init /\ [][Next]_vars

\* Every thread is scheduled, the owner finishes what it begins, and a thread
\* that finds a mutex free again and again gets it.  Nothing is assumed of the
\* timeouts: the period may be as long as it likes.
FairSpec == Spec /\ \A s \in Samplers : /\ WF_vars(OwnerStep(s))
                                        /\ SF_vars(LockCondition(s))
                                        /\ WF_vars(SamplerStep(s))
                                        /\ SF_vars(BeginSample(s))

-----------------------------------------------------------------------------
TypeOK == /\ op \in [Samplers -> OwnerPCs]
          /\ sp \in [Samplers -> SamplerPCs]
          /\ condMutex \in [Samplers -> Who]
          /\ enumLock \in [Samplers -> Who]
          /\ flag \in [Samplers -> BOOLEAN]
          /\ update \in [Samplers -> BOOLEAN]
          /\ tid \in [Samplers -> BOOLEAN]

\* Who is where while it has which lock.
LocksRecorded == \A s \in Samplers :
  /\ condMutex[s] = "owner" <=> op[s] \in {"set", "signal", "unlock"}
  /\ condMutex[s] = "sampler" <=> sp[s] \in {"test", "sample", "sampling", "enter",
                                            "leave", "throw"}
  /\ enumLock[s] = "owner" <=> op[s] = "request"
  /\ enumLock[s] = "sampler" <=> sp[s] = "sampling"

\* How far the life of the thread goes with what the owner does, and when the
\* terminate flag is set.
Lifecycle == \A s \in Samplers :
  /\ op[s] = "none" => sp[s] \in {"none", "over", "joined"}
  /\ op[s] = "cleaned" => sp[s] = "joined" /\ ~tid[s]
  /\ op[s] = "delete" => sp[s] \in {"over", "joined"}
  /\ op[s] \in {"ready", "request", "lock", "set"} => ~flag[s]
  /\ op[s] \in {"signal", "unlock", "join"} => flag[s]
  /\ sp[s] \in {"sample", "sampling"} => ~flag[s]
  /\ s \in Catching => sp[s] # "throw"
  /\ s \in Catching /\ sp[s] \in {"leave", "over"} => flag[s]

\* The inductive invariant.
IInv == TypeOK /\ LocksRecorded /\ Lifecycle

\* The sampler has the enumeration in its hands only while there is one: no
\* sample is running, or about to, once CleanUp is through, nor when the owner
\* destroys the enumeration.
NoSampleAfterCleanUp == \A s \in Samplers :
  sp[s] \in {"sample", "sampling"} => op[s] \notin {"none", "cleaned", "delete"}

\* Once the terminate flag is set no sample begins: RequestTerminate waits for
\* the sample that is running, and the body looks at the flag before the next.
NoSampleAfterRequest ==
  [][\A s \in Samplers : flag[s] /\ sp[s] # "sampling" => sp'[s] # "sampling"]_vars

\* The two locks of an enumeration are taken in one order: whoever holds or
\* wants the enumeration lock as the sampler has the condition, and the owner
\* never has both.  So no two threads wait for each other.
LockOrder == \A s \in Samplers :
  /\ enumLock[s] = "owner" => condMutex[s] # "owner"
  /\ enumLock[s] = "sampler" => condMutex[s] = "sampler"
  /\ sp[s] \in {"sample", "sampling"} => condMutex[s] = "sampler"

\* RequestTerminate and Wait come back, although nothing is assumed of the
\* sampling period: the signal is never lost, whatever the sampler is doing.
CleanUpReturns == \A s \in Samplers : (op[s] = "lock") ~> (op[s] = "cleaned")

\* A sampler whose body catches exceptions samples again as long as nobody asks
\* it to stop, provided the clock runs: one that waits again and again is timed
\* out.
SamplesKeepComing == \A s \in Catching :
  SF_vars(Timeout(s)) =>
    ((sp[s] \in {"begin", "waiting"}) ~> (sp[s] = "sampling" \/ flag[s]))

\* A sampler whose body catches the exceptions of SampleData ends only when it
\* is told to.
CatchingEndsWhenTold == \A s \in Catching : sp[s] = "over" => flag[s]
=============================================================================
