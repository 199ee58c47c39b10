------------------------------ MODULE ThreadLock ------------------------------
(***************************************************************************)
(* SCXThreadLockHandle (scxthreadlockhandle.cpp) and the scoped            *)
(* SCXThreadLock around it (scxthreadlock.cpp): one implementation object  *)
(* shared by several threads.  The native mutex protects nothing but       *)
(* itself: m_lockCount and m_threadID are written by the thread that has   *)
(* the mutex and read by every thread, in HaveLock and IsLocked, without   *)
(* any lock.  So every read and every write of the two fields is a step of *)
(* its own.                                                                *)
(***************************************************************************)
EXTENDS Integers

CONSTANTS Threads,   \* the threads that share the lock
          NoThread   \* m_threadID = 0, and the owner of a free native mutex

ASSUME ThreadsAssumption == NoThread \notin Threads

Ops == {"Lock", "Unlock", "TryLock", "HaveLock", "IsLocked", "Destroy"}
Replies == {"ok", "busy", "true", "false", "Held", "NotHeld"}

VARIABLES mutex,      \* owner of the native mutex m_lock, or NoThread
          lockCount,  \* m_lockCount
          threadID,   \* m_threadID
          pc,         \* pc[t]: the statement t is at
          op,         \* op[t]: the operation t is executing, if any
          reply       \* reply[t]: result or exception t's operation returns

vars == <<mutex, lockCount, threadID, pc, op, reply>>
fields == <<mutex, lockCount, threadID>>

PCs == {"idle", "count", "id", "acquire", "try", "inc", "setid",
        "clear", "dec", "release", "return"}

Init == /\ mutex = NoThread
        /\ lockCount = 0
        /\ threadID = NoThread
        /\ pc = [t \in Threads |-> "idle"]
        /\ op = [t \in Threads |-> "none"]
        /\ reply = [t \in Threads |-> "none"]

Goto(t, l) == pc' = [pc EXCEPT ![t] = l]

Finish(t, r) == /\ Goto(t, "return")
                /\ reply' = [reply EXCEPT ![t] = r]

\* Every operation starts by reading m_lockCount: IsLocked for its own sake,
\* the others in the HaveLock they begin with.
Call(t, o) == /\ pc[t] = "idle"
              /\ op' = [op EXCEPT ![t] = o]
              /\ Goto(t, "count")
              /\ UNCHANGED <<fields, reply>>

-----------------------------------------------------------------------------

\* What the operation of t does once its HaveLock has returned `have'.
AfterHaveLock(t, have) ==
  \/ /\ op[t] = "HaveLock"
     /\ Finish(t, IF have THEN "true" ELSE "false")
     /\ UNCHANGED op
  \/ /\ op[t] \in {"Lock", "TryLock"}
     /\ IF have THEN Finish(t, "Held")
                ELSE /\ Goto(t, IF op[t] = "Lock" THEN "acquire" ELSE "try")
                     /\ UNCHANGED reply
     /\ UNCHANGED op
  \/ /\ op[t] = "Unlock"
     /\ IF have THEN Goto(t, "clear") /\ UNCHANGED reply
                ELSE Finish(t, "NotHeld")
     /\ UNCHANGED op
  \/ /\ op[t] = "Destroy"
     /\ IF have THEN /\ Goto(t, "count")      \* ~SCXThreadLock calls Unlock
                     /\ op' = [op EXCEPT ![t] = "Unlock"]
                     /\ UNCHANGED reply
                ELSE Finish(t, "ok") /\ UNCHANGED op

ReadCount(t) ==
  /\ pc[t] = "count"
  /\ IF op[t] = "IsLocked"
       THEN Finish(t, IF lockCount > 0 THEN "true" ELSE "false") /\ UNCHANGED op
       ELSE IF lockCount > 0
              THEN Goto(t, "id") /\ UNCHANGED <<op, reply>>
              ELSE AfterHaveLock(t, FALSE)
  /\ UNCHANGED fields

ReadId(t) == /\ pc[t] = "id"
             /\ AfterHaveLock(t, threadID = t)
             /\ UNCHANGED fields

-----------------------------------------------------------------------------
Acquire(t) == /\ pc[t] = "acquire"
              /\ mutex = NoThread
              /\ mutex' = t
              /\ Goto(t, "inc")
              /\ UNCHANGED <<lockCount, threadID, op, reply>>

\* Mutant: EBUSY of pthread_mutex_trylock is taken for success.
TryAcquire_IgnoresBusy(t) == /\ pc[t] = "try"
                             /\ mutex' = IF mutex = NoThread THEN t ELSE mutex
                             /\ Goto(t, "inc")
                             /\ UNCHANGED <<lockCount, threadID, op, reply>>

TryAcquire(t) ==
  /\ pc[t] = "try"
  /\ \/ /\ mutex = NoThread
        /\ mutex' = t
        /\ Goto(t, "inc")
        /\ UNCHANGED reply
     \/ /\ mutex # NoThread                      \* EBUSY
        /\ Finish(t, "busy")
        /\ UNCHANGED mutex
  /\ UNCHANGED <<lockCount, threadID, op>>

Increment(t) == /\ pc[t] = "inc"
                /\ lockCount' = lockCount + 1
                /\ Goto(t, "setid")
                /\ UNCHANGED <<mutex, threadID, op, reply>>

SetId(t) == /\ pc[t] = "setid"
            /\ threadID' = t
            /\ Finish(t, "ok")
            /\ UNCHANGED <<mutex, lockCount, op>>

\* Mutant: Unlock leaves the id of the last owner behind.
ClearId_Forgotten(t) == /\ pc[t] = "clear"
                        /\ Goto(t, "dec")
                        /\ UNCHANGED <<fields, op, reply>>

ClearId(t) == /\ pc[t] = "clear"
              /\ threadID' = NoThread
              /\ Goto(t, "dec")
              /\ UNCHANGED <<mutex, lockCount, op, reply>>

\* Mutant: Unlock does not count down.
Decrement_Forgotten(t) == /\ pc[t] = "dec"
                          /\ Goto(t, "release")
                          /\ UNCHANGED <<fields, op, reply>>

Decrement(t) == /\ pc[t] = "dec"
                /\ lockCount' = lockCount - 1
                /\ Goto(t, "release")
                /\ UNCHANGED <<mutex, threadID, op, reply>>

\* Mutant: Unlock returns without ReleaseNative.
Release_Forgotten(t) == /\ pc[t] = "release"
                        /\ Finish(t, "ok")
                        /\ UNCHANGED <<fields, op>>

Release(t) == /\ pc[t] = "release"
              /\ mutex' = NoThread
              /\ Finish(t, "ok")
              /\ UNCHANGED <<lockCount, threadID, op>>

Return(t) == /\ pc[t] = "return"
             /\ Goto(t, "idle")
             /\ op' = [op EXCEPT ![t] = "none"]
             /\ reply' = [reply EXCEPT ![t] = "none"]
             /\ UNCHANGED fields

-----------------------------------------------------------------------------
Step(t) == \/ ReadCount(t) \/ ReadId(t)
           \/ Acquire(t) \/ TryAcquire(t) \/ Increment(t) \/ SetId(t)
           \/ ClearId(t) \/ Decrement(t) \/ Release(t)
           \/ Return(t)

Next == \E t \in Threads : Step(t) \/ \E o \in Ops : Call(t, o)

Spec == Init /\ [][Next]_vars

\* A thread that has the lock leaves the scope of its SCXThreadLock.
LeaveScope(t) == mutex = t /\ Call(t, "Destroy")

\* Threads are scheduled, and no thread stays in a locked scope for ever.
\* Nothing is assumed of the order in which a mutex serves its waiters.
FairSpec == /\ Spec
            /\ \A t \in Threads : WF_vars(Step(t)) /\ SF_vars(LeaveScope(t))

-----------------------------------------------------------------------------
TypeOK == /\ mutex \in Threads \cup {NoThread}
          /\ lockCount \in 0..1
          /\ threadID \in Threads \cup {NoThread}
          /\ pc \in [Threads -> PCs]
          /\ op \in [Threads -> Ops \cup {"none"}]
          /\ reply \in [Threads -> Replies \cup {"none"}]

\* The statements a thread executes only while it owns the native mutex.
InCritical(t) == pc[t] \in {"inc", "setid", "clear", "dec", "release"}

\* Only the thread that owns the native mutex ever writes the shared fields or
\* releases the mutex: Lock, TryLock and Unlock of one thread never overlap
\* with those of another (the unlocked check in Unlock is what guards this).
OnlyOwnerWrites == \A t \in Threads : InCritical(t) => mutex = t

\* No thread ever waits for, or tries, a native mutex it owns itself: the check
\* in Lock and TryLock turns the self-deadlock into an exception.
NoSelfDeadlock == \A t \in Threads : pc[t] \in {"acquire", "try"} => mutex # t

\* A thread that reads m_threadID and finds its own id owns the mutex: the note
\* at HaveLock claims this although the two fields are read without a lock.
IdMatchIsOwnership == \A t \in Threads :
                        (pc[t] = "id" /\ threadID = t) => mutex = t

\* The two fields always tell exactly how far the owner of the mutex has come:
\* an owner that asks finds its own count and id (it is never told NotHeld about
\* a lock it has), and a free mutex leaves no trace of its last owner.
OwnershipRecorded ==
  /\ mutex = NoThread => lockCount = 0 /\ threadID = NoThread
  /\ \A t \in Threads : mutex = t =>
       /\ lockCount = (IF pc[t] \in {"inc", "release"} THEN 0 ELSE 1)
       /\ threadID = (IF pc[t] \in {"inc", "setid", "dec", "release"}
                         THEN NoThread ELSE t)

\* Which operation can be at which statement.
OpAtPC == \A t \in Threads :
  /\ (op[t] = "none") = (pc[t] = "idle")
  /\ pc[t] = "return" => reply[t] \in Replies
  /\ pc[t] = "id" => op[t] # "IsLocked"
  /\ pc[t] = "acquire" => op[t] = "Lock"
  /\ pc[t] = "try" => op[t] = "TryLock"
  /\ pc[t] \in {"inc", "setid"} => op[t] \in {"Lock", "TryLock"}
  /\ pc[t] \in {"clear", "dec", "release"} => op[t] = "Unlock"

\* The inductive invariant: the safety invariants support one another.
IInv == /\ TypeOK
        /\ OnlyOwnerWrites
        /\ NoSelfDeadlock
        /\ OwnershipRecorded
        /\ OpAtPC

\* What the threads are promised: an atomic non-recursive lock object.  A call
\* takes effect when it acquires or releases the mutex, or when it is refused.
AbsCall == [t \in Threads |->
              IF pc[t] = "idle" THEN "idle"
              ELSE IF pc[t] \in {"inc", "setid", "return"} THEN "done"
              ELSE op[t]]
AbsAnswer == [t \in Threads |->
                IF pc[t] \in {"inc", "setid"} THEN "ok" ELSE reply[t]]

MO == INSTANCE MutexObject WITH
        holder <- mutex, call <- AbsCall, answer <- AbsAnswer

\* The handle implements the atomic lock object.
ImplementsMutexObject == MO!MSpec

\* A lock that a thread has is given back: the end of its scope releases it,
\* whatever the other threads do to the fields HaveLock reads.
LockIsReleased == \A t \in Threads : (mutex = t) ~> (mutex # t)
=============================================================================
