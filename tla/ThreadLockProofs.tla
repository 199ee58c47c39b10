--------------------------- MODULE ThreadLockProofs ---------------------------
(***************************************************************************)
(* For any number of threads: the unlocked reads of m_lockCount and        *)
(* m_threadID in SCXThreadLockHandle never mislead a thread about itself,  *)
(* and the handle implements the atomic lock object of MutexObject.        *)
(***************************************************************************)
EXTENDS ThreadLock, TLAPS

LEMMA InitIInv == Init => IInv
<1> SUFFICES ASSUME Init PROVE IInv
  OBVIOUS
<1> USE DEF Init
<1>1. TypeOK
  BY DEF TypeOK, PCs
<1>2. OnlyOwnerWrites
  BY DEF OnlyOwnerWrites, InCritical
<1>3. NoSelfDeadlock
  BY DEF NoSelfDeadlock
<1>4. OwnershipRecorded
  BY ThreadsAssumption DEF OwnershipRecorded
<1>5. OpAtPC
  BY DEF OpAtPC
<1> QED
  BY <1>1, <1>2, <1>3, <1>4, <1>5 DEF IInv

\* Every action of the module preserves the inductive invariant.
LEMMA StepIInv ==
  ASSUME IInv, NEW t \in Threads, Step(t) \/ \E o \in Ops : Call(t, o)
  PROVE  IInv'
<1> USE ThreadsAssumption DEF IInv, TypeOK, OnlyOwnerWrites, NoSelfDeadlock,
        OwnershipRecorded, OpAtPC, InCritical, Goto, Finish, fields, PCs, Ops, Replies
<1>1. CASE \E o \in Ops : Call(t, o)
  BY <1>1 DEF Call
<1>2. CASE ReadCount(t)
  BY <1>2 DEF ReadCount, AfterHaveLock
<1>3. CASE ReadId(t)
  BY <1>3 DEF ReadId, AfterHaveLock
<1>4. CASE Acquire(t)
  BY <1>4 DEF Acquire
<1>5. CASE TryAcquire(t)
  BY <1>5 DEF TryAcquire
<1>6. CASE Increment(t)
  BY <1>6 DEF Increment
<1>7. CASE SetId(t)
  BY <1>7 DEF SetId
<1>8. CASE ClearId(t)
  BY <1>8 DEF ClearId
<1>9. CASE Decrement(t)
  BY <1>9 DEF Decrement
<1>10. CASE Release(t)
  BY <1>10 DEF Release
<1>11. CASE Return(t)
  BY <1>11 DEF Return
<1> QED
  BY <1>1, <1>2, <1>3, <1>4, <1>5, <1>6, <1>7, <1>8, <1>9, <1>10, <1>11 DEF Step

LEMMA NextIInv == IInv /\ [Next]_vars => IInv'
<1> SUFFICES ASSUME IInv, [Next]_vars PROVE IInv'
  OBVIOUS
<1>1. CASE Next
  BY <1>1, StepIInv DEF Next
<1>2. CASE UNCHANGED vars
  BY <1>2 DEF vars, IInv, TypeOK, OnlyOwnerWrites, NoSelfDeadlock,
              OwnershipRecorded, OpAtPC, InCritical
<1> QED
  BY <1>1, <1>2

\* The inductive invariant: the fields tell how far the owner has come.
THEOREM LockInvariant == Spec => []IInv
<1> QED
  BY InitIInv, NextIInv, PTL DEF Spec

\* The fields and the control state keep their types.
THEOREM TypeCorrect == Spec => []TypeOK
<1>1. IInv => TypeOK
  BY DEF IInv
<1> QED
  BY <1>1, LockInvariant, PTL

\* Only the owner of the native mutex is ever inside Lock's, TryLock's or
\* Unlock's critical statements: two threads are never there together.
THEOREM MutualExclusion == Spec => []OnlyOwnerWrites
<1>1. IInv => OnlyOwnerWrites
  BY DEF IInv
<1> QED
  BY <1>1, LockInvariant, PTL

\* No thread ever waits for a native mutex that it owns itself.
THEOREM SelfDeadlockFreedom == Spec => []NoSelfDeadlock
<1>1. IInv => NoSelfDeadlock
  BY DEF IInv
<1> QED
  BY <1>1, LockInvariant, PTL

\* HaveLock's unlocked comparison of thread ids succeeds for the owner only.
THEOREM HaveLockIsSound == Spec => []IdMatchIsOwnership
<1>1. IInv => IdMatchIsOwnership
  BY ThreadsAssumption
     DEF IInv, TypeOK, OwnershipRecorded, IdMatchIsOwnership
<1> QED
  BY <1>1, LockInvariant, PTL

-----------------------------------------------------------------------------
LEMMA InitRefines == Init => MO!MInit
  BY DEF Init, MO!MInit, AbsCall, AbsAnswer

\* Finishing an operation is replying to the caller of the lock object.
LEMMA FinishIsReply ==
  ASSUME TypeOK, NEW t \in Threads, NEW r \in Replies, Finish(t, r), UNCHANGED op
  PROVE  MO!Reply(t, r)
<1>1. AbsCall' = [AbsCall EXCEPT ![t] = "done"]
  BY DEF TypeOK, Finish, Goto, AbsCall
<1>2. AbsAnswer' = [AbsAnswer EXCEPT ![t] = r]
  BY DEF TypeOK, Finish, Goto, AbsAnswer
<1> QED
  BY <1>1, <1>2 DEF MO!Reply

\* The reply is settled as soon as the mutex is acquired.
LEMMA AcquireIsReply ==
  ASSUME TypeOK, NEW t \in Threads, Goto(t, "inc"), UNCHANGED <<op, reply>>
  PROVE  MO!Reply(t, "ok")
<1>1. AbsCall' = [AbsCall EXCEPT ![t] = "done"]
  BY DEF TypeOK, Goto, AbsCall
<1>2. AbsAnswer' = [AbsAnswer EXCEPT ![t] = "ok"]
  BY DEF TypeOK, Goto, AbsAnswer
<1> QED
  BY <1>1, <1>2 DEF MO!Reply

\* Moving between statements that the mapping does not tell apart is invisible.
LEMMA MoveIsSilent ==
  ASSUME TypeOK, NEW t \in Threads, NEW l \in PCs, Goto(t, l),
         UNCHANGED <<mutex, op, reply>>,
         \/ {pc[t], l} \cap {"idle", "inc", "setid", "return"} = {}
         \/ pc[t] = "inc" /\ l = "setid"
  PROVE  UNCHANGED MO!mvars
<1>1. AbsCall' = AbsCall
  BY DEF TypeOK, Goto, AbsCall
<1>2. AbsAnswer' = AbsAnswer
  BY DEF TypeOK, Goto, AbsAnswer
<1> QED
  BY <1>1, <1>2 DEF MO!mvars

\* Every step of the handle is a step of the lock object or leaves it alone.
LEMMA StepRefines ==
  ASSUME IInv, NEW t \in Threads, Step(t) \/ \E o \in Ops : Call(t, o)
  PROVE  [MO!MNext]_(MO!mvars)
<1> USE DEF IInv, fields
<1>1. pc[t] \notin {"idle", "inc", "setid", "return"} => AbsCall[t] = op[t]
  BY DEF AbsCall
\* The step after a HaveLock that said `have', which is the truth about t.
<1>2. ASSUME NEW have \in BOOLEAN, AfterHaveLock(t, have), have = (mutex = t),
             pc[t] \in {"count", "id"}, UNCHANGED fields
      PROVE  MO!MNext \/ UNCHANGED MO!mvars
  <2>1. CASE op[t] = "HaveLock"
    <3>1. MO!Reply(t, IF mutex = t THEN "true" ELSE "false")
      BY <1>2, <2>1, FinishIsReply DEF AfterHaveLock, Replies
    <3>2. MO!TellHaveLock(t)
      BY <1>1, <1>2, <2>1, <3>1 DEF MO!TellHaveLock
    <3> QED
      BY <3>2 DEF MO!MNext
  <2>2. CASE op[t] \in {"Lock", "TryLock"} /\ have
    <3>1. MO!Reply(t, "Held")
      BY <1>2, <2>2, FinishIsReply DEF AfterHaveLock, Replies
    <3>2. MO!RefuseHeld(t)
      BY <1>1, <1>2, <2>2, <3>1 DEF MO!RefuseHeld
    <3> QED
      BY <3>2 DEF MO!MNext
  <2>3. CASE op[t] = "Unlock" /\ ~have
    <3>1. MO!Reply(t, "NotHeld")
      BY <1>2, <2>3, FinishIsReply DEF AfterHaveLock, Replies
    <3>2. MO!RefuseNotHeld(t)
      BY <1>1, <1>2, <2>3, <3>1 DEF MO!RefuseNotHeld
    <3> QED
      BY <3>2 DEF MO!MNext
  <2>4. CASE op[t] = "Destroy" /\ ~have
    <3>1. MO!Reply(t, "ok")
      BY <1>2, <2>4, FinishIsReply DEF AfterHaveLock, Replies
    <3>2. MO!EndScope(t)
      BY <1>1, <1>2, <2>4, <3>1 DEF MO!EndScope
    <3> QED
      BY <3>2 DEF MO!MNext
  <2>5. CASE op[t] = "Destroy" /\ have
    <3>1. op' = [op EXCEPT ![t] = "Unlock"] /\ Goto(t, "count") /\ UNCHANGED reply
      BY <1>2, <2>5 DEF AfterHaveLock
    <3>2. AbsCall' = [AbsCall EXCEPT ![t] = "Unlock"] /\ AbsAnswer' = AbsAnswer
      BY <1>2, <3>1 DEF TypeOK, Goto, AbsCall, AbsAnswer
    <3>3. MO!EndScope(t)
      BY <1>1, <1>2, <2>5, <3>2 DEF MO!EndScope
    <3> QED
      BY <3>3 DEF MO!MNext
  <2>6. CASE op[t] \in {"Lock", "TryLock"} /\ ~have
    BY <1>2, <2>6, MoveIsSilent DEF AfterHaveLock, PCs
  <2>7. CASE op[t] = "Unlock" /\ have
    BY <1>2, <2>7, MoveIsSilent DEF AfterHaveLock, PCs
  <2> QED
    BY <1>2, <2>1, <2>2, <2>3, <2>4, <2>5, <2>6, <2>7 DEF AfterHaveLock
<1>3. CASE \E o \in Ops : Call(t, o)
  <2>1. PICK o \in Ops : Call(t, o)
    BY <1>3
  <2>2. AbsCall[t] = "idle" /\ AbsCall' = [AbsCall EXCEPT ![t] = o] /\ AbsAnswer' = AbsAnswer
    BY <2>1 DEF Call, TypeOK, Goto, AbsCall, AbsAnswer
  <2>3. MO!Invoke(t, o)
    BY <2>1, <2>2 DEF Call, MO!Invoke
  <2> QED
    BY <2>3 DEF MO!MNext, MO!Ops, Ops
<1>4. CASE ReadCount(t)
  <2>1. CASE op[t] = "IsLocked"
    <3>1. MO!Reply(t, IF lockCount > 0 THEN "true" ELSE "false")
      BY <1>4, <2>1, FinishIsReply DEF ReadCount, Replies
    <3>2. (lockCount > 0 => mutex # NoThread) /\ (mutex = t => lockCount > 0)
      BY <1>4 DEF ReadCount, OwnershipRecorded
    <3>3. MO!TellIsLocked(t)
      BY <1>1, <1>4, <2>1, <3>1, <3>2 DEF ReadCount, MO!TellIsLocked
    <3> QED
      BY <3>3 DEF MO!MNext
  <2>2. CASE op[t] # "IsLocked" /\ lockCount > 0
    BY <1>4, <2>2, MoveIsSilent DEF ReadCount, PCs
  <2>3. CASE op[t] # "IsLocked" /\ ~(lockCount > 0)
    <3>1. mutex # t
      BY <1>4, <2>3 DEF ReadCount, OwnershipRecorded
    <3> QED
      BY <1>2, <1>4, <2>3, <3>1 DEF ReadCount
  <2> QED
    BY <2>1, <2>2, <2>3
<1>5. CASE ReadId(t)
  <2>1. (threadID = t) = (mutex = t)
    BY <1>5, ThreadsAssumption DEF ReadId, TypeOK, OwnershipRecorded
  <2> QED
    BY <1>2, <1>5, <2>1 DEF ReadId
<1>6. CASE Acquire(t)
  <2>1. AbsCall[t] = "Lock" /\ MO!Reply(t, "ok")
    BY <1>1, <1>6, AcquireIsReply DEF Acquire, OpAtPC
  <2>2. MO!Grant(t)
    BY <1>6, <2>1 DEF Acquire, MO!Grant
  <2> QED
    BY <2>2 DEF MO!MNext
<1>7. CASE TryAcquire(t)
  <2>1. AbsCall[t] = "TryLock"
    BY <1>1, <1>7 DEF TryAcquire, OpAtPC
  <2>2. CASE mutex = NoThread
    <3>1. MO!Grant(t)
      BY <1>7, <2>1, <2>2, AcquireIsReply DEF TryAcquire, MO!Grant
    <3> QED
      BY <3>1 DEF MO!MNext
  <2>3. CASE mutex # NoThread
    <3>1. MO!Busy(t)
      BY <1>7, <2>1, <2>3, FinishIsReply
         DEF TryAcquire, NoSelfDeadlock, MO!Busy, Replies
    <3> QED
      BY <3>1 DEF MO!MNext
  <2> QED
    BY <2>2, <2>3
<1>8. CASE Increment(t) \/ ClearId(t) \/ Decrement(t)
  BY <1>8, MoveIsSilent DEF Increment, ClearId, Decrement, PCs
<1>9. CASE SetId(t)
  <2>1. AbsCall' = AbsCall /\ AbsAnswer' = AbsAnswer
    BY <1>9 DEF SetId, Finish, Goto, TypeOK, AbsCall, AbsAnswer
  <2> QED
    BY <1>9, <2>1 DEF SetId, MO!mvars
<1>10. CASE Release(t)
  <2>1. AbsCall[t] = "Unlock" /\ MO!Reply(t, "ok")
    BY <1>1, <1>10, FinishIsReply DEF Release, OpAtPC, Replies
  <2>2. MO!GiveBack(t)
    BY <1>10, <2>1 DEF Release, MO!GiveBack, OnlyOwnerWrites, InCritical
  <2> QED
    BY <2>2 DEF MO!MNext
<1>11. CASE Return(t)
  <2>1. /\ AbsCall[t] = "done"
        /\ AbsCall' = [AbsCall EXCEPT ![t] = "idle"]
        /\ AbsAnswer' = [AbsAnswer EXCEPT ![t] = "none"]
    BY <1>11 DEF Return, Goto, TypeOK, AbsCall, AbsAnswer
  <2>2. MO!Leave(t)
    BY <1>11, <2>1 DEF Return, MO!Leave
  <2> QED
    BY <2>2 DEF MO!MNext
<1> QED
  BY <1>3, <1>4, <1>5, <1>6, <1>7, <1>8, <1>9, <1>10, <1>11 DEF Step

\* The handle, with all its unlocked reads, implements the atomic lock object:
\* whatever is proved of code that uses the one holds for code that uses the other.
THEOREM HandleImplementsMutexObject == Spec => ImplementsMutexObject
<1>1. IInv /\ [Next]_vars => [MO!MNext]_(MO!mvars)
  <2> SUFFICES ASSUME IInv, [Next]_vars PROVE [MO!MNext]_(MO!mvars)
    OBVIOUS
  <2>1. CASE Next
    BY <2>1, StepRefines DEF Next
  <2>2. CASE UNCHANGED vars
    BY <2>2 DEF vars, MO!mvars, AbsCall, AbsAnswer
  <2> QED
    BY <2>1, <2>2
<1> QED
  BY <1>1, InitRefines, LockInvariant, PTL DEF Spec, ImplementsMutexObject, MO!MSpec
=============================================================================
