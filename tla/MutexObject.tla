----------------------------- MODULE MutexObject -----------------------------
(***************************************************************************)
(* What a SCXThreadLockHandle promises to the threads that share it: an    *)
(* atomic, non-recursive lock object.  Every call takes effect in one      *)
(* instant between its invocation and its return.  A call that asks for a  *)
(* lock the caller already has is refused with Held, a call that gives     *)
(* back a lock the caller does not have is refused with NotHeld, and       *)
(* HaveLock is exact for the caller, whatever the other threads do.        *)
(* Only IsLocked is weaker: it may still miss a lock of another thread.    *)
(***************************************************************************)
CONSTANTS Threads,   \* the threads that share the lock
          NoThread   \* "nobody"

Ops == {"Lock", "Unlock", "TryLock", "HaveLock", "IsLocked", "Destroy"}
Replies == {"ok", "busy", "true", "false", "Held", "NotHeld"}

VARIABLES holder,    \* the thread that has the lock, or NoThread
          call,      \* call[t]: "idle", the operation t waits for, or "done"
          answer     \* answer[t]: what t's call returns once it is done

mvars == <<holder, call, answer>>

MInit == /\ holder = NoThread
         /\ call = [t \in Threads |-> "idle"]
         /\ answer = [t \in Threads |-> "none"]

Invoke(t, o) == /\ call[t] = "idle"
                /\ call' = [call EXCEPT ![t] = o]
                /\ UNCHANGED <<holder, answer>>

Reply(t, r) == /\ call' = [call EXCEPT ![t] = "done"]
               /\ answer' = [answer EXCEPT ![t] = r]

\* The lock is handed to t, which must not already have it.
Grant(t) == /\ call[t] \in {"Lock", "TryLock"}
            /\ holder = NoThread
            /\ holder' = t
            /\ Reply(t, "ok")

\* TryLock never waits: it may say busy, but only if someone has the lock.
Busy(t) == /\ call[t] = "TryLock"
           /\ holder \notin {NoThread, t}
           /\ Reply(t, "busy")
           /\ UNCHANGED holder

RefuseHeld(t) == /\ call[t] \in {"Lock", "TryLock"}
                 /\ holder = t
                 /\ Reply(t, "Held")
                 /\ UNCHANGED holder

GiveBack(t) == /\ call[t] = "Unlock"
               /\ holder = t
               /\ holder' = NoThread
               /\ Reply(t, "ok")

RefuseNotHeld(t) == /\ call[t] = "Unlock"
                    /\ holder # t
                    /\ Reply(t, "NotHeld")
                    /\ UNCHANGED holder

TellHaveLock(t) == /\ call[t] = "HaveLock"
                   /\ Reply(t, IF holder = t THEN "true" ELSE "false")
                   /\ UNCHANGED holder

\* "true" only while somebody has the lock, and always "true" for the holder.
TellIsLocked(t) == /\ call[t] = "IsLocked"
                   /\ \/ holder # NoThread /\ Reply(t, "true")
                      \/ holder # t /\ Reply(t, "false")
                   /\ UNCHANGED holder

\* The end of a scope: a lock the thread has is given back, any other is left.
EndScope(t) == /\ call[t] = "Destroy"
               /\ \/ /\ holder = t
                     /\ call' = [call EXCEPT ![t] = "Unlock"]
                     /\ UNCHANGED answer
                  \/ holder # t /\ Reply(t, "ok")
               /\ UNCHANGED holder

Leave(t) == /\ call[t] = "done"
            /\ call' = [call EXCEPT ![t] = "idle"]
            /\ answer' = [answer EXCEPT ![t] = "none"]
            /\ UNCHANGED holder

MNext == \E t \in Threads :
            \/ \E o \in Ops : Invoke(t, o)
            \/ Grant(t) \/ Busy(t) \/ RefuseHeld(t)
            \/ GiveBack(t) \/ RefuseNotHeld(t)
            \/ TellHaveLock(t) \/ TellIsLocked(t) \/ EndScope(t)
            \/ Leave(t)

MSpec == MInit /\ [][MNext]_mvars
=============================================================================
