--------------------------- MODULE ProviderLifecycle ---------------------------
(***************************************************************************)
(* The life of a provider: SingleProvider<T> (cmpibase.h), which holds the *)
(* only instance of a provider class, and BaseProvider (cmpibase.cpp),     *)
(* which runs its Do methods under the provider lock.  DoInit and          *)
(* DoCleanup are those of ProcessProvider.                                 *)
(*                                                                         *)
(* The environment is the CIM server.  It has two interfaces (MIs) to the  *)
(* same instance and creates each at its first use; creating and unloading *)
(* are serialised (the variables of the "server" here), requests are not.  *)
(* An idle provider is unloaded; at shutdown the server may lose patience  *)
(* and clean up with requests still running (Forced).                      *)
(***************************************************************************)
CONSTANTS Requesters,    \* threads of the server that execute requests
          AllowUnload,   \* m_allowUnload (only RunAsProvider enables it)
          SendsInstance, \* SupportsSendInstance() (only ProcessProvider)
          MayThrow,      \* which of the Do methods may throw
          Forced,        \* may the server clean up under running requests?
          Addresses,     \* where an instance of the provider class can be
          Null           \* the null pointer

ASSUME ConstantsAssumption ==
  /\ {"server", "nobody"} \cap Requesters = {}
  /\ Null \notin Addresses
  /\ AllowUnload \in BOOLEAN /\ SendsInstance \in BOOLEAN /\ Forced \in BOOLEAN
  /\ MayThrow \subseteq {"init", "do", "cleanup"}

VARIABLES inst,     \* SingleProvider::inst
          obj,      \* the instances, by address
          mi,       \* the interfaces the server has
          sp,       \* where the server is in creating or unloading
          job,      \* what for: the interface, terminate flag, status so far
          rp,       \* rp[r]: where the request of r is
          via,      \* via[r]: the interface it came through
          ptr       \* ptr[r]: the instance it works on

server == <<mi, sp, job>>
requests == <<rp, via, ptr>>
vars == <<inst, obj, server, requests>>

MIs == {"instance", "method"}
Threads == Requesters \cup {"server"}

New == [alive |-> TRUE, broker |-> FALSE, initDone |-> FALSE,
        cleanupDone |-> FALSE, classes |-> FALSE, res |-> FALSE,
        lock |-> "nobody", result |-> "nobody"]

Init == /\ inst = Null
        /\ obj = [a \in Addresses |-> [New EXCEPT !.alive = FALSE]]
        /\ mi = {}
        /\ sp = "idle"
        /\ job = [mi |-> "instance", term |-> FALSE, status |-> "OK"]
        /\ rp = [r \in Requesters |-> "idle"]
        /\ via = [r \in Requesters |-> "instance"]
        /\ ptr = [r \in Requesters |-> Null]

-----------------------------------------------------------------------------
\* GetSingleInstance, under the lock of the singleton: creates the instance if
\* there is none.  Memory a request still points to is not used again.
GetSingleInstance ==
  \/ inst # Null /\ inst' = inst /\ obj' = obj
  \/ /\ inst = Null
     /\ \E a \in Addresses :
          /\ ~obj[a].alive
          /\ \A r \in Requesters : ptr[r] # a
          /\ inst' = a
          /\ obj' = [obj EXCEPT ![a] = New]

ServerGoes(from, to) == sp = from /\ sp' = to
RequestGoes(r, from, to) == rp[r] = from /\ rp' = [rp EXCEPT ![r] = to]
RequestEnds(r, from) == /\ RequestGoes(r, from, "idle")
                        /\ ptr' = [ptr EXCEPT ![r] = Null]
SingletonKept == UNCHANGED inst

-----------------------------------------------------------------------------
(* Create_InstanceMI and Create_MethodMI.                                  *)

\* The server creates an interface it does not have.
CreateMI(k) == /\ ServerGoes("idle", "broker")
               /\ k \notin mi
               /\ GetSingleInstance
               /\ job' = [mi |-> k, term |-> FALSE, status |-> "OK"]
               /\ UNCHANGED <<mi, requests>>

SetBroker == /\ ServerGoes("broker", "init")
             /\ obj' = [obj EXCEPT ![inst].broker = TRUE]
             /\ UNCHANGED <<mi, job, requests>> /\ SingletonKept

\* Init: DoInit, unless an earlier Init got through it.
LockInit == /\ sp = "init"
            /\ obj[inst].lock = "nobody"
            /\ IF obj[inst].initDone
                 THEN /\ sp' = "idle"
                      /\ mi' = mi \cup {job.mi}
                      /\ UNCHANGED obj
                 ELSE /\ sp' = "doinit"
                      /\ obj' = [obj EXCEPT ![inst].lock = "server"]
                      /\ UNCHANGED mi
            /\ UNCHANGED <<job, requests>> /\ SingletonKept

\* DoInit creates the enumeration; what is left of an earlier attempt is cleaned
\* up first (capabilities included), after an assertion.
DoInit == /\ ServerGoes("doinit", "register")
          /\ obj' = [obj EXCEPT ![inst].res = TRUE,
                                ![inst].classes = @ /\ ~obj[inst].res]
          /\ UNCHANGED <<mi, job, requests>> /\ SingletonKept

\* Init of the enumeration throws: nothing is registered, and Init swallows it.
DoInitThrows == /\ "init" \in MayThrow
                /\ ServerGoes("register", "idle")
                /\ mi' = mi \cup {job.mi}
                /\ obj' = [obj EXCEPT ![inst].lock = "nobody"]
                /\ UNCHANGED <<job, requests>> /\ SingletonKept

\* The end of DoInit: RegisterCimClass; then m_initDone.
Register == /\ ServerGoes("register", "idle")
            /\ mi' = mi \cup {job.mi}
            /\ obj' = [obj EXCEPT ![inst].classes = TRUE,
                                  ![inst].initDone = TRUE,
                                  ![inst].lock = "nobody"]
            /\ UNCHANGED <<job, requests>> /\ SingletonKept

-----------------------------------------------------------------------------
(* Requests: EnumInstanceNames and EnumInstances through the instance      *)
(* interface, InvokeMethod through the method interface.                   *)

Quiet == \A r \in Requesters : rp[r] = "idle"
Unloading == sp \in {"test", "lock", "docleanup", "delete", "null"}

\* The C entry point: GetSingleInstance.  The server does not begin a request
\* while it unloads, nor through an interface it does not have.
BeginRequest(r, k) == /\ RequestGoes(r, "idle", "check")
                      /\ k \in mi
                      /\ ~Unloading
                      /\ GetSingleInstance
                      /\ via' = [via EXCEPT ![r] = k]
                      /\ ptr' = [ptr EXCEPT ![r] = inst']
                      /\ UNCHANGED server

\* Mutant: nobody asks for the classes.
CheckClassSupport_Not(r) ==
  /\ RequestGoes(r, "check", "lock")
  /\ UNCHANGED <<obj, server, via, ptr>> /\ SingletonKept

\* CheckClassSupport looks at the capabilities without the provider lock.
CheckClassSupport(r) ==
  /\ rp[r] = "check"
  /\ IF obj[ptr[r]].classes THEN RequestGoes(r, "check", "lock") /\ UNCHANGED ptr
                            ELSE RequestEnds(r, "check")
  /\ UNCHANGED <<obj, server, via>> /\ SingletonKept

\* m_result is set up under the lock for an enumeration that sends its
\* instances one by one.
LockRequest(r) ==
  /\ RequestGoes(r, "lock", "do")
  /\ obj[ptr[r]].lock = "nobody"
  /\ obj' = [obj EXCEPT ![ptr[r]].lock = r,
                        ![ptr[r]].result =
                           IF via[r] = "instance" /\ SendsInstance THEN r ELSE @]
  /\ UNCHANGED <<server, via, ptr>> /\ SingletonKept

\* Mutant: the scoped lock is not given up when the Do method throws.
DoThrows_Locked(r) == /\ "do" \in MayThrow
                      /\ RequestEnds(r, "do")
                      /\ UNCHANGED <<obj, server, via>> /\ SingletonKept

\* The Do method throws: the scoped lock is released, m_result stays.
DoThrows(r) == /\ "do" \in MayThrow
               /\ RequestEnds(r, "do")
               /\ obj' = [obj EXCEPT ![ptr[r]].lock = "nobody"]
               /\ UNCHANGED <<server, via>> /\ SingletonKept

\* It returns: an enumeration resets m_result, and the lock is released.
DoReturns(r) ==
  /\ RequestGoes(r, "do", "convert")
  /\ obj' = [obj EXCEPT ![ptr[r]].lock = "nobody",
                        ![ptr[r]].result =
                           IF via[r] = "instance" THEN "nobody" ELSE @]
  /\ UNCHANGED <<server, via, ptr>> /\ SingletonKept

\* What was collected is converted, with m_broker, and returned.
Convert(r) == /\ RequestEnds(r, "convert")
              /\ UNCHANGED <<obj, server, via>> /\ SingletonKept

-----------------------------------------------------------------------------
(* Unloading: cleanup of every interface the server has, one by one.       *)

First(ks) == IF "instance" \in ks THEN "instance" ELSE "method"

\* Mutant: the server unloads whatever goes on.
BeginUnload_Busy(term) ==
  /\ ServerGoes("idle", "test")
  /\ mi # {}
  /\ job' = [mi |-> First(mi), term |-> term, status |-> "OK"]
  /\ UNCHANGED <<obj, mi, requests>> /\ SingletonKept

BeginUnload(term) ==
  /\ ServerGoes("idle", "test")
  /\ mi # {}
  /\ Quiet \/ (Forced /\ term)
  /\ job' = [mi |-> First(mi), term |-> term, status |-> "OK"]
  /\ UNCHANGED <<obj, mi, requests>> /\ SingletonKept

\* The cleanup function of an interface returns rc.  The server keeps the first
\* error, goes on with the other interface, and forgets both if all went well.
Returns(rc) ==
  LET status == IF job.status = "OK" THEN rc ELSE job.status
  IN IF job.mi = "instance" /\ "method" \in mi
       THEN /\ sp' = "test"
            /\ job' = [job EXCEPT !.mi = "method", !.status = status]
            /\ UNCHANGED mi
       ELSE /\ sp' = "idle"
            /\ job' = [job EXCEPT !.status = status]
            /\ mi' = IF status = "OK" THEN {} ELSE mi

\* SingleProvider::Cleanup and MethodCleanup: nothing to do without an instance.
TestInstance == /\ sp = "test"
                /\ IF inst = Null THEN Returns("OK")
                   ELSE sp' = "lock" /\ UNCHANGED <<mi, job>>
                /\ UNCHANGED <<obj, requests>> /\ SingletonKept

LockCleanup ==
  /\ sp = "lock"
  /\ obj[inst].lock = "nobody"
  /\ IF ~job.term /\ ~AllowUnload
       THEN Returns("DO_NOT_UNLOAD") /\ UNCHANGED obj
       ELSE /\ UNCHANGED <<mi, job>>
            /\ IF obj[inst].cleanupDone
                 THEN sp' = "delete" /\ UNCHANGED obj
                 ELSE /\ sp' = "docleanup"
                      /\ obj' = [obj EXCEPT ![inst].lock = "server"]
  /\ UNCHANGED requests /\ SingletonKept

DoCleanup == /\ ServerGoes("docleanup", "delete")
             /\ obj' = [obj EXCEPT ![inst].classes = FALSE,
                                   ![inst].res = FALSE,
                                   ![inst].cleanupDone = TRUE,
                                   ![inst].lock = "nobody"]
             /\ UNCHANGED <<mi, job, requests>> /\ SingletonKept

\* CleanUp of the enumeration throws; the capabilities are gone already.
DoCleanupThrows == /\ "cleanup" \in MayThrow
                   /\ sp = "docleanup"
                   /\ Returns("ERR_FAILED")
                   /\ obj' = [obj EXCEPT ![inst].classes = FALSE,
                                         ![inst].lock = "nobody"]
                   /\ UNCHANGED requests /\ SingletonKept

\* RemoveSingleInstance, without the lock of the singleton: delete, then NULL.
Delete == /\ ServerGoes("delete", "null")
          /\ obj' = [obj EXCEPT ![inst].alive = FALSE]
          /\ UNCHANGED <<mi, job, requests>> /\ SingletonKept

\* Mutant: inst is not reset.
Forget_Not == /\ sp = "null"
              /\ Returns("OK")
              /\ UNCHANGED <<obj, requests>> /\ SingletonKept

Forget == /\ sp = "null"
          /\ inst' = Null
          /\ Returns("OK")
          /\ UNCHANGED <<obj, requests>>

-----------------------------------------------------------------------------
ServerStep == \/ SetBroker \/ LockInit \/ DoInit \/ DoInitThrows \/ Register
              \/ TestInstance \/ LockCleanup \/ DoCleanup \/ DoCleanupThrows
              \/ Delete \/ Forget
RequestStep(r) == \/ CheckClassSupport(r) \/ DoThrows(r)
                  \/ DoReturns(r) \/ Convert(r)

Next == \/ ServerStep
        \/ \E k \in MIs : CreateMI(k)
        \/ \E term \in BOOLEAN : BeginUnload(term)
        \/ \E r \in Requesters : \/ RequestStep(r) \/ LockRequest(r)
                                 \/ \E k \in MIs : BeginRequest(r, k)

Spec == Init /\ [][Next]_vars

\* Threads are scheduled, and a mutex that is free again and again is had.
FairSpec == /\ Spec
            /\ SF_vars(ServerStep)
            /\ \A r \in Requesters : WF_vars(RequestStep(r)) /\ SF_vars(LockRequest(r))

-----------------------------------------------------------------------------
Instances == [alive: BOOLEAN, broker: BOOLEAN, initDone: BOOLEAN,
              cleanupDone: BOOLEAN, classes: BOOLEAN, res: BOOLEAN,
              lock: Threads \cup {"nobody"}, result: Requesters \cup {"nobody"}]

TypeOK == /\ inst \in Addresses \cup {Null}
          /\ obj \in [Addresses -> Instances]
          /\ mi \subseteq MIs
          /\ sp \in {"idle", "broker", "init", "doinit", "register", "test", "lock",
                     "docleanup", "delete", "null"}
          /\ job \in [mi: MIs, term: BOOLEAN,
                      status: {"OK", "DO_NOT_UNLOAD", "ERR_FAILED"}]
          /\ rp \in [Requesters -> {"idle", "check", "lock", "do", "convert"}]
          /\ via \in [Requesters -> MIs]
          /\ ptr \in [Requesters -> Addresses \cup {Null}]

\* The provider lock is had exactly by who is in a Do method of the instance:
\* no two of them ever run at once, whichever interface the requests come
\* through, and nobody leaves one with the lock.
LockIsInDo ==
  /\ \A r \in Requesters : rp[r] = "do" => obj[ptr[r]].lock = r
  /\ sp \in {"doinit", "register", "docleanup"} => obj[inst].lock = "server"
  /\ \A a \in Addresses, t \in Threads : obj[a].lock = t =>
       \/ t = "server" /\ sp \in {"doinit", "register", "docleanup"} /\ inst = a
       \/ t \in Requesters /\ rp[t] = "do" /\ ptr[t] = a

\* An instance a request sends goes to the result handle of that very request,
\* although m_result is one field for all of them and may be stale.
SendsToOwnRequest == \A r \in Requesters :
  rp[r] = "do" /\ via[r] = "instance" /\ SendsInstance => obj[ptr[r]].result = r

\* A request works on an instance that exists, and it is the only one there is:
\* neither the unlocked RemoveSingleInstance nor a second interface leaves a
\* pointer behind.
NoUseAfterDelete ==
  /\ \A r \in Requesters : rp[r] # "idle" => obj[ptr[r]].alive /\ ptr[r] = inst
  /\ \A a \in Addresses : obj[a].alive => a = inst

\* What a Do method, and the conversion of what it collected, rely on.
Prepared(a) == obj[a].res /\ obj[a].broker

\* A request that gets as far as a Do method finds an enumeration and the broker
\* there, although it asked for the classes before it had the lock.  A DoCleanup
\* that throws for one interface only leaves the server with both and the next
\* request with a new instance, which nobody initialises or tells the broker
\* ("set up during provider init call from the MB", cmpibase.h): that instance
\* refuses every request.
DoIsPrepared == \A r \in Requesters : rp[r] = "do" => Prepared(ptr[r])

\* Who has a pointer to an instance.
PointersKnown ==
  /\ sp \notin {"idle", "test"} => inst # Null
  /\ \A r \in Requesters : rp[r] = "idle" <=> ptr[r] = Null
  /\ inst # Null => (obj[inst].alive <=> sp # "null")
  /\ sp \in {"init", "doinit", "register"} => obj[inst].broker

\* The classes of an instance are registered only while it has its enumeration,
\* and the broker.
ClassesArePrepared == \A a \in Addresses : obj[a].classes => Prepared(a)

\* What holds because the server lets the requests finish before it unloads.
Undisturbed == ~Forced =>
  /\ Unloading => Quiet
  /\ NoUseAfterDelete
  /\ \A r \in Requesters : rp[r] \in {"lock", "do"} => Prepared(ptr[r])

\* The inductive invariant.
IInv == /\ TypeOK /\ PointersKnown /\ LockIsInDo /\ SendsToOwnRequest
        /\ ClassesArePrepared /\ Undisturbed

\* Requests come back: no lock of the provider is ever left behind.
RequestsReturn == \A r \in Requesters : (rp[r] # "idle") ~> (rp[r] = "idle")
=============================================================================
