------------------------ MODULE ProviderLifecycleProofs ------------------------
(***************************************************************************)
(* Safety of the provider's life for any number of requests, for every     *)
(* choice of which Do methods throw, whether the provider may be unloaded  *)
(* and - where a theorem does not say otherwise - whether the server waits *)
(* for its requests.  The argument: the provider lock tells who is in a Do *)
(* method (LockIsInDo); the server's variables tell whether the singleton  *)
(* exists (PointersKnown); and a server that lets the requests finish      *)
(* leaves none behind when it cleans up (Undisturbed).                     *)
(***************************************************************************)
EXTENDS ProviderLifecycle, TLAPS

LEMMA InitIInv == Init => IInv
<1> SUFFICES ASSUME Init PROVE IInv
  OBVIOUS
<1>1. [New EXCEPT !.alive = FALSE] \in Instances
  BY DEF New, Instances
<1>2. obj \in [Addresses -> Instances]
  BY <1>1 DEF Init
<1>3. \A a \in Addresses : /\ ~obj[a].alive /\ ~obj[a].classes
                            /\ obj[a].lock = "nobody"
  BY DEF Init, New
<1> QED
  BY <1>2, <1>3, ConstantsAssumption DEF Init, IInv, TypeOK, Threads, MIs,
     PointersKnown, LockIsInDo, SendsToOwnRequest, ClassesArePrepared, Prepared,
     Undisturbed, NoUseAfterDelete, Unloading, Quiet

\* Of the fields the invariant speaks of SetBroker changes the broker only.
LEMMA SetBrokerIInv == ASSUME IInv, SetBroker PROVE IInv'
<1> DEFINE o == [obj[inst] EXCEPT !.broker = TRUE]
<1>1. inst \in Addresses /\ obj[inst] \in Instances
  BY DEF IInv, TypeOK, PointersKnown, ServerGoes, SetBroker
<1>2. o \in Instances /\ obj' = [obj EXCEPT ![inst] = o]
  BY <1>1 DEF IInv, TypeOK, Instances, Threads, SetBroker
<1>3. /\ obj' \in [Addresses -> Instances]
      /\ obj'[inst] = o
      /\ \A a \in Addresses : a # inst => obj'[a] = obj[a]
  BY <1>1, <1>2 DEF IInv, TypeOK
<1>4. /\ o.alive = obj[inst].alive
      /\ o.classes = obj[inst].classes
      /\ o.res = obj[inst].res
      /\ o.lock = obj[inst].lock
      /\ o.result = obj[inst].result
  BY <1>1 DEF Instances
<1> HIDE DEF o
<1> USE ConstantsAssumption DEF IInv, TypeOK, Instances, Threads, MIs,
        PointersKnown, LockIsInDo, SendsToOwnRequest, ClassesArePrepared, Prepared,
        Undisturbed, NoUseAfterDelete, Unloading, Quiet, ServerGoes,
        SingletonKept, requests, server
<1> QED
  BY <1>1, <1>3, <1>4 DEF SetBroker

\* DoInit has an enumeration before it registers the classes.
LEMMA DoInitIInv == ASSUME IInv, DoInit PROVE IInv'
<1> DEFINE o == [obj[inst] EXCEPT !.res = TRUE, !.classes = @ /\ ~obj[inst].res]
<1>1. inst \in Addresses /\ obj[inst] \in Instances
  BY DEF IInv, TypeOK, PointersKnown, ServerGoes, DoInit
<1>2. o \in Instances /\ obj' = [obj EXCEPT ![inst] = o]
  BY <1>1 DEF IInv, TypeOK, Instances, Threads, DoInit
<1>3. /\ obj' \in [Addresses -> Instances]
      /\ obj'[inst] = o
      /\ \A a \in Addresses : a # inst => obj'[a] = obj[a]
  BY <1>1, <1>2 DEF IInv, TypeOK
<1>4. /\ o.res
      /\ o.alive = obj[inst].alive
      /\ o.lock = obj[inst].lock
      /\ o.result = obj[inst].result
  BY <1>1 DEF Instances
<1> HIDE DEF o
<1> USE ConstantsAssumption DEF IInv, TypeOK, Instances, Threads, MIs,
        PointersKnown, LockIsInDo, SendsToOwnRequest, ClassesArePrepared, Prepared,
        Undisturbed, NoUseAfterDelete, Unloading, Quiet, ServerGoes,
        SingletonKept, requests, server
<1> QED
  BY <1>1, <1>3, <1>4 DEF DoInit

\* When the instance is deleted no request points to it.
LEMMA DeleteIInv == ASSUME IInv, Delete PROVE IInv'
<1> DEFINE o == [obj[inst] EXCEPT !.alive = FALSE]
<1>1. inst \in Addresses /\ obj[inst] \in Instances
  BY DEF IInv, TypeOK, PointersKnown, ServerGoes, Delete
<1>2. o \in Instances /\ obj' = [obj EXCEPT ![inst] = o]
  BY <1>1 DEF IInv, TypeOK, Instances, Threads, Delete
<1>3. /\ obj' \in [Addresses -> Instances]
      /\ obj'[inst] = o
      /\ \A a \in Addresses : a # inst => obj'[a] = obj[a]
  BY <1>1, <1>2 DEF IInv, TypeOK
<1>4. /\ ~o.alive
      /\ o.classes = obj[inst].classes
      /\ o.res = obj[inst].res
      /\ o.lock = obj[inst].lock
      /\ o.result = obj[inst].result
  BY <1>1 DEF Instances
<1> HIDE DEF o
<1> USE ConstantsAssumption DEF IInv, TypeOK, Instances, Threads, MIs,
        PointersKnown, LockIsInDo, SendsToOwnRequest, ClassesArePrepared, Prepared,
        Undisturbed, NoUseAfterDelete, Unloading, Quiet, ServerGoes,
        SingletonKept, requests, server
<1> QED
  BY <1>1, <1>3, <1>4 DEF Delete

\* DoCleanup takes the classes away together with the enumeration.
LEMMA DoCleanupIInv == ASSUME IInv, DoCleanup PROVE IInv'
<1> DEFINE o == [obj[inst] EXCEPT !.classes = FALSE, !.res = FALSE,
                            !.cleanupDone = TRUE, !.lock = "nobody"]
<1>1. inst \in Addresses /\ obj[inst] \in Instances
  BY DEF IInv, TypeOK, PointersKnown, ServerGoes, DoCleanup
<1>2. o \in Instances /\ obj' = [obj EXCEPT ![inst] = o]
  BY <1>1 DEF IInv, TypeOK, Instances, Threads, DoCleanup
<1>3. /\ obj' \in [Addresses -> Instances]
      /\ obj'[inst] = o
      /\ \A a \in Addresses : a # inst => obj'[a] = obj[a]
  BY <1>1, <1>2 DEF IInv, TypeOK
<1>4. /\ ~o.classes /\ o.lock = "nobody"
      /\ o.alive = obj[inst].alive
      /\ o.result = obj[inst].result
  BY <1>1 DEF Instances
<1> HIDE DEF o
<1> USE ConstantsAssumption DEF IInv, TypeOK, Instances, Threads, MIs,
        PointersKnown, LockIsInDo, SendsToOwnRequest, ClassesArePrepared, Prepared,
        Undisturbed, NoUseAfterDelete, Unloading, Quiet, ServerGoes,
        SingletonKept, requests, server
<1> QED
  BY <1>1, <1>3, <1>4 DEF DoCleanup

\* What the end of a cleanup function leaves the server's variables in.
LEMMA Returned ==
  ASSUME IInv, NEW rc \in {"OK", "DO_NOT_UNLOAD", "ERR_FAILED"}, Returns(rc)
  PROVE  /\ sp' \in {"test", "idle"}
         /\ mi' \subseteq MIs
         /\ job' \in [mi: MIs, term: BOOLEAN,
                      status: {"OK", "DO_NOT_UNLOAD", "ERR_FAILED"}]
<1> DEFINE status == IF job.status = "OK" THEN rc ELSE job.status
<1>1. /\ job \in [mi: MIs, term: BOOLEAN,
                   status: {"OK", "DO_NOT_UNLOAD", "ERR_FAILED"}]
      /\ mi \subseteq MIs
  BY DEF IInv, TypeOK
<1>2. status \in {"OK", "DO_NOT_UNLOAD", "ERR_FAILED"}
  BY <1>1
<1>3. CASE job.mi = "instance" /\ "method" \in mi
  <2>1. sp' = "test" /\ mi' = mi /\ job' = [job EXCEPT !.mi = "method", !.status = status]
    BY <1>3 DEF Returns
  <2> HIDE DEF status
  <2> QED
    BY <1>1, <1>2, <2>1 DEF MIs
<1>4. CASE ~(job.mi = "instance" /\ "method" \in mi)
  <2>1. sp' = "idle" /\ mi' \subseteq mi /\ job' = [job EXCEPT !.status = status]
    BY <1>4 DEF Returns
  <2> HIDE DEF status
  <2> QED
    BY <1>1, <1>2, <2>1 DEF MIs
<1> QED
  BY <1>3, <1>4

\* Every other step of the server.
LEMMA ServerIInv == ASSUME IInv, ServerStep PROVE IInv'
<1> USE ConstantsAssumption DEF IInv, TypeOK, Instances, Threads, MIs,
        PointersKnown, LockIsInDo, SendsToOwnRequest, ClassesArePrepared, Prepared,
        Undisturbed, NoUseAfterDelete, Unloading, Quiet, ServerGoes,
        SingletonKept, requests, server
<1>1. CASE LockInit
  <2>1. CASE obj[inst].initDone
    BY <1>1, <2>1 DEF LockInit
  <2>2. CASE ~obj[inst].initDone
    <3>1. /\ sp = "init" /\ sp' = "doinit"
          /\ obj[inst].lock = "nobody"
          /\ obj' = [obj EXCEPT ![inst].lock = "server"]
          /\ UNCHANGED <<mi, job, rp, via, ptr, inst>>
      BY <1>1, <2>2 DEF LockInit
    <3> QED
      BY <3>1
  <2> QED
    BY <2>1, <2>2
<1>2. CASE DoInitThrows
  BY <1>2 DEF DoInitThrows
<1>3. CASE Register
  BY <1>3 DEF Register
<1>4. CASE TestInstance
  <2>1. CASE inst = Null
    <3>1. /\ sp = "test" /\ sp' \in {"test", "idle"}
          /\ job' \in [mi: MIs, term: BOOLEAN,
                       status: {"OK", "DO_NOT_UNLOAD", "ERR_FAILED"}]
          /\ mi' \subseteq MIs
          /\ UNCHANGED <<obj, rp, via, ptr, inst>>
      <4>1. Returns("OK") /\ sp = "test" /\ UNCHANGED <<obj, rp, via, ptr, inst>>
        BY <1>4, <2>1 DEF TestInstance
      <4> HIDE DEF IInv
      <4> QED
        BY <4>1, Returned
    <3> QED
      BY <2>1, <3>1
  <2>2. CASE inst # Null
    <3>1. /\ sp = "test" /\ sp' = "lock"
          /\ UNCHANGED <<obj, mi, job, rp, via, ptr, inst>>
      BY <1>4, <2>2 DEF TestInstance
    <3> QED
      BY <2>2, <3>1
  <2> QED
    BY <2>1, <2>2
<1>5. CASE LockCleanup
  <2>1. CASE ~job.term /\ ~AllowUnload
    <3>1. /\ sp = "lock" /\ sp' \in {"test", "idle"}
          /\ job' \in [mi: MIs, term: BOOLEAN,
                       status: {"OK", "DO_NOT_UNLOAD", "ERR_FAILED"}]
          /\ mi' \subseteq MIs
          /\ UNCHANGED <<obj, rp, via, ptr, inst>>
      <4>1. /\ Returns("DO_NOT_UNLOAD") /\ sp = "lock"
            /\ UNCHANGED <<obj, rp, via, ptr, inst>>
        BY <1>5, <2>1 DEF LockCleanup
      <4> HIDE DEF IInv
      <4> QED
        BY <4>1, Returned
    <3> QED
      BY <3>1
  <2>2. CASE ~(~job.term /\ ~AllowUnload) /\ obj[inst].cleanupDone
    BY <1>5, <2>2 DEF LockCleanup
  <2>3. CASE ~(~job.term /\ ~AllowUnload) /\ ~obj[inst].cleanupDone
    <3>1. /\ sp = "lock" /\ sp' = "docleanup"
          /\ obj[inst].lock = "nobody"
          /\ obj' = [obj EXCEPT ![inst].lock = "server"]
          /\ UNCHANGED <<mi, job, rp, via, ptr, inst>>
      BY <1>5, <2>3 DEF LockCleanup
    <3> QED
      BY <3>1
  <2> QED
    BY <2>1, <2>2, <2>3
<1>6. CASE DoCleanupThrows
  <2>1. /\ sp = "docleanup" /\ sp' \in {"test", "idle"}
        /\ job' \in [mi: MIs, term: BOOLEAN,
                     status: {"OK", "DO_NOT_UNLOAD", "ERR_FAILED"}]
        /\ mi' \subseteq MIs
        /\ obj' = [obj EXCEPT ![inst].classes = FALSE, ![inst].lock = "nobody"]
        /\ UNCHANGED <<rp, via, ptr, inst>>
    <3>1. /\ Returns("ERR_FAILED") /\ sp = "docleanup"
          /\ obj' = [obj EXCEPT ![inst].classes = FALSE, ![inst].lock = "nobody"]
          /\ UNCHANGED <<rp, via, ptr, inst>>
      BY <1>6 DEF DoCleanupThrows
    <3> HIDE DEF IInv
    <3> QED
      BY <3>1, Returned
  <2> QED
    BY <2>1
<1>7. CASE Forget
  <2>1. /\ sp = "null" /\ sp' \in {"test", "idle"}
        /\ job' \in [mi: MIs, term: BOOLEAN,
                     status: {"OK", "DO_NOT_UNLOAD", "ERR_FAILED"}]
        /\ mi' \subseteq MIs
        /\ inst' = Null
        /\ UNCHANGED <<obj, rp, via, ptr>>
    <3>1. /\ Returns("OK") /\ sp = "null" /\ inst' = Null
          /\ UNCHANGED <<obj, rp, via, ptr>>
      BY <1>7 DEF Forget
    <3> HIDE DEF IInv
    <3> QED
      BY <3>1, Returned
  <2> QED
    BY <2>1
<1> QED
  BY <1>1, <1>2, <1>3, <1>4, <1>5, <1>6, <1>7, SetBrokerIInv, DoInitIInv,
     DeleteIInv, DoCleanupIInv DEF ServerStep

\* A Do method that throws gives the lock back.
LEMMA DoThrowsIInv == ASSUME IInv, NEW r \in Requesters, DoThrows(r) PROVE IInv'
<1> DEFINE o == [obj[ptr[r]] EXCEPT !.lock = "nobody"]
<1>1. ptr[r] \in Addresses /\ obj[ptr[r]] \in Instances
  BY DEF IInv, TypeOK, PointersKnown, RequestGoes, RequestEnds, DoThrows
<1>2. o \in Instances /\ obj' = [obj EXCEPT ![ptr[r]] = o]
  BY <1>1 DEF IInv, TypeOK, Instances, Threads, DoThrows
<1>3. /\ obj' \in [Addresses -> Instances]
      /\ obj'[ptr[r]] = o
      /\ \A a \in Addresses : a # ptr[r] => obj'[a] = obj[a]
  BY <1>1, <1>2 DEF IInv, TypeOK
<1>4. /\ o.lock = "nobody"
      /\ o.alive = obj[ptr[r]].alive
      /\ o.classes = obj[ptr[r]].classes
      /\ o.res = obj[ptr[r]].res
      /\ o.broker = obj[ptr[r]].broker
      /\ o.result = obj[ptr[r]].result
  BY <1>1 DEF Instances
<1>5. /\ rp[r] = "do" /\ rp' = [rp EXCEPT ![r] = "idle"]
      /\ ptr' = [ptr EXCEPT ![r] = Null]
      /\ UNCHANGED <<inst, mi, sp, job, via>>
  BY DEF DoThrows, RequestGoes, RequestEnds, SingletonKept, server
<1>6. \A q \in Requesters : rp[q] = "do" /\ ptr[q] = ptr[r] => q = r
  BY <1>5 DEF IInv, LockIsInDo
<1> HIDE DEF o
<1> USE ConstantsAssumption DEF IInv, TypeOK, Instances, Threads, MIs,
        PointersKnown, LockIsInDo, SendsToOwnRequest, ClassesArePrepared, Prepared,
        Undisturbed, NoUseAfterDelete, Unloading, Quiet
<1> QED
  BY <1>1, <1>3, <1>4, <1>5, <1>6

\* So does one that returns; it resets m_result for nobody but itself.
LEMMA DoReturnsIInv == ASSUME IInv, NEW r \in Requesters, DoReturns(r) PROVE IInv'
<1> DEFINE o == [obj[ptr[r]] EXCEPT !.lock = "nobody",
                              !.result = IF via[r] = "instance" THEN "nobody" ELSE @]
<1>1. ptr[r] \in Addresses /\ obj[ptr[r]] \in Instances
  BY DEF IInv, TypeOK, PointersKnown, RequestGoes, RequestEnds, DoReturns
<1>2. o \in Instances /\ obj' = [obj EXCEPT ![ptr[r]] = o]
  BY <1>1 DEF IInv, TypeOK, Instances, Threads, DoReturns
<1>3. /\ obj' \in [Addresses -> Instances]
      /\ obj'[ptr[r]] = o
      /\ \A a \in Addresses : a # ptr[r] => obj'[a] = obj[a]
  BY <1>1, <1>2 DEF IInv, TypeOK
<1>4. /\ o.lock = "nobody"
      /\ o.alive = obj[ptr[r]].alive
      /\ o.classes = obj[ptr[r]].classes
      /\ o.res = obj[ptr[r]].res
      /\ o.broker = obj[ptr[r]].broker
  BY <1>1 DEF Instances
<1>5. /\ rp[r] = "do" /\ rp' = [rp EXCEPT ![r] = "convert"]
      /\ ptr' = ptr
      /\ UNCHANGED <<inst, mi, sp, job, via>>
  BY DEF DoReturns, RequestGoes, RequestEnds, SingletonKept, server
<1>6. \A q \in Requesters : rp[q] = "do" /\ ptr[q] = ptr[r] => q = r
  BY <1>5 DEF IInv, LockIsInDo
<1> HIDE DEF o
<1> USE ConstantsAssumption DEF IInv, TypeOK, Instances, Threads, MIs,
        PointersKnown, LockIsInDo, SendsToOwnRequest, ClassesArePrepared, Prepared,
        Undisturbed, NoUseAfterDelete, Unloading, Quiet
<1> QED
  BY <1>1, <1>3, <1>4, <1>5, <1>6

\* A request that gets the lock is prepared already: it has seen the classes.
LEMMA LockRequestIInv == ASSUME IInv, NEW r \in Requesters, LockRequest(r) PROVE IInv'
<1> DEFINE o == [obj[ptr[r]] EXCEPT !.lock = r,
                              !.result = IF via[r] = "instance" /\ SendsInstance
                                           THEN r ELSE @]
<1>1. ptr[r] \in Addresses /\ obj[ptr[r]] \in Instances
  BY DEF IInv, TypeOK, PointersKnown, RequestGoes, LockRequest
<1>2. o \in Instances /\ obj' = [obj EXCEPT ![ptr[r]] = o]
  BY <1>1 DEF IInv, TypeOK, Instances, Threads, LockRequest
<1>3. /\ obj' \in [Addresses -> Instances]
      /\ obj'[ptr[r]] = o
      /\ \A a \in Addresses : a # ptr[r] => obj'[a] = obj[a]
  BY <1>1, <1>2 DEF IInv, TypeOK
<1>4. /\ o.lock = r
      /\ o.alive = obj[ptr[r]].alive
      /\ o.classes = obj[ptr[r]].classes
      /\ o.res = obj[ptr[r]].res
      /\ o.broker = obj[ptr[r]].broker
      /\ via[r] = "instance" /\ SendsInstance => o.result = r
  BY <1>1 DEF Instances
<1>5. /\ rp[r] = "lock" /\ rp' = [rp EXCEPT ![r] = "do"]
      /\ obj[ptr[r]].lock = "nobody"
      /\ UNCHANGED <<inst, mi, sp, job, via, ptr>>
  BY DEF LockRequest, RequestGoes, SingletonKept, server
<1>6. \A q \in Requesters : rp[q] = "do" => ptr[q] # ptr[r]
  BY <1>5, ConstantsAssumption DEF IInv, LockIsInDo
<1>7. sp \in {"doinit", "register", "docleanup"} => inst # ptr[r]
  BY <1>5 DEF IInv, LockIsInDo
<1> HIDE DEF o
<1> USE ConstantsAssumption DEF IInv, TypeOK, Instances, Threads, MIs,
        PointersKnown, LockIsInDo, SendsToOwnRequest, ClassesArePrepared, Prepared,
        Undisturbed, NoUseAfterDelete, Unloading, Quiet
<1> QED
  BY <1>1, <1>3, <1>4, <1>5, <1>6, <1>7

\* Every step of a request.
LEMMA RequestIInv ==
  ASSUME IInv, NEW r \in Requesters, RequestStep(r) \/ LockRequest(r)
  PROVE  IInv'
<1> USE ConstantsAssumption DEF IInv, TypeOK, Instances, Threads, MIs,
        PointersKnown, LockIsInDo, SendsToOwnRequest, ClassesArePrepared, Prepared,
        Undisturbed, NoUseAfterDelete, Unloading, Quiet, RequestGoes,
        RequestEnds, SingletonKept, requests, server
<1>1. CASE CheckClassSupport(r)
  BY <1>1 DEF CheckClassSupport
<1>2. CASE Convert(r)
  BY <1>2 DEF Convert
<1> QED
  BY <1>1, <1>2, LockRequestIInv, DoThrowsIInv, DoReturnsIInv DEF RequestStep

\* GetSingleInstance gives a new instance an address nobody points to.
LEMMA GetIInv ==
  ASSUME IInv, GetSingleInstance, sp = "idle" \/ ~Unloading
  PROVE  /\ inst' \in Addresses
         /\ obj' \in [Addresses -> Instances]
         /\ inst # Null => inst' = inst
         /\ \A a \in Addresses :
              \/ obj'[a] = obj[a]
              \/ /\ a = inst' /\ inst = Null /\ ~obj[a].alive
                 /\ \A r \in Requesters : ptr[r] # a
                 /\ obj'[a].alive /\ ~obj'[a].classes
                 /\ obj'[a].lock = "nobody"
         /\ obj'[inst'].alive
<1>1. CASE inst # Null
  <2>1. inst' = inst /\ obj' = obj /\ inst \in Addresses /\ sp # "null"
    BY <1>1 DEF GetSingleInstance, IInv, TypeOK, Unloading
  <2>2. obj[inst].alive
    BY <1>1, <2>1 DEF IInv, PointersKnown
  <2> QED
    BY <2>1, <2>2, <1>1 DEF IInv, TypeOK
<1>2. CASE inst = Null
  <2>1. New \in Instances /\ New.alive /\ ~New.classes /\ New.lock = "nobody"
    BY DEF New, Instances
  <2>2. PICK a \in Addresses : /\ ~obj[a].alive
                               /\ \A r \in Requesters : ptr[r] # a
                               /\ inst' = a
                               /\ obj' = [obj EXCEPT ![a] = New]
    BY <1>2 DEF GetSingleInstance
  <2>3. /\ obj' \in [Addresses -> Instances]
        /\ obj'[a] = New
        /\ \A b \in Addresses : b # a => obj'[b] = obj[b]
    BY <2>1, <2>2 DEF IInv, TypeOK
  <2> QED
    BY <1>2, <2>1, <2>2, <2>3
<1> QED
  BY <1>1, <1>2

\* The calls of the server.
LEMMA CallIInv ==
  ASSUME IInv,
         \/ \E k \in MIs : CreateMI(k)
         \/ \E term \in BOOLEAN : BeginUnload(term)
         \/ \E r \in Requesters, k \in MIs : BeginRequest(r, k)
  PROVE  IInv'
<1> USE ConstantsAssumption DEF IInv, TypeOK, Instances, Threads, MIs,
        PointersKnown, LockIsInDo, SendsToOwnRequest, ClassesArePrepared, Prepared,
        Undisturbed, NoUseAfterDelete, Unloading, Quiet, ServerGoes,
        SingletonKept, requests, server
<1>1. ASSUME NEW k \in MIs, CreateMI(k) PROVE IInv'
  <2>1. /\ sp = "idle" /\ sp' = "broker" /\ GetSingleInstance
        /\ job' = [mi |-> k, term |-> FALSE, status |-> "OK"]
        /\ UNCHANGED <<mi, rp, via, ptr>>
    BY <1>1 DEF CreateMI
  <2>2. /\ inst' \in Addresses
        /\ obj' \in [Addresses -> Instances]
        /\ inst # Null => inst' = inst
        /\ \A a \in Addresses :
             \/ obj'[a] = obj[a]
             \/ /\ a = inst' /\ inst = Null /\ ~obj[a].alive
                /\ \A r \in Requesters : ptr[r] # a
                /\ obj'[a].alive /\ ~obj'[a].classes
                /\ obj'[a].lock = "nobody"
        /\ obj'[inst'].alive
    <3> HIDE DEF IInv
    <3> QED
      BY <2>1, GetIInv
  <2>3. \A r \in Requesters : ptr[r] # Null => obj'[ptr[r]] = obj[ptr[r]]
    BY <2>2
  <2>4. TypeOK' /\ PointersKnown'
    BY <2>1, <2>2
  <2>5. LockIsInDo'
    BY <2>1, <2>2, <2>3
  <2>6. SendsToOwnRequest' /\ ClassesArePrepared'
    BY <2>1, <2>2, <2>3
  <2>7. Undisturbed'
    BY <2>1, <2>2, <2>3
  <2> QED
    BY <2>4, <2>5, <2>6, <2>7
<1>2. ASSUME NEW term \in BOOLEAN, BeginUnload(term) PROVE IInv'
  BY <1>2 DEF BeginUnload, First
<1>3. ASSUME NEW r \in Requesters, NEW k \in MIs, BeginRequest(r, k) PROVE IInv'
  BY <1>3, GetIInv DEF BeginRequest, RequestGoes
<1> QED
  BY <1>1, <1>2, <1>3

\* Every step keeps the inductive invariant.
LEMMA StepIInv == IInv /\ [Next]_vars => IInv'
<1>1. ASSUME IInv, UNCHANGED vars PROVE IInv'
  BY <1>1 DEF vars, server, requests, IInv, TypeOK, PointersKnown, LockIsInDo,
     SendsToOwnRequest, ClassesArePrepared, Prepared, Undisturbed, NoUseAfterDelete,
     Unloading, Quiet
<1> QED
  BY <1>1, ServerIInv, RequestIInv, CallIInv DEF Next

\* Every reachable state satisfies the inductive invariant.
THEOREM LifecycleInvariant == Spec => []IInv
  BY InitIInv, StepIInv, PTL DEF Spec

\* At most one Do method of an instance runs at a time, and the provider lock is
\* never left behind - also when the server forces the cleanup.
THEOREM DoIsExclusive == Spec => []LockIsInDo
<1>1. IInv => LockIsInDo
  BY DEF IInv
<1> QED
  BY <1>1, LifecycleInvariant, PTL

\* What an enumeration sends goes to its own result handle, whatever exceptions
\* left in m_result before.
THEOREM ResultsAreNotMixed == Spec => []SendsToOwnRequest
<1>1. IInv => SendsToOwnRequest
  BY DEF IInv
<1> QED
  BY <1>1, LifecycleInvariant, PTL

\* If the server lets the requests finish first, none of them ever works on a
\* deleted instance, and there is never more than one instance.
THEOREM NoDanglingProvider == ASSUME ~Forced PROVE Spec => []NoUseAfterDelete
<1>1. IInv => NoUseAfterDelete
  BY DEF IInv, Undisturbed
<1> QED
  BY <1>1, LifecycleInvariant, PTL

\* Under the same condition a Do method misses neither its enumeration nor the broker, although
\* the classes were looked up before the provider lock was taken.
THEOREM EnumerationIsThere == ASSUME ~Forced PROVE Spec => []DoIsPrepared
<1>1. IInv => DoIsPrepared
  BY DEF IInv, Undisturbed, DoIsPrepared
<1> QED
  BY <1>1, LifecycleInvariant, PTL
=============================================================================
