------------------------------ MODULE LogFramework ------------------------------
(***************************************************************************)
(* The log framework of scxcorelib: log handles that cache a severity      *)
(* threshold (scxloghandle.cpp), the configurator that owns the backends   *)
(* and rereads the configuration file (scxlogfileconfigurator.cpp), the    *)
(* mediator that hands items to the registered backends                    *)
(* (scxlogmediatorsimple.cpp) and the severity filter of a backend         *)
(* (scxlogseverityfilter.cpp).  A caller is a thread with a log handle of  *)
(* its own; the updater is the thread of the configurator, which also      *)
(* stands for the constructor of the configurator.                         *)
(*                                                                         *)
(* Two locks are kept apart: confLock (SCXLogFileConfigurator::m_lock) and *)
(* medLock (SCXLogMediatorSimple::m_lock).  A method of a backend has the  *)
(* lock of the backend from end to end and is a single step here.          *)
(***************************************************************************)
EXTENDS Integers, SequencesExt

CONSTANTS Callers,    \* threads, each with one log handle
          ModuleOf,   \* ModuleOf[c]: the module of c's handle, a sequence of names
          Ids,        \* identities for the backends that exist at one time
          Configs,    \* what the configuration file may hold: sequences of blocks
          Unreadable, \* the file exists and cannot be opened
          Default,    \* the default severity of the log policy
          Settable,   \* severities callers set at run time
          MaxEdits,   \* bound: edits of the configuration file
          MaxChanges  \* bound: calls that set or clear a severity

ASSUME BoundsAssumption == MaxEdits \in Nat /\ MaxChanges \in Nat

VARIABLES file,       \* the configuration file: modification time and blocks
          seen,       \* the modification time in m_ConfFile
          backends,   \* m_Backends
          consumers,  \* m_Consumers of the mediator
          filter,     \* filter[b]: severity by module, for the modules that have one
          min,        \* m_MinActiveSeverityThreshold
          version,    \* m_ConfigVersion
          confLock, medLock,
          at,         \* at[p]: where caller or updater p is
          todo,       \* todo[p]: the backends, or blocks, p has yet to visit
          sev,        \* sev[c]: severity argument, or minimum found so far
          changed,    \* changed[c]: the flag of that name
          handle,     \* handle[c]: m_severityThreshold and m_configVersion
          published,  \* history: effective severities when version was last raised
          raced,      \* history: callers whose refresh a change overlapped
          partial,    \* history: the default backend joined one from the file
          loaded,     \* history: the blocks that were read last
          changes     \* history: calls that set or clear, for the bound

config == <<seen, backends, consumers, filter, min, version>>
locks == <<confLock, medLock>>
local == <<todo, sev, changed>>
history == <<published, raced, partial, loaded, changes>>
vars == <<file, config, locks, at, local, handle, history>>

eNotSet == 0
eHysterical == 1
eTrace == 2
eInfo == 3
eWarning == 4
eError == 5
eSuppress == 6
eSeverityMax == 7
Severities == eNotSet .. eSeverityMax

Root == <<>>
Nobody == "nobody"
Updater == "updater"
Procs == Callers \cup {Updater}

\* What is named anywhere, and the filters and blocks that can be made of it.
Modules == Range(ModuleOf) \cup {Root} \cup
           UNION {UNION {DOMAIN block.severities : block \in Range(q)} : q \in Configs}
Filters == UNION {[S -> Severities] : S \in SUBSET Modules}
Blocks == [end : {"initialized", "uninitialized", "missing"}, severities : Filters]

\* eSeverityMax is the end of the enumeration and no severity; the default of a log
\* policy is one the filter accepts for the root; and there are identities enough
\* for the backends of a file and the default one.
ASSUME CallersAssumption == /\ Nobody \notin Callers /\ Updater \notin Callers
                            /\ DOMAIN ModuleOf = Callers
                            /\ Modules \subseteq Seq(STRING)
ASSUME SeveritiesAssumption == /\ Default \in (eNotSet .. eSuppress) \ {eHysterical}
                               /\ Settable \subseteq eNotSet .. eSuppress
ASSUME ConfigsAssumption == /\ Configs \subseteq Seq(Blocks)
                            /\ IsFiniteSet(Ids)
                            /\ \A blocks \in Configs : Len(blocks) < Cardinality(Ids)

-----------------------------------------------------------------------------
(* The severity filter of a backend.                                       *)

\* The nearest module that has a severity, from m up to the root; only m
\* itself can be at eHysterical.
Threshold(f, m) ==
  LET known == {a \in DOMAIN f : /\ IsPrefix(a, m)
                                 /\ a \in {Root, m} \/ f[a] # eHysterical}
  IN  f[CHOOSE a \in known : \A b \in known : Len(b) <= Len(a)]

With(f, m, s) == [a \in DOMAIN f \cup {m} |-> IF a = m THEN s ELSE f[a]]

\* Mutant: the root can be set to eHysterical.
Put_Always(f, m, s) == With(f, m, s)

Put(f, m, s) == IF m = Root /\ s = eHysterical THEN f ELSE With(f, m, s)

Drop(f, m) == IF m = Root THEN With(f, Root, eNotSet)
                          ELSE Restrict(f, DOMAIN f \ {m})

MinActive(f) == Min(Range(f))

OnlyRoot(s) == [m \in {Root} |-> s]

\* The constructor of the filter.
NewBackend == OnlyRoot(eNotSet)

\* What GetEffectiveSeverity returns when nothing changes meanwhile.
Effective(m) == Min({eSuppress} \cup {Threshold(filter[b], m) : b \in consumers})
EffectiveMap == [c \in Callers |-> Effective(ModuleOf[c])]

-----------------------------------------------------------------------------
Go(p, from, to) == at[p] = from /\ at' = [at EXCEPT ![p] = to]
Visit(p) == todo' = [todo EXCEPT ![p] = Tail(@)]

\* What is on the stack of a call is gone when it returns.
ForgetLocals(c) == /\ todo' = [todo EXCEPT ![c] = <<>>]
                   /\ sev' = [sev EXCEPT ![c] = eSuppress]
                   /\ changed' = [changed EXCEPT ![c] = FALSE]

Refreshing == {c \in Callers : at[c] \in {"scan", "version"}}
Overlap == raced' = raced \cup Refreshing
RaiseVersion == version' = version + 1 /\ published' = EffectiveMap

Init == /\ \E blocks \in Configs : file = [stamp |-> 0, blocks |-> blocks]
        /\ seen = 0
        /\ backends = <<>> /\ consumers = {}
        /\ filter = [b \in Ids |-> NewBackend]
        /\ min = eSeverityMax
        /\ version = 0
        /\ confLock = Updater /\ medLock = Nobody
        /\ at = [p \in Procs |-> IF p = Updater THEN "deregister" ELSE "new"]
        /\ todo = [p \in Procs |-> <<>>]
        /\ sev = [c \in Callers |-> eSuppress]
        /\ changed = [c \in Callers |-> FALSE]
        /\ handle = [c \in Callers |-> [sev |-> eSuppress, ver |-> 0]]
        /\ published = [c \in Callers |-> eSuppress]
        /\ raced = {} /\ partial = FALSE /\ loaded = <<>> /\ changes = 0

\* Somebody edits, removes or makes unreadable the configuration file.
EditFile == /\ file.stamp < MaxEdits
            /\ \E blocks \in Configs \cup {Unreadable} :
                 file' = [stamp |-> file.stamp + 1, blocks |-> blocks]
            /\ UNCHANGED <<config, locks, at, local, handle, history>>

-----------------------------------------------------------------------------
(* SCXLogHandle.                                                           *)

\* GetLogHandle, once the factory is constructed.
OpenHandle(c) == /\ version > 0
                 /\ Go(c, "new", "effective")
                 /\ UNCHANGED <<file, config, locks, local, handle, history>>

\* GetSeverityThreshold; when the versions agree it returns what is cached.
CheckVersion(c) == /\ confLock = Nobody
                   /\ handle[c].ver # version
                   /\ Go(c, "idle", "effective")
                   /\ UNCHANGED <<file, config, locks, local, handle, history>>

\* GetEffectiveSeverity; the consumers are a std::set ordered by address.
StartScan(c) == /\ Go(c, "effective", "scan")
                /\ medLock = Nobody /\ medLock' = c
                /\ \E order \in SetToSeqs(consumers) :
                     todo' = [todo EXCEPT ![c] = order]
                /\ sev' = [sev EXCEPT ![c] = eSuppress]
                /\ raced' = raced \ {c}
                /\ UNCHANGED <<file, config, confLock, changed, handle, published, partial, loaded, changes>>

\* Mutant: the threshold of the last consumer is returned.
ScanConsumer_Last(c) ==
  /\ at[c] = "scan" /\ todo[c] # <<>> /\ sev[c] # eHysterical
  /\ sev' = [sev EXCEPT ![c] = Threshold(filter[Head(todo[c])], ModuleOf[c])]
  /\ Visit(c)
  /\ UNCHANGED <<file, config, locks, at, changed, handle, history>>

ScanConsumer(c) ==
  /\ at[c] = "scan" /\ todo[c] # <<>> /\ sev[c] # eHysterical
  /\ sev' = [sev EXCEPT ![c] = Min({@, Threshold(filter[Head(todo[c])], ModuleOf[c])})]
  /\ Visit(c)
  /\ UNCHANGED <<file, config, locks, at, changed, handle, history>>

EndScan(c) == /\ todo[c] = <<>> \/ sev[c] = eHysterical
              /\ Go(c, "scan", "version")
              /\ medLock' = Nobody
              /\ handle' = [handle EXCEPT ![c].sev = sev[c]]
              /\ ForgetLocals(c)
              /\ UNCHANGED <<file, config, confLock, history>>

ReadVersion(c) == /\ confLock = Nobody
                  /\ Go(c, "version", "idle")
                  /\ handle' = [handle EXCEPT ![c].ver = version]
                  /\ UNCHANGED <<file, config, locks, local, history>>

\* Log, for an item that passes the threshold: LogThisItem of the mediator.
BeginLog(c) == /\ Go(c, "idle", "log")
               /\ medLock = Nobody /\ medLock' = c
               /\ UNCHANGED <<file, config, confLock, local, handle, history>>

EndLog(c) == /\ Go(c, "log", "idle")
             /\ medLock' = Nobody
             /\ UNCHANGED <<file, config, confLock, local, handle, history>>

-----------------------------------------------------------------------------
(* SetSeverityThreshold and ClearSeverityThreshold, backend by backend.    *)

LockConfiguration(c, next) ==
  /\ changes < MaxChanges /\ changes' = changes + 1
  /\ Go(c, "idle", next)
  /\ confLock = Nobody /\ confLock' = c
  /\ todo' = [todo EXCEPT ![c] = backends]
  /\ changed' = [changed EXCEPT ![c] = FALSE]
  /\ UNCHANGED <<file, config, medLock, handle, published, raced, partial, loaded>>

BeginSet(c) == /\ LockConfiguration(c, "set")
               /\ \E s \in Settable : sev' = [sev EXCEPT ![c] = s]

BeginClear(c) == /\ LockConfiguration(c, "clear")
                 /\ UNCHANGED sev

ChangeFilter(c, b, f) == /\ filter' = [filter EXCEPT ![b] = f]
                         /\ changed' = [changed EXCEPT ![c] = @ \/ f # filter[b]]
                         /\ IF f # filter[b] THEN Overlap ELSE UNCHANGED raced
                         /\ Visit(c)
                         /\ UNCHANGED <<file, seen, backends, consumers, version, locks,
                                        at, sev, handle, published, partial, loaded, changes>>

SetBackend(c) ==
  /\ at[c] = "set" /\ todo[c] # <<>>
  /\ LET b == Head(todo[c])
         f == Put(filter[b], ModuleOf[c], sev[c])
     IN  /\ ChangeFilter(c, b, f)
         /\ min' = IF f # filter[b] THEN Min({min, sev[c]}) ELSE min

ClearBackend(c) ==
  /\ at[c] = "clear" /\ todo[c] # <<>>
  /\ LET b == Head(todo[c]) IN ChangeFilter(c, b, Drop(filter[b], ModuleOf[c]))
  /\ UNCHANGED min

\* The end of both: the version is raised when a filter changed.
Unlock(c) ==
  /\ todo[c] = <<>>
  /\ confLock' = Nobody
  /\ IF changed[c] THEN RaiseVersion ELSE UNCHANGED <<version, published>>
  /\ ForgetLocals(c)
  /\ UNCHANGED <<file, seen, backends, consumers, filter, medLock, partial, loaded, changes>>

\* Mutant: a handle that changed the configuration does not raise the version.
EndSet_SameVersion(c) ==
  /\ Go(c, "set", "version") /\ todo[c] = <<>>
  /\ confLock' = Nobody
  /\ handle' = [handle EXCEPT ![c].sev = sev[c]]
  /\ raced' = raced \ {c}
  /\ UNCHANGED <<file, config, medLock, local, published, partial, loaded, changes>>

\* SCXLogHandle::SetSeverityThreshold caches the severity it set.
EndSet(c) == /\ Go(c, "set", "version")
             /\ Unlock(c)
             /\ handle' = [handle EXCEPT ![c].sev = sev[c]]
             /\ raced' = (IF changed[c] THEN raced \cup Refreshing ELSE raced) \ {c}
             /\ UNCHANGED min

LowestActive == Min({eSeverityMax} \cup {MinActive(filter[b]) : b \in Range(backends)})

\* Mutant: the minimum is what the last backend has.
EndClear_LastBackend(c) ==
  /\ Go(c, "clear", "idle")
  /\ Unlock(c)
  /\ IF changed[c] THEN min' = MinActive(filter[Last(backends)]) /\ Overlap
                   ELSE UNCHANGED <<min, raced>>
  /\ UNCHANGED handle

EndClear(c) == /\ Go(c, "clear", "idle")
               /\ Unlock(c)
               /\ IF changed[c] THEN min' = LowestActive /\ Overlap
                                ELSE UNCHANGED <<min, raced>>
               /\ UNCHANGED handle

-----------------------------------------------------------------------------
(* The configurator: its constructor and its thread.                       *)

\* The factory is a singleton: when the constructor throws, the next
\* GetLogHandle constructs it anew.
ConstructAgain == /\ version = 0
                  /\ Go(Updater, "dead", "deregister")
                  /\ confLock' = Updater
                  /\ UNCHANGED <<file, config, medLock, local, handle, history>>

IsConfigurationChanged == /\ confLock = Nobody
                          /\ seen # file.stamp
                          /\ Go(Updater, "waiting", "restore")
                          /\ UNCHANGED <<file, config, locks, local, handle, history>>

RestoreConfiguration == /\ Go(Updater, "restore", "deregister")
                        /\ confLock = Nobody /\ confLock' = Updater
                        /\ todo' = [todo EXCEPT ![Updater] = backends]
                        /\ UNCHANGED <<file, config, medLock, sev, changed, handle, history>>

\* Mutant: the backends are forgotten, but stay registered.
DeRegister_Not == /\ at[Updater] = "deregister" /\ todo[Updater] # <<>>
                  /\ Visit(Updater)
                  /\ UNCHANGED <<file, config, locks, at, sev, changed, handle, history>>

DeRegister == /\ at[Updater] = "deregister" /\ todo[Updater] # <<>>
              /\ medLock = Nobody
              /\ consumers' = consumers \ {Head(todo[Updater])}
              /\ Visit(Updater)
              /\ Overlap
              /\ UNCHANGED <<file, seen, backends, filter, min, version, locks, at,
                             sev, changed, handle, published, partial, loaded, changes>>

\* ParseConfigFile: the file information first, the lines afterwards.
Refresh == /\ Go(Updater, "deregister", "read")
           /\ todo[Updater] = <<>>
           /\ backends' = <<>>
           /\ filter' = [b \in Ids |-> NewBackend]
           /\ min' = eSeverityMax
           /\ seen' = file.stamp
           /\ partial' = FALSE
           /\ UNCHANGED <<file, consumers, version, locks, local, handle,
                          published, raced, loaded, changes>>

ReadLines == /\ file.blocks # Unreadable
             /\ Go(Updater, "read", "blocks")
             /\ todo' = [todo EXCEPT ![Updater] = file.blocks]
             /\ loaded' = file.blocks
             /\ UNCHANGED <<file, config, locks, sev, changed, handle, published, raced, partial, changes>>

\* Mutant: the exception leaves the configurator locked.
ReadThrows_Locked == /\ file.blocks = Unreadable
                     /\ Go(Updater, "read", "dead")
                     /\ UNCHANGED <<file, config, locks, local, handle, history>>

\* The exception leaves RestoreConfiguration and the body of the thread.
ReadThrows == /\ file.blocks = Unreadable
              /\ Go(Updater, "read", "dead")
              /\ confLock' = Nobody
              /\ UNCHANGED <<file, config, medLock, local, handle, history>>

FreshId == CHOOSE b \in Ids : b \notin consumers \cup Range(backends)

\* push_back and RegisterConsumer.
AddBackend(f) == /\ medLock = Nobody
                 /\ backends' = Append(backends, FreshId)
                 /\ consumers' = consumers \cup {FreshId}
                 /\ filter' = [filter EXCEPT ![FreshId] = f]
                 /\ Overlap

\* The filter refuses eHysterical for the root.
Accepted(f) == {m \in DOMAIN f : m # Root \/ f[m] # eHysterical}
NewFilter(block) == [m \in Accepted(block.severities) \cup {Root} |->
                       IF m \in Accepted(block.severities) THEN block.severities[m] ELSE Default]

\* One block of the file.  Create and SetSeverityThreshold lower the minimum
\* whether or not the block ends in an initialized backend.
ParseBlock ==
  /\ at[Updater] = "blocks" /\ todo[Updater] # <<>>
  /\ LET block == Head(todo[Updater])
     IN  /\ min' = Min({min} \cup Range(NewFilter(block)) \cup {Default})
         /\ \/ /\ block.end = "initialized"
               /\ AddBackend(NewFilter(block))
               /\ Visit(Updater)
               /\ UNCHANGED at
            \/ /\ block.end = "uninitialized"
               /\ Go(Updater, "blocks", "default")
               /\ UNCHANGED <<backends, consumers, filter, todo, raced>>
            \/ /\ block.end = "missing"
               /\ todo' = [todo EXCEPT ![Updater] = <<>>]
               /\ UNCHANGED <<backends, consumers, filter, at, raced>>
  /\ UNCHANGED <<file, seen, version, locks, sev, changed, handle, published, partial, loaded, changes>>

EndBlocks == /\ todo[Updater] = <<>>
             /\ Go(Updater, "blocks", IF backends # <<>> THEN "publish" ELSE "default")
             /\ UNCHANGED <<file, config, locks, local, handle, history>>

UseDefault == /\ Go(Updater, "default", "publish")
              /\ AddBackend(OnlyRoot(Default))
              /\ min' = Default
              /\ partial' = (backends # <<>>)
              /\ UNCHANGED <<file, seen, version, locks, local, handle, published, loaded, changes>>

\* Mutant: m_ConfFile is refreshed once more after the file was parsed.
Publish_RefreshLate == /\ Go(Updater, "publish", "waiting")
                       /\ RaiseVersion
                       /\ seen' = file.stamp
                       /\ confLock' = Nobody
                       /\ Overlap
                       /\ UNCHANGED <<file, backends, consumers, filter, min, medLock, local,
                                      handle, partial, loaded, changes>>

Publish == /\ Go(Updater, "publish", "waiting")
           /\ RaiseVersion
           /\ confLock' = Nobody
           /\ Overlap
           /\ UNCHANGED <<file, seen, backends, consumers, filter, min, medLock, local,
                          handle, partial, loaded, changes>>

-----------------------------------------------------------------------------
Call(c) == OpenHandle(c) \/ CheckVersion(c) \/ BeginLog(c) \/ BeginSet(c) \/ BeginClear(c)

Continue(c) == \/ StartScan(c) \/ ScanConsumer(c) \/ EndScan(c) \/ ReadVersion(c)
               \/ EndLog(c)
               \/ SetBackend(c) \/ EndSet(c)
               \/ ClearBackend(c) \/ EndClear(c)

Update == \/ IsConfigurationChanged \/ RestoreConfiguration
          \/ DeRegister \/ Refresh
          \/ ReadLines \/ ReadThrows \/ ParseBlock \/ EndBlocks \/ UseDefault
          \/ Publish

Next == \/ EditFile
        \/ ConstructAgain
        \/ Update
        \/ \E c \in Callers : Call(c) \/ Continue(c)

Spec == Init /\ [][Next]_vars

\* A thread that waits for a lock gets it if it is free again and again; nobody
\* has to start a call, and nobody has to edit the file.
FairSpec == Spec /\ SF_vars(Update) /\ \A c \in Callers : SF_vars(Continue(c))

-----------------------------------------------------------------------------
\* Every variable keeps its type.
TypeOK ==
  /\ file.stamp \in 0 .. MaxEdits /\ seen \in 0 .. MaxEdits
  /\ file.blocks \in Configs \cup {Unreadable}
  /\ backends \in Seq(Ids) /\ consumers \subseteq Ids
  /\ filter \in [Ids -> Filters]
  /\ \A b \in Ids : Root \in DOMAIN filter[b] /\ filter[b][Root] # eHysterical
  /\ min \in Severities /\ version \in Nat
  /\ confLock \in Procs \cup {Nobody} /\ medLock \in Callers \cup {Nobody}
  /\ DOMAIN at = Procs /\ DOMAIN todo = Procs
  /\ \A c \in Callers : /\ at[c] \in {"new", "effective", "scan", "version", "idle", "log",
                                     "set", "clear"}
                        /\ todo[c] \in Seq(Ids)
  /\ at[Updater] \in {"deregister", "read", "blocks", "default", "publish", "waiting",
                      "restore", "dead"}
  /\ at[Updater] = "deregister" => todo[Updater] \in Seq(Ids)
  /\ at[Updater] \in {"blocks", "default"} => todo[Updater] \in Seq(Blocks)
  /\ sev \in [Callers -> Severities] /\ changed \in [Callers -> BOOLEAN]
  /\ handle \in [Callers -> [sev : Severities, ver : Nat]]
  /\ raced \subseteq Callers /\ partial \in BOOLEAN

\* Whenever the configurator is not locked, the consumers the mediator hands
\* items to are exactly the backends the configurator knows, each once: no
\* backend of an old configuration goes on logging after a restore, and none of
\* the new one is left out (RestoreConfiguration, ParseConfigFile, Add).
ConsumersAreBackends ==
  confLock = Nobody => /\ consumers = Range(backends)
                       /\ Cardinality(consumers) = Len(backends)

\* Whenever the configurator is not locked, the effective severity of every
\* module is what it was when the version was last raised: nothing changes it
\* without raising m_ConfigVersion, which is all a handle looks at
\* (SetSeverityThreshold, ClearSeverityThreshold, ParseConfigFile).  A thread
\* that died in RestoreConfiguration leaves changes nobody published.
VersionTellsConfiguration ==
  confLock = Nobody /\ at[Updater] # "dead" => published = EffectiveMap

Resting(c) == at[c] = "idle" /\ confLock = Nobody /\ handle[c].ver = version

\* Thresholds of a handle that let the same items pass: no item is below eHysterical.
SameItems(s, t) == s = t \/ {s, t} \subseteq {eNotSet, eHysterical}

\* The threshold s that handle c has cached will do for the effective severity e.
\* The root module cannot be set to eHysterical, which the handle that tries
\* caches all the same.
CachedFor(c, s, e) == SameItems(s, e) \/ (ModuleOf[c] = Root /\ s = eHysterical)

\* A handle that has the version of the configurator lets pass what the effective
\* severity of its module does, unless a change overlapped the two calls with
\* which it took the severity and then the version.  It need not have that very
\* severity: the mediator stops at the first backend at eHysterical, and a
\* backend it has not asked may be at eNotSet.
CurrentUnlessRaced ==
  \A c \in Callers :
    Resting(c) /\ c \notin raced /\ at[Updater] # "dead"
      => CachedFor(c, handle[c].sev, Effective(ModuleOf[c]))

\* What GetMinActiveSeverityThreshold returns is no higher than the threshold of
\* any module in any backend, unless the file broke off after a backend and the
\* minimum was overwritten with the default (ParseConfigFile).
MinIsLowerBound == confLock = Nobody /\ ~partial
                     => \A b \in Range(backends) : min <= MinActive(filter[b])

Installing == {"deregister", "read", "blocks", "default", "publish"}

\* Who has which lock, that no handle exists before the first configuration, and
\* that none is ahead of it.
LocksKnown ==
  /\ confLock = Updater <=> at[Updater] \in Installing
  /\ \A c \in Callers : /\ confLock = c <=> at[c] \in {"set", "clear"}
                        /\ medLock = c <=> at[c] \in {"scan", "log"}
                        /\ version = 0 => at[c] = "new"
                        /\ handle[c].ver <= version

\* While the old backends are deregistered those that are left are the consumers;
\* afterwards, and otherwise, m_Backends are.  There are identities for the blocks
\* to come and for the default backend.
ConsumersKnown ==
  /\ LET known == IF at[Updater] = "deregister" THEN todo[Updater] ELSE backends
     IN  consumers = Range(known) /\ IsInjective(known)
  /\ at[Updater] \in {"read", "dead"} => backends = <<>> /\ todo[Updater] = <<>>
  /\ at[Updater] \in {"blocks", "default"} =>
       Len(backends) + Len(todo[Updater]) < Cardinality(Ids)
  /\ at[Updater] \in {"publish", "waiting", "restore"} => backends # <<>>

Changing == \E c \in Callers : at[c] \in {"set", "clear"} /\ changed[c]

\* What is published is out of date only while the updater installs a
\* configuration or a caller has changed a filter.
PublishedKnown == ~Changing /\ at[Updater] \notin Installing \cup {"dead"}
                    => published = EffectiveMap

\* The minimum is one of all severities, except while a caller clears some.
MinKnown == ~partial /\ (\A c \in Callers : at[c] = "clear" => ~changed[c])
              => \A b \in Range(backends) : \A m \in DOMAIN filter[b] : min <= filter[b][m]

\* s is the lowest threshold of module m in the backends of B, and in no case lower
\* than that in all of them.
LowestIn(s, B, m) == /\ \A b \in B : s <= Threshold(filter[b], m)
                     /\ s = eSuppress \/ \E b \in consumers : s = Threshold(filter[b], m)
                     /\ s <= eSuppress

Visited(c) == consumers \ Range(todo[c])

\* What a caller has found so far, what it has set so far, and what its handle
\* holds, as long as no change has overlapped.
HandleKnown(c) ==
  /\ at[c] = "set" => /\ \A b \in Visited(c) : Put(filter[b], ModuleOf[c], sev[c]) = filter[b]
                      /\ sev[c] <= eSuppress
  /\ c \notin raced =>
       /\ at[c] = "scan" => /\ Range(todo[c]) \subseteq consumers
                            /\ LowestIn(sev[c], Visited(c), ModuleOf[c])
       /\ at[c] = "version" => CachedFor(c, handle[c].sev, Effective(ModuleOf[c]))
       /\ at[c] \in {"idle", "log", "set", "clear"} /\ handle[c].ver = version =>
            CachedFor(c, handle[c].sev, published[c])

HandlesKnown == at[Updater] # "dead" => \A c \in Callers : HandleKnown(c)

\* What makes the four invariants above hold: who has which lock, how far a new
\* configuration has been installed, and what a caller in the middle of its call
\* may rely on.
IInv == /\ TypeOK /\ LocksKnown /\ ConsumersKnown
        /\ PublishedKnown /\ MinKnown /\ HandlesKnown

\* As long as its thread lives, the configurator ends up with what the last edit
\* left in the configuration file, also when the edit was made while it was
\* reading the file (IsConfigurationChanged, ParseConfigFile).
LastEditIsApplied == []<>(\/ at[Updater] = "dead"
                          \/ at[Updater] = "waiting" /\ loaded = file.blocks)

\* Every call on a handle returns: the configurator and the mediator are locked
\* in one order and given back on every path, exceptions included.
CallsReturn == \A c \in Callers : at[c] \notin {"new", "idle"} ~> at[c] = "idle"
=============================================================================
