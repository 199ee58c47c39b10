----------------------------- MODULE AppServerCache -----------------------------
(***************************************************************************)
(* The application server provider: the list of application servers that   *)
(* are, or were, running on the host (AppServerEnumeration), merged at     *)
(* every request with the java processes that run now                      *)
(* (ManipulateAppServerInstances), and the cache in which the list is kept *)
(* while the provider is not loaded (PersistAppServerInstances).  The      *)
(* provider lock lets one request run at a time; servers are installed,    *)
(* started, stopped and removed meanwhile, and the agent may crash.        *)
(*                                                                         *)
(* A server is named by its id, which for a WebSphere server is made of    *)
(* profile, cell, node and server, and for the others is its disk path.    *)
(* The list is sorted by disk path and has one entry for each: known is    *)
(* that list, as a function of the path.                                   *)
(***************************************************************************)
EXTENDS Integers, FiniteSets

CONSTANTS Servers,     \* ids
          Paths,       \* disk paths
          PathOf,      \* PathOf[s]: GetDiskPath of s
          Configured,  \* the servers of a WebLogic installation: they are found in
                       \* its configuration when one of them runs
          Settings,    \* IsDeepMonitored and Protocol
          Off,         \* not deep monitored
          Unknown,     \* of a path without an entry
          Stable,      \* std::sort keeps the order of equivalent entries, as it does
                       \* for a list of up to 16 in libstdc++
          MaxRunning,  \* bound: servers with a process at one time
          Twice        \* bound: servers that may have two

ASSUME ServerAssumption ==
  /\ IsFiniteSet(Paths)
  /\ PathOf \in [Servers -> Paths]
  /\ Configured \subseteq Servers
  /\ \A s \in Configured, t \in Servers : PathOf[s] = PathOf[t] => s = t
ASSUME SettingAssumption == Off \in Settings /\ Unknown \notin Settings
ASSUME StableAssumption == Stable \in BOOLEAN

VARIABLES procs,      \* procs[s]: java processes with the command line of s
          installed,  \* paths at which something is installed
          at,         \* what the provider is doing
          found,      \* found[s]: processes of s that Update has found
          known,      \* known[p]: the entry with path p of m_instances
          file        \* the cache: the number in its metadata and its instances

host == <<procs, installed>>
vars == <<host, at, found, known, file>>

NoEntry == [id |-> "none", run |-> FALSE, deep |-> Unknown]
Entries == [id : Servers, run : BOOLEAN, deep : Settings]
Lists == [Paths -> Entries \cup {NoEntry}]
EmptyList == [p \in Paths |-> NoEntry]
NoProcess == [s \in Servers |-> 0]

\* A file that is not there, or that ends before the metadata do, reads alike.
NoFile == [size |-> -1, items |-> EmptyList]

Init == /\ procs = NoProcess
        /\ installed = Paths
        /\ at = "unloaded" /\ found = NoProcess
        /\ known = EmptyList /\ file = NoFile

In(list) == {p \in Paths : list[p] # NoEntry}

-----------------------------------------------------------------------------
(* The host.  A second process with the command line of a server is a     *)
(* start of what already runs, or the stop command of a Tomcat server.     *)

provider == <<at, found, known, file>>

Start(s) == /\ PathOf[s] \in installed
            /\ Cardinality({t \in Servers : procs[t] > 0} \cup {s}) <= MaxRunning
            /\ procs[s] = 0 \/ (procs[s] = 1 /\ s \in Twice)
            /\ procs' = [procs EXCEPT ![s] = @ + 1]
            /\ UNCHANGED <<installed, provider>>

End(s) == /\ procs[s] > 0
          /\ procs' = [procs EXCEPT ![s] = @ - 1]
          /\ UNCHANGED <<installed, provider>>

Install(p) == /\ p \notin installed
              /\ installed' = installed \cup {p}
              /\ UNCHANGED <<procs, provider>>

Remove(p) == /\ p \in installed
             /\ installed' = installed \ {p}
             /\ UNCHANGED <<procs, provider>>

-----------------------------------------------------------------------------
(* Update: the java processes are listed, and then merged with the list.   *)

ListProcesses == /\ at \in {"read", "loaded"}
                 /\ at' = "found"
                 /\ found' = procs
                 /\ UNCHANGED <<host, known, file>>

\* The servers at p whose processes are made running instances: those that name their
\* server.  A WebLogic process only tells where its installation is, and the servers
\* that are then read from the configuration there are instances that do not run.
FoundByProcess(p) == {s \in Servers \ Configured : PathOf[s] = p /\ found[s] > 0}
InConfig(p) == {s \in Configured : /\ PathOf[s] = p /\ p \in installed
                                   /\ \E t \in Configured : found[t] > 0}
New(p) == FoundByProcess(p) \cup InConfig(p)

Several(p) == \E s \in FoundByProcess(p) : found[s] > 1 \/ FoundByProcess(p) # {s}

\* RemoveNonexistentInstances and SetIsRunningToFalse.
Remaining(p) == IF known[p] # NoEntry /\ p \in installed
                  THEN [known[p] EXCEPT !.run = FALSE] ELSE NoEntry

\* A process has IsRunning, an entry from the configuration has not.
NewEntry(s, flag) == [id |-> s, run |-> s \notin Configured, deep |-> flag]

\* Mutant: the flag is not copied.
Merged_NoFlag(p) == IF New(p) = {} THEN {Remaining(p)}
                    ELSE {NewEntry(s, Off) : s \in New(p)}

\* Mutant: known entries are put before the running ones.
Merged_KnownFirst(p) ==
  IF Remaining(p) # NoEntry THEN {Remaining(p)}
  ELSE IF New(p) = {} THEN {NoEntry} ELSE {NewEntry(s, Off) : s \in New(p)}

\* What may be the entry at p: sort puts the running ones first, the first of an
\* equal path gets the flag of the entry after it, which is the known one unless
\* several run there, and unique keeps the first.  Of an entry that was read from
\* the configuration and a known one neither is running.
Merged(p) ==
  LET copied == IF Several(p) \/ Remaining(p) = NoEntry THEN Off ELSE Remaining(p).deep
  IN  IF New(p) = {} THEN {Remaining(p)}
      ELSE {NewEntry(s, copied) : s \in New(p)}
           \cup (IF ~Stable /\ InConfig(p) # {} /\ Remaining(p) # NoEntry
                   THEN {[Remaining(p) EXCEPT !.deep = Off]} ELSE {})

MergeProcesses == /\ at = "found"
                  /\ at' = "loaded"
                  /\ found' = NoProcess
                  /\ known' \in [Paths -> UNION {Merged(p) : p \in Paths}]
                  /\ \A p \in Paths : known'[p] \in Merged(p)
                  /\ UNCHANGED <<host, file>>

-----------------------------------------------------------------------------
(* The provider.                                                           *)

\* The number of instances that can be read is the one in the metadata.
Readable == file.size = Cardinality(In(file.items))

\* DoInit: a new enumeration reads the cache and updates itself.  An instance
\* whose files are gone is left out; a cache that is missing or not all there is
\* no cache.
ReadFromDisk ==
  /\ at = "unloaded"
  /\ at' = "read"
  /\ known' = [p \in Paths |-> IF Readable /\ p \in installed
                                 THEN file.items[p] ELSE NoEntry]
  /\ UNCHANGED <<host, found, file>>

\* SetDeepMonitoring finds the instance by its id, without an Update.
SetDeepMonitoring(s, v) ==
  /\ at = "loaded"
  /\ PathOf[s] \in In(known) /\ known[PathOf[s]].id = s
  /\ known' = [known EXCEPT ![PathOf[s]].deep = v]
  /\ UNCHANGED <<host, at, found, file>>

\* DoCleanup, which is called again after it has failed.
BeginCleanUp == /\ at \in {"loaded", "failed"}
                /\ at' = "erase"
                /\ UNCHANGED <<host, found, known, file>>

EraseFromDisk == /\ at = "erase"
                 /\ at' = "header"
                 /\ file' = NoFile
                 /\ UNCHANGED <<host, found, known>>

\* CreateWriter and the metadata.
WriteMetadata == /\ at = "header"
                 /\ at' = "write"
                 /\ file' = [NoFile EXCEPT !.size = Cardinality(In(known))]
                 /\ UNCHANGED <<host, found, known>>

\* Mutant: IsRunning is written.
Persisted_Running(e) == e
\* IsRunning is not written.
Persisted(e) == [e EXCEPT !.run = FALSE]

WriteInstance(p) == /\ at = "write"
                    /\ p \in In(known) \ In(file.items)
                    /\ file' = [file EXCEPT !.items[p] = Persisted(known[p])]
                    /\ UNCHANGED <<host, at, found, known>>

DoneWriting == /\ at = "write"
               /\ In(file.items) = In(known)
               /\ at' = "unloaded"
               /\ known' = EmptyList
               /\ UNCHANGED <<host, found, file>>

\* The file cannot be removed, opened or written.
WriteFails == /\ at \in {"erase", "header", "write"}
              /\ at' = "failed"
              /\ UNCHANGED <<host, found, known, file>>

\* The agent ends.  What it was writing may not have reached the file.
Crash == /\ at # "unloaded" /\ at' = "unloaded"
         /\ found' = NoProcess /\ known' = EmptyList
         /\ file' \in {file} \cup (IF at = "write" THEN {NoFile} ELSE {})
         /\ UNCHANGED host

-----------------------------------------------------------------------------
Next == \/ \E s \in Servers : Start(s) \/ End(s)
        \/ \E p \in Paths : Install(p) \/ Remove(p) \/ WriteInstance(p)
        \/ ListProcesses \/ MergeProcesses \/ ReadFromDisk
        \/ \E s \in Servers, v \in Settings : SetDeepMonitoring(s, v)
        \/ BeginCleanUp \/ EraseFromDisk \/ WriteMetadata \/ DoneWriting
        \/ WriteFails \/ Crash

Spec == Init /\ [][Next]_vars

-----------------------------------------------------------------------------
TypeOK == /\ procs \in [Servers -> 0 .. 2]
          /\ installed \subseteq Paths
          /\ at \in {"unloaded", "read", "found", "loaded", "erase", "header", "write",
                     "failed"}
          /\ found \in [Servers -> 0 .. 2]
          /\ known \in Lists
          /\ file \in [size : Int, items : Lists]

\* An entry is filed under its own path, and the file that is being written has
\* only what is in the list.
ListInv == /\ \A p \in Paths : known[p] # NoEntry => PathOf[known[p].id] = p
           /\ \A p \in Paths : file.items[p] # NoEntry => /\ PathOf[file.items[p].id] = p
                                                          /\ ~file.items[p].run
           /\ at = "unloaded" => known = EmptyList
           /\ at # "found" => found = NoProcess
           /\ at = "header" => file = NoFile
           /\ at = "write" => /\ file.size = Cardinality(In(known))
                              /\ \A p \in In(file.items) :
                                   file.items[p] = Persisted(known[p])

\* The inductive invariant.
IInv == TypeOK /\ ListInv

-----------------------------------------------------------------------------
SettingsIn(list) == [p \in Paths |-> list[p].deep]
Durable == IF Readable THEN SettingsIn(file.items) ELSE SettingsIn(EmptyList)

Servers_ == INSTANCE MonitoredServers WITH
  setting <- IF at = "unloaded" THEN Durable ELSE SettingsIn(known),
  durable <- Durable,
  saving <- at \in {"header", "write"},
  gone <- Paths \ installed,
  ambiguous <- {p \in Paths : Several(p) \/ (~Stable /\ InConfig(p) # {})}

\* A deep monitoring setting survives updates, stops and starts, and the cache is
\* all or nothing: whatever is started, stopped, installed and removed meanwhile,
\* and wherever saving fails or the agent crashes, a start has either every
\* setting of the last save that was completed or none.
ImplementsMonitoredServers == Servers_!Spec

\* The list says running after an update at exactly the paths where a process was found
\* that names its server, and has a server there that runs: not one that the cache or an
\* earlier update has at the same path (UpdateInstancesWithRunningProcesses).  A server
\* of WebLogic is never listed as running, not even one whose process was found.
RunningIsWhatWasFound ==
  [][at = "found" /\ at' = "loaded" =>
       \A p \in Paths : /\ known'[p].run <=> FoundByProcess(p) # {}
                        /\ known'[p].run => /\ known'[p].id \notin Configured
                                            /\ found[known'[p].id] > 0]_vars

\* What "Assumption #2: the runningProcesses all have IsRunning set to true" of
\* UpdateInstancesWithRunningProcesses comes to: a server that the list has after the
\* update, and a process of which was found by the update, is listed as running.  It
\* is false of the servers of WebLogic (WebLogicFileReader::ReadConfigXml), as
\* RunningIsWhatWasFound says, and no run checks it.
AllThatRunIsRunning ==
  [][at = "found" /\ at' = "loaded" =>
       \A p \in In(known') : found[known'[p].id] > 0 => known'[p].run]_vars
=============================================================================
