-------------------------- MODULE AppServerCacheProofs --------------------------
(***************************************************************************)
(* For any number of application servers, paths and settings: the list and *)
(* the cache of the application server provider keep what MonitoredServers *)
(* promises, wherever saving fails or the agent crashes.  What makes it    *)
(* all or nothing is the number in the metadata, which is written first:   *)
(* a file with a part of the instances has another number of them, since   *)
(* there are finitely many.                                                *)
(***************************************************************************)
EXTENDS AppServerCache, FiniteSetTheorems, TLAPS

LEMMA NoEntryIsNone == NoEntry.deep = Unknown /\ NoEntry \notin Entries
  BY SettingAssumption DEF NoEntry, Entries

\* In tells where a list has an entry.
LEMMA ListEntries ==
  ASSUME NEW list \in Lists
  PROVE  /\ In(list) \subseteq Paths
         /\ \A p \in Paths : p \in In(list) => list[p] \in Entries /\ list[p].deep \in Settings
         /\ \A p \in Paths : p \notin In(list) => list[p] = NoEntry /\ list[p].deep = Unknown
  BY NoEntryIsNone DEF In, Lists, Entries

LEMMA EmptyListIn == EmptyList \in Lists /\ In(EmptyList) = {}
  BY DEF EmptyList, Lists, In

\* The number of entries of a list, and that it tells a part of them from all.
LEMMA InIsCounted ==
  ASSUME NEW part \in Lists, NEW list \in Lists, In(part) \subseteq In(list)
  PROVE  /\ Cardinality(In(list)) \in Nat
         /\ Cardinality(In(part)) = Cardinality(In(list)) => In(part) = In(list)
<1>1. IsFiniteSet(In(list))
  BY ListEntries, ServerAssumption, FS_Subset
<1>2. Cardinality(In(list)) \in Nat
  BY <1>1, FS_CardinalityType
<1>3. Cardinality(In(part)) = Cardinality(In(list)) => In(part) = In(list)
  BY <1>1, FS_Subset
<1> QED
  BY <1>2, <1>3

LEMMA NoFileReads == NoFile \in [size : Int, items : Lists] /\ ~(NoFile.size = Cardinality(In(NoFile.items)))
<1>1. NoFile.size = -1 /\ NoFile.items = EmptyList
  BY DEF NoFile
<1>2. Cardinality(In(EmptyList)) = 0
  BY EmptyListIn, FS_EmptySet
<1> QED
  BY <1>1, <1>2, EmptyListIn DEF NoFile

-----------------------------------------------------------------------------
(* The invariant.                                                          *)

LEMMA InitIInv == Init => IInv
<1> SUFFICES ASSUME Init PROVE IInv
  OBVIOUS
<1>1. TypeOK
  BY EmptyListIn, NoFileReads DEF Init, TypeOK, NoProcess
<1>2. ListInv
  BY NoFileReads DEF Init, ListInv, NoFile, EmptyList
<1> QED
  BY <1>1, <1>2 DEF IInv

\* What Remaining leaves of an entry is an entry with the same flag.
LEMMA RemainingEntry ==
  ASSUME IInv, NEW p \in Paths
  PROVE  \/ Remaining(p) = NoEntry /\ (known[p] = NoEntry \/ p \notin installed)
         \/ /\ Remaining(p) \in Entries /\ Remaining(p) # NoEntry
            /\ known[p] # NoEntry /\ Remaining(p).id = known[p].id
            /\ Remaining(p).deep = known[p].deep /\ ~Remaining(p).run
<1>1. CASE known[p] = NoEntry \/ p \notin installed
  BY <1>1 DEF Remaining
<1>2. CASE known[p] # NoEntry /\ p \in installed
  <2>1. known[p] \in Entries
    BY <1>2 DEF IInv, TypeOK, Lists
  <2>2. Remaining(p) = [known[p] EXCEPT !.run = FALSE]
    BY <1>2 DEF Remaining
  <2>3. Remaining(p) \in Entries
    BY <2>1, <2>2 DEF Entries
  <2> QED
    BY <1>2, <2>1, <2>2, <2>3, NoEntryIsNone DEF Entries
<1> QED
  BY <1>1, <1>2

\* What may be the entry at p: nothing, one that was found at p, or the known one.
LEMMA MergedEntry ==
  ASSUME IInv, NEW p \in Paths, NEW e \in Merged(p)
  PROVE  \/ e = NoEntry /\ New(p) = {} /\ (known[p] = NoEntry \/ p \notin installed)
         \/ /\ e \in Entries /\ New(p) = {} /\ known[p] # NoEntry
            /\ e.id = known[p].id /\ e.deep = known[p].deep /\ ~e.run
         \/ /\ e \in Entries /\ e.id \in New(p) /\ (e.run <=> e.id \notin Configured)
            /\ \/ e.deep = known[p].deep /\ known[p] # NoEntry
               \/ e.deep = Off /\ (Several(p) \/ known[p] = NoEntry \/ p \notin installed)
         \/ /\ e \in Entries /\ known[p] # NoEntry /\ e.id = known[p].id /\ ~e.run
            /\ e.deep = Off /\ ~Stable /\ InConfig(p) # {}
<1>1. CASE New(p) = {}
  BY <1>1, RemainingEntry DEF Merged
<1>2. CASE New(p) # {}
  <2> DEFINE copied == IF Several(p) \/ Remaining(p) = NoEntry THEN Off ELSE Remaining(p).deep
  <2>1. copied \in Settings
    BY RemainingEntry, SettingAssumption DEF Entries
  <2>2. ASSUME NEW s \in New(p), e = NewEntry(s, copied)
        PROVE  /\ e \in Entries /\ e.id \in New(p) /\ (e.run <=> e.id \notin Configured)
               /\ e.deep = copied
    <3>1. s \in Servers
      BY ServerAssumption DEF New, FoundByProcess, InConfig
    <3>2. e = [id |-> s, run |-> s \notin Configured, deep |-> copied]
      BY <2>2 DEF NewEntry
    <3> HIDE DEF copied
    <3> QED
      BY <2>1, <3>1, <3>2 DEF Entries
  <2>3. ASSUME ~Stable, InConfig(p) # {}, Remaining(p) # NoEntry,
               e = [Remaining(p) EXCEPT !.deep = Off]
        PROVE  /\ e \in Entries /\ known[p] # NoEntry /\ e.id = known[p].id /\ ~e.run
               /\ e.deep = Off
    BY <2>3, RemainingEntry, SettingAssumption DEF Entries
  <2> QED
    BY <1>2, <2>2, <2>3, RemainingEntry DEF Merged
<1> QED
  BY <1>1, <1>2

LEMMA NewIsThere ==
  ASSUME NEW p \in Paths, NEW s \in New(p)
  PROVE  s \in Servers /\ PathOf[s] = p
  BY ServerAssumption DEF New, FoundByProcess, InConfig

LEMMA MergeIInv == IInv /\ MergeProcesses => IInv'
<1> SUFFICES ASSUME IInv, MergeProcesses PROVE IInv'
  OBVIOUS
<1>1. \A p \in Paths : known'[p] \in Entries \cup {NoEntry}
  <2> SUFFICES ASSUME NEW p \in Paths PROVE known'[p] \in Entries \cup {NoEntry}
    OBVIOUS
  <2>1. PICK e \in Merged(p) : known'[p] = e
    BY DEF MergeProcesses
  <2> QED
    BY <2>1, MergedEntry
<1>2. known' \in Lists
  BY <1>1 DEF MergeProcesses, Lists
<1>3. \A p \in Paths : known'[p] # NoEntry => PathOf[known'[p].id] = p
  <2> SUFFICES ASSUME NEW p \in Paths, known'[p] # NoEntry PROVE PathOf[known'[p].id] = p
    OBVIOUS
  <2>1. known[p] # NoEntry => PathOf[known[p].id] = p
    BY DEF IInv, ListInv
  <2>2. PICK e \in Merged(p) : known'[p] = e
    BY DEF MergeProcesses
  <2>3. known'[p].id \in New(p) \/ (known[p] # NoEntry /\ known'[p].id = known[p].id)
    BY <2>2, MergedEntry
  <2> QED
    BY <2>1, <2>3, NewIsThere
<1> QED
  BY <1>2, <1>3 DEF IInv, TypeOK, ListInv, MergeProcesses, host, NoProcess

\* What happens on the host leaves list and cache alone.
LEMMA HostIInv ==
  ASSUME IInv, \/ \E s \in Servers : Start(s) \/ End(s)
               \/ \E p \in Paths : Install(p) \/ Remove(p)
  PROVE  IInv' /\ UNCHANGED provider
<1>0. ASSUME UNCHANGED provider, procs' \in [Servers -> 0 .. 2], installed' \subseteq Paths
      PROVE  IInv'
  BY <1>0 DEF IInv, TypeOK, ListInv, provider
<1> USE DEF IInv, TypeOK
<1>1. ASSUME NEW s \in Servers, Start(s) \/ End(s)
      PROVE  IInv' /\ UNCHANGED provider
  <2>1. procs' \in [Servers -> 0 .. 2]
    BY <1>1 DEF Start, End
  <2>2. UNCHANGED <<installed, provider>>
    BY <1>1 DEF Start, End
  <2> QED
    BY <1>0, <2>1, <2>2
<1>2. ASSUME NEW p \in Paths, Install(p) \/ Remove(p)
      PROVE  IInv' /\ UNCHANGED provider
  <2>1. UNCHANGED <<procs, provider>> /\ installed' \subseteq Paths
    BY <1>2 DEF Install, Remove
  <2> QED
    BY <1>0, <2>1
<1> QED
  BY <1>1, <1>2

\* An entry that is written to the file is the one of the list, not running.
LEMMA WriteIInv ==
  ASSUME IInv, NEW p \in Paths, WriteInstance(p)
  PROVE  /\ IInv'
         /\ file' = [file EXCEPT !.items[p] = Persisted(known[p])]
         /\ Persisted(known[p]) \in Entries /\ Persisted(known[p]).deep = known[p].deep
         /\ In(file.items)' = In(file.items) \cup {p}
<1> USE DEF IInv
<1>1. known[p] \in Entries /\ p \in In(known)
  BY ListEntries DEF WriteInstance, TypeOK
<1> DEFINE e == Persisted(known[p])
<1>2. e \in Entries /\ ~e.run /\ e.id = known[p].id /\ e.deep = known[p].deep
  BY <1>1 DEF Persisted, Entries
<1>3. file' = [file EXCEPT !.items[p] = e] /\ at = "write" /\ UNCHANGED <<host, at, found, known>>
  BY DEF WriteInstance
<1> HIDE DEF e
<1>4. /\ file' \in [size : Int, items : Lists] /\ file'.size = file.size
      /\ file'.items[p] = e /\ \A q \in Paths : q # p => file'.items[q] = file.items[q]
  BY <1>2, <1>3 DEF TypeOK, Lists
<1>5. In(file.items)' = In(file.items) \cup {p}
  BY <1>2, <1>4, NoEntryIsNone DEF In
<1>6. TypeOK'
  BY <1>3, <1>4 DEF TypeOK, host
<1>7. ListInv'
  <2>1. \A q \in Paths : file'.items[q] # NoEntry => PathOf[file'.items[q].id] = q /\ ~file'.items[q].run
    BY <1>1, <1>2, <1>4, NoEntryIsNone DEF ListInv
  <2>2. \A q \in In(file.items) \cup {p} : file'.items[q] = Persisted(known[q])
    BY <1>3, <1>4 DEF ListInv, e, In
  <2> QED
    BY <1>3, <1>4, <1>5, <2>1, <2>2 DEF ListInv, In
<1> QED
  BY <1>2, <1>3, <1>5, <1>6, <1>7 DEF e

LEMMA StepIInv == IInv /\ [Next]_vars => IInv'
<1> SUFFICES ASSUME IInv, [Next]_vars PROVE IInv'
  OBVIOUS
<1> USE DEF IInv, TypeOK, ListInv, host
<1>1. CASE \/ \E s \in Servers : Start(s) \/ End(s)
           \/ \E p \in Paths : Install(p) \/ Remove(p)
  BY <1>1, HostIInv
<1>2. CASE \E p \in Paths : WriteInstance(p)
  BY <1>2, WriteIInv
<1>3. CASE MergeProcesses
  BY <1>3, MergeIInv
<1>4. CASE ListProcesses
  BY <1>4 DEF ListProcesses, In
<1>5. CASE ReadFromDisk
  <2>1. known' \in Lists
    BY <1>5 DEF ReadFromDisk, Lists
  <2> QED
    BY <1>5, <2>1 DEF ReadFromDisk
<1>6. ASSUME NEW s \in Servers, NEW v \in Settings, SetDeepMonitoring(s, v)
      PROVE  IInv'
  <2> DEFINE p == PathOf[s]
  <2>1. p \in Paths /\ known[p] \in Entries /\ known[p] # NoEntry
    BY <1>6, ServerAssumption, ListEntries DEF SetDeepMonitoring, In
  <2>2. known' = [known EXCEPT ![p].deep = v]
    BY <1>6 DEF SetDeepMonitoring
  <2>3. [known[p] EXCEPT !.deep = v] \in Entries /\ [known[p] EXCEPT !.deep = v].id = known[p].id
    BY <2>1 DEF Entries
  <2>4. /\ known' \in Lists
        /\ known'[p].id = known[p].id /\ \A q \in Paths : q # p => known'[q] = known[q]
    BY <2>1, <2>2, <2>3 DEF Lists
  <2>5. \A q \in Paths : known'[q] # NoEntry => PathOf[known'[q].id] = q
    BY <2>1, <2>4
  <2> QED
    BY <1>6, <2>4, <2>5 DEF SetDeepMonitoring
<1>7. CASE BeginCleanUp
  BY <1>7 DEF BeginCleanUp
<1>8. CASE EraseFromDisk
  BY <1>8, NoFileReads DEF EraseFromDisk, NoFile, EmptyList
<1>9. CASE WriteMetadata
  <2>1. Cardinality(In(known)) \in Int
    BY InIsCounted
  <2>2. file'.size = Cardinality(In(known)) /\ file'.items = EmptyList
    BY <1>9 DEF WriteMetadata, NoFile
  <2>3. file' \in [size : Int, items : Lists]
    BY <1>9, <2>1, EmptyListIn DEF WriteMetadata, NoFile
  <2> QED
    BY <1>9, <2>2, <2>3, EmptyListIn DEF WriteMetadata, EmptyList, In
<1>10. CASE DoneWriting
  BY <1>10, EmptyListIn DEF DoneWriting, EmptyList
<1>11. CASE WriteFails
  BY <1>11 DEF WriteFails
<1>12. CASE Crash
  <2>1. file' \in [size : Int, items : Lists]
    BY <1>12, NoFileReads DEF Crash
  <2>2. \A q \in Paths : file'.items[q] # NoEntry => PathOf[file'.items[q].id] = q /\ ~file'.items[q].run
    BY <1>12 DEF Crash, NoFile, EmptyList
  <2> QED
    BY <1>12, <2>1, <2>2, EmptyListIn DEF Crash, NoProcess, EmptyList
<1>13. CASE UNCHANGED vars
  BY <1>13 DEF vars, In
<1> QED
  BY <1>1, <1>2, <1>3, <1>4, <1>5, <1>6, <1>7, <1>8, <1>9, <1>10, <1>11, <1>12, <1>13
     DEF Next

\* The list has an entry only under its own path, and the file has only entries of
\* the list and, from its first line on, their number.
THEOREM ListInvariant == Spec => []IInv
<1> QED
  BY InitIInv, StepIInv, PTL DEF Spec

-----------------------------------------------------------------------------
(* The refinement.                                                         *)

LEMMA SettingsOfLists ==
  /\ SettingsIn(EmptyList) = Servers_!Nothing
  /\ \A list \in Lists : /\ SettingsIn(list) \in [Paths -> Settings \cup {Unknown}]
                         /\ \A p \in Paths : SettingsIn(list)[p] = list[p].deep
<1>1. \A list \in Lists, p \in Paths : list[p].deep \in Settings \cup {Unknown}
  BY ListEntries
<1> QED
  BY <1>1, NoEntryIsNone DEF SettingsIn, EmptyList, Servers_!Nothing

\* A file tells nothing before it has all entries of the list that it was begun with.
LEMMA FileIsAllOrNothing ==
  ASSUME NEW items \in Lists, NEW list \in Lists, In(items) \subseteq In(list),
         \A p \in In(items) : items[p].deep = list[p].deep
  PROVE  IF Cardinality(In(list)) = Cardinality(In(items))
           THEN In(items) = In(list) /\ SettingsIn(items) = SettingsIn(list)
           ELSE In(items) # In(list)
<1>1. CASE Cardinality(In(list)) = Cardinality(In(items))
  <2>1. In(items) = In(list)
    BY <1>1, InIsCounted
  <2>2. \A p \in Paths : items[p].deep = list[p].deep
    BY <2>1, ListEntries
  <2> QED
    BY <1>1, <2>1, <2>2 DEF SettingsIn
<1>2. CASE Cardinality(In(list)) # Cardinality(In(items))
  BY <1>2
<1> QED
  BY <1>1, <1>2

\* With the list and the file as they are.
LEMMA SameSettings ==
  ASSUME UNCHANGED <<known, file>>
  PROVE  Durable' = Durable /\ SettingsIn(known)' = SettingsIn(known)
  BY DEF Durable, Readable, SettingsIn, In

LEMMA InitRefines == Init => Servers_!Init
<1> SUFFICES ASSUME Init PROVE Servers_!Init
  OBVIOUS
<1>1. ~Readable
  BY NoFileReads DEF Init, Readable
<1> QED
  BY <1>1, SettingsOfLists DEF Init, Servers_!Init, Durable

\* An update that merges what was found keeps every setting that it may not lose.
LEMMA MergeRefines == IInv /\ MergeProcesses => Servers_!Update
<1> SUFFICES ASSUME IInv, MergeProcesses PROVE Servers_!Update
  OBVIOUS
<1> USE DEF IInv, TypeOK
<1>1. known' \in Lists /\ at = "found" /\ at' = "loaded" /\ UNCHANGED <<installed, file>>
  BY MergeIInv DEF MergeProcesses, host
<1>2. Durable' = Durable
  BY <1>1 DEF Durable, Readable, In, SettingsIn
<1>3. SettingsIn(known') \in [Paths -> Settings \cup {Unknown}]
  BY <1>1, SettingsOfLists
<1>4. ASSUME NEW p \in Paths
      PROVE  SettingsIn(known')[p] \in
               {SettingsIn(known)[p]}
               \cup (IF SettingsIn(known)[p] = Unknown THEN {Off} ELSE {})
               \cup (IF p \in Paths \ installed THEN {Unknown, Off} ELSE {})
               \cup (IF p \in {q \in Paths : Several(q) \/ (~Stable /\ InConfig(q) # {})}
                       THEN {Off} ELSE {})
  <2>1. PICK e \in Merged(p) : known'[p] = e
    BY DEF MergeProcesses
  <2>2. SettingsIn(known')[p] = e.deep /\ SettingsIn(known)[p] = known[p].deep
    BY <1>1, <2>1, SettingsOfLists
  <2>3. known[p] = NoEntry => known[p].deep = Unknown
    BY NoEntryIsNone
  <2> QED
    BY <2>2, <2>3, MergedEntry, NoEntryIsNone
<1> QED
  BY <1>1, <1>2, <1>3, <1>4
     DEF Servers_!Update, Servers_!May

LEMMA ReadRefines == IInv /\ ReadFromDisk => Servers_!Update
<1> SUFFICES ASSUME IInv, ReadFromDisk PROVE Servers_!Update
  OBVIOUS
<1>1. /\ at = "unloaded" /\ at' = "read" /\ UNCHANGED <<installed, file>>
      /\ known' = [p \in Paths |-> IF Readable /\ p \in installed
                                     THEN file.items[p] ELSE NoEntry]
  BY DEF ReadFromDisk, host
<1>2. Durable' = Durable
  BY <1>1 DEF Durable, Readable, In, SettingsIn
<1>3. known' \in Lists /\ file.items \in Lists
  BY <1>1 DEF IInv, TypeOK, Lists
<1>4. SettingsIn(known') \in [Paths -> Settings \cup {Unknown}]
  BY <1>3, SettingsOfLists
<1>5. ASSUME NEW p \in Paths
      PROVE  SettingsIn(known')[p] \in {Durable[p]} \cup (IF p \in Paths \ installed THEN {Unknown, Off} ELSE {})
  <2>1. SettingsIn(known')[p] = known'[p].deep
    BY <1>3, SettingsOfLists
  <2>2. SettingsIn(file.items)[p] = file.items[p].deep /\ SettingsIn(EmptyList)[p] = Unknown
    BY <1>3, SettingsOfLists DEF Servers_!Nothing
  <2> QED
    BY <1>1, <2>1, <2>2, NoEntryIsNone DEF Durable
<1> QED
  BY <1>1, <1>2, <1>4, <1>5 DEF Servers_!Update, Servers_!May

LEMMA SetRefines ==
  ASSUME IInv, NEW s \in Servers, NEW v \in Settings, SetDeepMonitoring(s, v)
  PROVE  Servers_!Set(PathOf[s], v)
<1> DEFINE p == PathOf[s]
<1>1. /\ at = "loaded" /\ UNCHANGED <<at, file>>
      /\ known' = [known EXCEPT ![p].deep = v]
      /\ p \in Paths /\ p \in In(known)
  BY ServerAssumption DEF SetDeepMonitoring
<1>2. known \in Lists /\ known[p] \in Entries /\ known[p].deep # Unknown
  BY <1>1, ListEntries, SettingAssumption DEF IInv, TypeOK
<1>3. SettingsIn(known)[p] # Unknown
  BY <1>1, <1>2, SettingsOfLists
<1>4. SettingsIn(known)' = [SettingsIn(known) EXCEPT ![p] = v]
  BY <1>1, <1>2 DEF SettingsIn, Lists, Entries
<1>5. Durable' = Durable
  BY <1>1 DEF Durable, Readable, In, SettingsIn
<1> QED
  BY <1>1, <1>3, <1>4, <1>5 DEF Servers_!Set

\* The file is worth nothing while it is begun and written, and all when the last
\* entry is there.
LEMMA WriteRefines ==
  ASSUME IInv, NEW p \in Paths, WriteInstance(p)
  PROVE  Servers_!Save \/ Servers_!Environment
<1> USE DEF IInv, TypeOK
<1>1. /\ at = "write" /\ at' = "write" /\ known' = known
      /\ p \in In(known) /\ p \notin In(file.items)
  BY DEF WriteInstance
<1>2. /\ file.size = Cardinality(In(known)) /\ In(file.items) \subseteq In(known)
      /\ \A q \in In(file.items) : file.items[q].deep = known[q].deep
  <2>1. \A q \in In(file.items) : file.items[q] = Persisted(known[q])
    BY <1>1 DEF ListInv
  <2>2. \A q \in Paths : file.items[q] \in Entries => known[q] \in Entries \cup {NoEntry}
    BY DEF Lists
  <2>3. \A q \in In(file.items) : q \in In(known) /\ file.items[q].deep = known[q].deep
    <3> SUFFICES ASSUME NEW q \in In(file.items)
                 PROVE  q \in In(known) /\ file.items[q].deep = known[q].deep
      OBVIOUS
    <3>1. q \in Paths /\ file.items[q] \in Entries
      BY ListEntries
    <3>2. CASE known[q] = NoEntry
      <4>1. Persisted(NoEntry).deep = Unknown
        BY DEF Persisted, NoEntry
      <4> QED
        BY <2>1, <3>1, <3>2, <4>1, SettingAssumption DEF Entries
    <3>3. CASE known[q] \in Entries
      BY <2>1, <3>1, <3>3, NoEntryIsNone DEF Persisted, Entries, In
    <3> QED
      BY <2>2, <3>1, <3>2, <3>3
  <2> QED
    BY <1>1, <2>3 DEF ListInv
<1>3. ~Readable
  BY <1>1, <1>2, FileIsAllOrNothing DEF Readable
<1>4. /\ file' \in [size : Int, items : Lists] /\ file'.size = file.size
      /\ file'.items[p].deep = known[p].deep
      /\ \A q \in Paths : q # p => file'.items[q] = file.items[q]
      /\ In(file'.items) = In(file.items) \cup {p}
  BY WriteIInv DEF Lists
<1>5. /\ In(file'.items) \subseteq In(known)
      /\ \A q \in In(file'.items) : file'.items[q].deep = known[q].deep
  BY <1>1, <1>2, <1>4 DEF In
<1>6. CASE Readable'
  <2>1. SettingsIn(file'.items) = SettingsIn(known)
    BY ZenonT(30), <1>2, <1>4, <1>5, <1>6, FileIsAllOrNothing DEF Readable
  <2>2. Durable' = SettingsIn(known) /\ SettingsIn(known)' = SettingsIn(known)
    BY <1>1, <1>6, <2>1 DEF Durable, SettingsIn
  <2> QED
    BY <1>1, <2>2 DEF Servers_!Save
<1>7. CASE ~Readable'
  <2>1. Durable' = Durable /\ SettingsIn(known)' = SettingsIn(known)
    BY <1>1, <1>3, <1>7 DEF Durable, SettingsIn, EmptyList
  <2> QED
    BY <1>1, <2>1 DEF Servers_!Environment
<1> QED
  BY <1>6, <1>7

\* The steps of a save before the first entry, and after the last.
LEMMA SaveRefines ==
  ASSUME IInv, EraseFromDisk \/ WriteMetadata \/ DoneWriting
  PROVE  Servers_!BeginSave \/ Servers_!EndSave \/ Servers_!Environment
<1> USE DEF IInv, TypeOK
<1>1. file = NoFile => Durable = Servers_!Nothing
  BY NoFileReads, SettingsOfLists DEF Durable, Readable
<1>2. CASE EraseFromDisk
  <2>1. Durable' = Servers_!Nothing
    BY <1>2, NoFileReads, SettingsOfLists
       DEF EraseFromDisk, Durable, Readable, SettingsIn, EmptyList, In
  <2>2. SettingsIn(known)' = SettingsIn(known)
    BY <1>2 DEF EraseFromDisk, SettingsIn
  <2> QED
    BY <1>2, <2>1, <2>2 DEF EraseFromDisk, Servers_!BeginSave, Servers_!Nothing
<1>3. CASE WriteMetadata
  <2>1. file = NoFile /\ file'.items = EmptyList /\ known' = known /\ at = "header" /\ at' = "write"
    BY <1>3 DEF WriteMetadata, ListInv, NoFile
  <2>2. Durable' = SettingsIn(EmptyList)
    BY <2>1 DEF Durable, SettingsIn, EmptyList
  <2>3. Durable' = Durable /\ SettingsIn(known)' = SettingsIn(known)
    BY <1>1, <2>1, <2>2, SettingsOfLists DEF SettingsIn
  <2> QED
    BY <2>1, <2>3 DEF Servers_!Environment
<1>4. CASE DoneWriting
  <2>1. /\ at = "write" /\ at' = "unloaded" /\ file' = file
        /\ In(file.items) = In(known) /\ file.size = Cardinality(In(known))
    BY <1>4 DEF DoneWriting, ListInv
  <2>2. \A q \in In(file.items) : file.items[q].deep = known[q].deep
    <3>1. \A q \in In(file.items) : known[q] \in Entries /\ file.items[q] = Persisted(known[q])
      BY <2>1, ListEntries DEF ListInv
    <3> QED
      BY <3>1 DEF Persisted, Entries
  <2>3. Readable /\ SettingsIn(file.items) = SettingsIn(known)
    BY <2>1, <2>2, FileIsAllOrNothing DEF Readable
  <2>4. Durable = SettingsIn(known) /\ Durable' = Durable
    BY <2>1, <2>3 DEF Durable, Readable, SettingsIn, In
  <2> QED
    BY <2>1, <2>4 DEF Servers_!EndSave
<1> QED
  BY <1>2, <1>3, <1>4

LEMMA CrashRefines == IInv /\ Crash => Servers_!Crash
<1> SUFFICES ASSUME IInv, Crash PROVE Servers_!Crash
  OBVIOUS
<1>1. at' = "unloaded"
  BY DEF Crash
<1>2. CASE file' = file
  BY <1>1, <1>2 DEF Servers_!Crash, Durable, Readable, SettingsIn, In
<1>3. CASE at = "write" /\ file' = NoFile
  <2>1. Durable' = Servers_!Nothing
    BY <1>3, NoFileReads, SettingsOfLists DEF Durable, Readable, SettingsIn, EmptyList, In
  <2> QED
    BY <1>1, <1>3, <2>1 DEF Servers_!Crash, Servers_!Nothing
<1> QED
  BY <1>2, <1>3 DEF Crash

LEMMA NextRefines == IInv /\ [Next]_vars => [Servers_!Next]_(Servers_!vars)
<1> SUFFICES ASSUME IInv, Next PROVE Servers_!Next
  <2>1. UNCHANGED vars => UNCHANGED Servers_!vars
    BY DEF vars, host, Servers_!vars, Durable, Readable, SettingsIn, In, Several,
           FoundByProcess, InConfig
  <2> QED
    BY <2>1
<1> USE DEF Servers_!Next
<1>1. ASSUME UNCHANGED <<known, file>>, at' = at PROVE Servers_!Environment
  BY <1>1, SameSettings DEF Servers_!Environment
<1>2. CASE \/ \E s \in Servers : Start(s) \/ End(s)
           \/ \E p \in Paths : Install(p) \/ Remove(p)
  BY <1>1, <1>2, HostIInv DEF provider
<1>3. CASE \E p \in Paths : WriteInstance(p)
  BY <1>3, WriteRefines
<1>4. CASE MergeProcesses \/ ReadFromDisk
  BY <1>4, MergeRefines, ReadRefines
<1>5. CASE \E s \in Servers, v \in Settings : SetDeepMonitoring(s, v)
  BY <1>5, SetRefines, ServerAssumption
<1>6. CASE ListProcesses \/ BeginCleanUp
  BY <1>6, SameSettings DEF ListProcesses, BeginCleanUp, Servers_!Environment
<1>7. CASE EraseFromDisk \/ WriteMetadata \/ DoneWriting
  BY <1>7, SaveRefines
<1>8. CASE WriteFails
  <2>1. CASE at = "erase"
    BY <1>8, <2>1, SameSettings DEF WriteFails, Servers_!Environment
  <2>2. CASE at \in {"header", "write"}
    BY <1>8, <2>2, SameSettings DEF WriteFails, Servers_!EndSave
  <2> QED
    BY <1>8, <2>1, <2>2 DEF WriteFails
<1>9. CASE Crash
  BY <1>9, CrashRefines
<1> QED
  BY <1>2, <1>3, <1>4, <1>5, <1>6, <1>7, <1>8, <1>9 DEF Next

\* The provider implements the store of settings: a setting stays in force until it
\* is changed, its server is gone or the update cannot tell, and a start finds
\* what was saved last, all of it or nothing.
THEOREM CacheImplementsMonitoredServers == Spec => ImplementsMonitoredServers
<1> QED
  BY ListInvariant, InitRefines, NextRefines, PTL
     DEF Spec, ImplementsMonitoredServers, Servers_!Spec

-----------------------------------------------------------------------------
\* Of the servers at a path the one that an update keeps is listed as running exactly
\* when a process that names its server was found there, and then it has a process; a
\* server of WebLogic is never listed as running, not even one whose process was found.
THEOREM UpdateTellsWhatRuns == Spec => RunningIsWhatWasFound
<1>1. ASSUME IInv, Next, at = "found", at' = "loaded", NEW p \in Paths
      PROVE  /\ known'[p].run <=> FoundByProcess(p) # {}
             /\ known'[p].run => /\ known'[p].id \notin Configured
                                 /\ found[known'[p].id] > 0
  <2>1. MergeProcesses
    BY <1>1 DEF Next, Start, End, Install, Remove, provider, WriteInstance, ListProcesses,
         ReadFromDisk, SetDeepMonitoring, BeginCleanUp, EraseFromDisk, WriteMetadata,
         DoneWriting, WriteFails, Crash
  <2>2. PICK e \in Merged(p) : known'[p] = e
    BY <2>1 DEF MergeProcesses
  <2>3. ~NoEntry.run
    BY DEF NoEntry
  <2>4. InConfig(p) # {} => FoundByProcess(p) = {}
    BY ServerAssumption DEF FoundByProcess, InConfig
  <2>5. New(p) = FoundByProcess(p) \cup InConfig(p)
    BY DEF New
  <2>6. \A s \in New(p) : /\ s \notin Configured <=> s \in FoundByProcess(p)
                          /\ s \in FoundByProcess(p) => found[s] > 0
    BY DEF New, FoundByProcess, InConfig
  <2>7. CASE e = NoEntry /\ New(p) = {}
    BY <2>2, <2>3, <2>5, <2>7
  <2>8. CASE ~e.run /\ (New(p) = {} \/ InConfig(p) # {})
    BY <2>2, <2>4, <2>5, <2>8
  <2>9. CASE e.id \in New(p) /\ (e.run <=> e.id \notin Configured)
    <3>1. e.run <=> e.id \in FoundByProcess(p)
      BY <2>6, <2>9
    <3>2. e.id \in FoundByProcess(p) <=> FoundByProcess(p) # {}
      BY <2>4, <2>5, <2>9
    <3>3. e.run => /\ e.id \notin Configured
                   /\ found[e.id] > 0
      BY <2>6, <2>9
    <3> QED
      BY <2>2, <3>1, <3>2, <3>3
  <2> QED
    BY <1>1, <2>7, <2>8, <2>9, MergedEntry
<1>2. IInv /\ [Next]_vars =>
        [at = "found" /\ at' = "loaded" =>
           \A p \in Paths : /\ known'[p].run <=> FoundByProcess(p) # {}
                            /\ known'[p].run => /\ known'[p].id \notin Configured
                                                /\ found[known'[p].id] > 0]_vars
  BY <1>1
<1> QED
  BY <1>2, ListInvariant, PTL DEF Spec, RunningIsWhatWasFound
=============================================================================
