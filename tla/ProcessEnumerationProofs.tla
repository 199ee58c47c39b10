----------------------- MODULE ProcessEnumerationProofs -----------------------
(***************************************************************************)
(* The table of ProcessEnumeration is consistent for any number of pids,   *)
(* passes and births.  IInv adds to the two claims about the table what    *)
(* holds in the middle of a pass.  The provider is harmless because it only*)
(* writes the deltas of an instance; the sampler, because what it visits   *)
(* is the instance of one pid, and no two pids share an instance.          *)
(***************************************************************************)
EXTENDS ProcessEnumeration, TLAPS

\* The initial table is empty.
LEMMA InitIInv == Init => IInv
  BY BoundsAssumption DEF Init, IInv, Instances, TypeOK, TableIsExclusive,
     TableIsRecent, FlagsSinceSweep, ScanIsKnown, Known, Ids, Blank, Requests, Births, Passes

\* An instance of the table is one of the objects.
LEMMA KnownIsId ==
  ASSUME TypeOK, NEW p \in Pids, Known(p)
  PROVE  /\ InstanceOf(p) \in Ids
         /\ obj[InstanceOf(p)] \in Instances
  BY BoundsAssumption DEF TypeOK, Known, InstanceOf, Ids, Passes

\* Visiting p touches the instance of p only: either the instance in the table
\* gets values and sample together with its flag, or it stays or goes unflagged.
LEMMA VisitIInv ==
  ASSUME IInv, NEW p \in Pids, Visit(p)
  PROVE  IInv'
<1> USE DEF IInv
<1>1. /\ sp = "walk" /\ sp' = sp /\ p \in todo /\ todo' = todo \ {p}
      /\ UNCHANGED <<pass, swept, before, holder>>
      /\ pass \in 1..MaxPasses /\ swept \in Nat /\ before \in Nat
      /\ before <= swept /\ swept < pass
      BY BoundsAssumption DEF Visit, FlagsSinceSweep, TypeOK, Passes
<1>2. CASE os[p] = 0
  BY <1>1, <1>2 DEF Visit, TypeOK, TableIsExclusive, TableIsRecent,
     FlagsSinceSweep, ScanIsKnown, Known, InstanceOf, IsRecent, providerVars, osVars
<1>3. CASE os[p] # 0 /\ Known(p)
  <2>1. UpdateKnown(p)
    BY <1>3 DEF Visit
  <2> DEFINE id == InstanceOf(p)
  <2>2. id \in Ids /\ procs' = procs
    BY <1>3, <2>1, KnownIsId DEF UpdateKnown
  <2> DEFINE Fresh(o) == /\ IsRecent(o)
                         /\ o.found => swept < o.stat /\ swept < o.tics
  <2>3. /\ obj' \in [Ids -> Instances]
        /\ Fresh(obj'[id])
        /\ \A i \in Ids : i # id => obj'[i] = obj[i]
    <3>1. os[p] \in Births /\ pass \in Passes
      BY DEF TypeOK
    <3>2. Fresh(obj[id])
      BY <1>3 DEF FlagsSinceSweep
    <3>3. obj[id] \in Instances
      BY <1>3, KnownIsId
    <3>4. PICK o \in Instances :
             /\ obj' = [obj EXCEPT ![id] = o]
             /\ Fresh(o)
      <4>1. CASE obj' = [obj EXCEPT ![id].proc = os[p], ![id].stat = pass,
                                    ![id].tics = pass, ![id].found = TRUE]
        <5> DEFINE o == [obj[id] EXCEPT !.proc = os[p], !.stat = pass,
                                        !.tics = pass, !.found = TRUE]
        <5>1. o \in Instances
          BY <3>1, <3>3 DEF Instances
        <5>2. obj' = [obj EXCEPT ![id] = o]
          BY <4>1, <2>2, <3>3 DEF TypeOK, Instances
        <5>3. Fresh(o)
          BY <1>1, <3>1, <3>2, <3>3 DEF Instances, IsRecent, Passes
        <5> QED
          BY <5>1, <5>2, <5>3
      <4>2. CASE obj' = [obj EXCEPT ![id].proc = os[p], ![id].stat = pass,
                                    ![id].found = FALSE]
        <5> DEFINE o == [obj[id] EXCEPT !.proc = os[p], !.stat = pass,
                                        !.found = FALSE]
        <5>1. o \in Instances
          BY <3>1, <3>3 DEF Instances
        <5>2. obj' = [obj EXCEPT ![id] = o]
          BY <4>2, <2>2, <3>3 DEF TypeOK, Instances
        <5>3. Fresh(o)
          BY <1>1, <3>1, <3>2, <3>3 DEF Instances, IsRecent, Passes
        <5> QED
          BY <5>1, <5>2, <5>3
      <4>3. CASE obj' = [obj EXCEPT ![id].found = FALSE]
        <5> DEFINE o == [obj[id] EXCEPT !.found = FALSE]
        <5>1. o \in Instances
          BY <3>1, <3>3 DEF Instances
        <5>2. obj' = [obj EXCEPT ![id] = o]
          BY <4>3, <2>2, <3>3 DEF TypeOK, Instances
        <5>3. Fresh(o)
          BY <1>1, <3>1, <3>2, <3>3 DEF Instances, IsRecent, Passes
        <5> QED
          BY <5>1, <5>2, <5>3
      <4>4. CASE obj' = [obj EXCEPT ![id].proc = os[p], ![id].stat = pass]
        <5> DEFINE o == [obj[id] EXCEPT !.proc = os[p], !.stat = pass]
        <5>1. o \in Instances
          BY <3>1, <3>3 DEF Instances
        <5>2. obj' = [obj EXCEPT ![id] = o]
          BY <4>4, <2>2, <3>3 DEF TypeOK, Instances
        <5>3. Fresh(o)
          BY <1>1, <3>1, <3>2, <3>3 DEF Instances, IsRecent, Passes
        <5> QED
          BY <5>1, <5>2, <5>3
      <4>5. CASE UNCHANGED obj
        BY <4>5, <2>2, <3>2, <3>3 DEF TypeOK
      <4> QED
        BY <2>1, <4>1, <4>2, <4>3, <4>4, <4>5 DEF UpdateKnown
    <3> QED
      BY <2>2, <3>4 DEF TypeOK
  <2>4. \A q \in Pids : q # p => InstanceOf(q) # id
    BY DEF InstanceOf
  <2>5. \A q \in Pids : Known(q)' = Known(q) /\ InstanceOf(q)' = InstanceOf(q)
    BY <2>2 DEF Known, InstanceOf
  <2>6. \A q \in Pids : Known(q) => InstanceOf(q) \in Ids
    BY KnownIsId
  <2>7. FlagsSinceSweep'
    BY <1>1, <2>3, <2>4, <2>5, <2>6 DEF FlagsSinceSweep, IsRecent
  <2> QED
    BY <1>1, <2>2, <2>3, <2>7 DEF Visit, TypeOK, TableIsExclusive,
       TableIsRecent, ScanIsKnown, Known, providerVars, osVars
<1>4. CASE os[p] # 0 /\ ~Known(p)
  <2>1. AddNew(p)
    BY <1>4 DEF Visit
  <2>2. CASE UNCHANGED <<procs, obj>>
    BY <1>1, <1>4, <2>2 DEF Visit, TypeOK, TableIsExclusive, TableIsRecent,
       FlagsSinceSweep, ScanIsKnown, Known, InstanceOf, IsRecent, providerVars, osVars
  <2>3. CASE procs' # procs \/ obj' # obj
    <3> DEFINE id == <<p, pass>>
    <3>1. /\ procs' = [procs EXCEPT ![p] = pass]
          /\ obj' = [obj EXCEPT ![id] =
                       [uid |-> os[p], proc |-> os[p], stat |-> pass,
                        tics |-> pass, timed |-> 0, found |-> TRUE]]
      BY <2>1, <2>3 DEF AddNew
    <3>2. id \in Ids
      BY <1>1 DEF Ids
    <3>3. os[p] \in Births /\ pass \in Passes /\ 0 \in Passes
      BY BoundsAssumption DEF TypeOK, Passes
    <3>4. /\ procs' \in [Pids -> Passes]
          /\ obj' \in [Ids -> Instances]
          /\ obj'[id].stat = pass /\ obj'[id].tics = pass
          /\ \A i \in Ids : i # id => obj'[i] = obj[i]
      BY <3>1, <3>2, <3>3 DEF TypeOK, Instances
    <3>5. \A q \in Pids : q # p => /\ Known(q)' = Known(q)
                                   /\ InstanceOf(q)' = InstanceOf(q)
                                   /\ InstanceOf(q) # id
      BY <3>1 DEF Known, InstanceOf, TypeOK, Instances
    <3>6. InstanceOf(p)' = id /\ Known(p)'
      BY <3>1, <1>1 DEF Known, InstanceOf, TypeOK
    <3>7. \A q \in Pids : Known(q) => InstanceOf(q) \in Ids
      BY KnownIsId
    <3>8. FlagsSinceSweep'
      BY <1>1, <3>4, <3>5, <3>6, <3>7 DEF FlagsSinceSweep, IsRecent
    <3>9. ScanIsKnown'
      BY <1>1, <3>5, <3>6 DEF ScanIsKnown, Visit, TypeOK, providerVars
    <3> QED
      BY <1>1, <3>4, <3>8, <3>9 DEF Visit, TypeOK, TableIsExclusive,
         TableIsRecent, providerVars, osVars
  <2> QED
    BY <2>2, <2>3
<1> QED
  BY <1>2, <1>3, <1>4

\* The end of a pass: who was found stays, with its flag taken away.
LEMMA SweepIInv ==
  ASSUME IInv, Sweep
  PROVE  IInv'
<1> USE DEF IInv
<1>1. \A p \in Pids : Known(p)' =>
         /\ Known(p) /\ InstanceOf(p)' = InstanceOf(p)
         /\ obj[InstanceOf(p)].found
  BY DEF Sweep, Known, InstanceOf
<1>2. \A p \in Pids : Known(p) => InstanceOf(p) \in Ids /\ InstanceOf(p)[1] = p
  BY KnownIsId DEF InstanceOf
<1>3. /\ obj' \in [Ids -> Instances]
      /\ \A i \in Ids : obj'[i].stat = obj[i].stat /\ obj'[i].tics = obj[i].tics
  BY DEF Sweep, TypeOK, Instances
<1>4. \A p \in Pids : Known(p) => ~obj'[InstanceOf(p)].found
  <2> SUFFICES ASSUME NEW p \in Pids, Known(p)
               PROVE  ~obj'[InstanceOf(p)].found
    OBVIOUS
  <2>1. obj'[InstanceOf(p)] = [obj[InstanceOf(p)] EXCEPT !.found = FALSE]
    BY <1>2 DEF Sweep
  <2> QED
    BY <2>1, KnownIsId
<1>5. procs' \in [Pids -> Passes]
  BY BoundsAssumption DEF Sweep, TypeOK, Passes
<1>6. /\ swept' = pass /\ before' = swept /\ pass' = pass /\ sp' = "sleep"
      /\ swept \in Nat /\ pass \in Nat /\ swept < pass
  BY BoundsAssumption DEF Sweep, TypeOK, FlagsSinceSweep, Passes
<1>7. ASSUME NEW p \in Pids, Known(p)'
      PROVE  IsRecent(obj[InstanceOf(p)])' /\ ~obj'[InstanceOf(p)'].found
  <2>1. Known(p) /\ InstanceOf(p)' = InstanceOf(p) /\ obj[InstanceOf(p)].found
    BY <1>1, <1>7
  <2>2. obj[InstanceOf(p)] \in Instances
    BY <2>1, KnownIsId
  <2>3. /\ swept < obj[InstanceOf(p)].stat /\ obj[InstanceOf(p)].stat <= pass
        /\ swept < obj[InstanceOf(p)].tics /\ obj[InstanceOf(p)].tics <= pass
    BY <1>6, <2>1, <2>2 DEF FlagsSinceSweep, IsRecent, Instances, Passes
  <2> QED
    BY <1>2, <1>3, <1>4, <1>6, <2>1, <2>2, <2>3 DEF IsRecent, Instances, Passes
<1>8. TableIsRecent' /\ FlagsSinceSweep'
  BY <1>6, <1>7 DEF TableIsRecent, FlagsSinceSweep
<1> QED
  BY <1>3, <1>5, <1>8 DEF Sweep, TypeOK, TableIsExclusive, ScanIsKnown,
     providerVars, osVars

\* A pass that breaks off leaves the table as it is, flags and all: no pass has
\* come to its end since, so there is nothing an entry could be too old for.
LEMMA BreakOffIInv ==
  ASSUME IInv, BreakOff
  PROVE  IInv'
<1> USE DEF IInv, FlagsSinceSweep
<1>1. /\ UNCHANGED <<osVars, procs, obj, pass, swept, before, providerVars>>
      /\ sp' = "sleep" /\ todo' = {} /\ holder' = "nobody"
      /\ swept \in Nat /\ pass \in Nat /\ swept < pass
  BY BoundsAssumption DEF BreakOff, TypeOK, Passes
<1>2. \A p \in Pids : /\ Known(p)' = Known(p) /\ InstanceOf(p)' = InstanceOf(p)
                      /\ IsRecent(obj[InstanceOf(p)])' = IsRecent(obj[InstanceOf(p)])
  BY <1>1 DEF Known, InstanceOf, IsRecent
<1>3. TableIsRecent' /\ FlagsSinceSweep'
  BY <1>1, <1>2 DEF TableIsRecent
<1> QED
  BY <1>1, <1>3 DEF BreakOff, TypeOK, TableIsExclusive, ScanIsKnown, Known, providerVars, osVars

\* Copying an instance into the list only writes its deltas.
LEMMA CopyIInv ==
  ASSUME IInv, NEW p \in Pids, Copy(p)
  PROVE  IInv'
<1> USE DEF IInv
<1> DEFINE id == InstanceOf(p)
<1>1. /\ id \in Ids
      /\ obj[id] \in Instances
  BY KnownIsId DEF Copy, ScanIsKnown
<1>2. /\ obj' \in [Ids -> Instances]
      /\ \A i \in Ids : /\ obj'[i].stat = obj[i].stat
                        /\ obj'[i].tics = obj[i].tics
                        /\ obj'[i].found = obj[i].found
  BY <1>1 DEF Copy, TypeOK, Instances
<1>3. list' \in Seq(Ids)
  BY <1>1 DEF Copy, TypeOK
<1>4. \A q \in Pids : /\ Known(q)' = Known(q) /\ InstanceOf(q)' = InstanceOf(q)
                      /\ Known(q) => InstanceOf(q) \in Ids
  BY KnownIsId DEF Copy, Known, InstanceOf, samplerVars
<1> QED
  BY <1>2, <1>3, <1>4 DEF Copy, TypeOK, TableIsExclusive, TableIsRecent,
     FlagsSinceSweep, IsRecent, ScanIsKnown, samplerVars, osVars

\* Every step keeps the inductive invariant.
LEMMA StepIInv == IInv /\ [Next]_vars => IInv'
<1> SUFFICES ASSUME IInv, [Next]_vars PROVE IInv'
  OBVIOUS
<1> USE DEF IInv
<1>1. ASSUME NEW p \in Pids, Fork(p) PROVE IInv'
  BY <1>1, BoundsAssumption DEF Fork, TypeOK, TableIsExclusive, TableIsRecent,
     FlagsSinceSweep, ScanIsKnown, Known, InstanceOf, IsRecent, samplerVars, providerVars,
     Births
<1>2. ASSUME NEW p \in Pids, Exit(p) PROVE IInv'
  BY <1>2, BoundsAssumption DEF Exit, TypeOK, TableIsExclusive, TableIsRecent,
     FlagsSinceSweep, ScanIsKnown, Known, InstanceOf, IsRecent, samplerVars, providerVars,
     Births
<1>3. ASSUME NEW p \in Pids, Visit(p) PROVE IInv'
  BY <1>3, VisitIInv
<1>4. ASSUME NEW p \in Pids, Copy(p) PROVE IInv'
  BY <1>4, CopyIInv
<1>5. CASE StartPass
  BY <1>5, BoundsAssumption DEF StartPass, TypeOK, TableIsExclusive, IsRecent,
     TableIsRecent, FlagsSinceSweep, ScanIsKnown, Known, InstanceOf, IsRecent, osVars,
     providerVars, Passes
<1>6. CASE BreakOff \/ Sweep
  <2>1. CASE BreakOff
    BY <2>1, BreakOffIInv
  <2> QED
    BY <1>6, <2>1, SweepIInv
<1>7. ASSUME NEW r \in Requests, Begin(r) PROVE IInv'
  BY <1>7 DEF Begin, TypeOK, TableIsExclusive, TableIsRecent, FlagsSinceSweep,
     ScanIsKnown, Known, InstanceOf, IsRecent, samplerVars, osVars
<1>8. CASE Updated
  BY <1>8 DEF Updated, TypeOK, TableIsExclusive, TableIsRecent, FlagsSinceSweep,
     ScanIsKnown, Known, InstanceOf, IsRecent, samplerVars, osVars
<1>9. CASE Size
  BY <1>9 DEF Size, TypeOK, TableIsExclusive, TableIsRecent, FlagsSinceSweep,
     ScanIsKnown, Known, InstanceOf, IsRecent, samplerVars, osVars
<1>10. CASE Row
  BY <1>10 DEF Row, TypeOK, TableIsExclusive, TableIsRecent, FlagsSinceSweep,
     ScanIsKnown, Known, InstanceOf, IsRecent, samplerVars, osVars
<1>11. CASE Leave
  BY <1>11 DEF Leave, TypeOK, TableIsExclusive, TableIsRecent, FlagsSinceSweep,
     ScanIsKnown, Known, InstanceOf, IsRecent, samplerVars, osVars
<1>12. CASE UNCHANGED vars
  BY <1>12 DEF vars, osVars, samplerVars, providerVars, TypeOK, TableIsExclusive,
     TableIsRecent, FlagsSinceSweep, ScanIsKnown, Known, InstanceOf, IsRecent
<1> QED
  BY <1>1, <1>2, <1>3, <1>4, <1>5, <1>6, <1>7, <1>8, <1>9, <1>10, <1>11, <1>12
     DEF Next

\* Every state of the enumeration satisfies the inductive invariant.
THEOREM TableInvariant == Spec => []IInv
  BY InitIInv, StepIInv, PTL DEF Spec

\* The sampler and UpdateNoLock never walk the table at the same time.
THEOREM TableExclusion == Spec => []TableIsExclusive
<1>1. IInv => TableIsExclusive
  BY DEF IInv
<1> QED
  BY TableInvariant, <1>1, PTL

\* Between two passes the table is of what was found after the last but one pass
\* that came to its end, also when passes broke off in the middle.
THEOREM TableConsistency == Spec => []TableIsRecent
<1>1. IInv => TableIsRecent
  BY DEF IInv
<1> QED
  BY TableInvariant, <1>1, PTL
-----------------------------------------------------------------------------
(* The list of a request.                                                  *)

\* What has still to be copied was not copied already.
ScanIsNotListed ==
  pp # "idle" /\ holder = "provider"
    => \A i \in 1 .. Len(list) : list[i][1] \notin scan

OneList == ListIsTheTable /\ ScanIsNotListed

\* A copy adds one instance at the end of the list, with the deltas of its newest
\* sample, and changes none that the list has already.
LEMMA CopyOneList ==
  ASSUME IInv, OneList, NEW p \in Pids, Copy(p), holder = "provider"
  PROVE  OneList'
<1> USE DEF IInv
<1> DEFINE id == InstanceOf(p)
<1>1. /\ pp = "update" /\ pp' = pp /\ p \in scan /\ scan' = scan \ {p}
      /\ list' = Append(list, id) /\ UNCHANGED <<before, procs, holder>>
  BY DEF Copy, samplerVars
<1>2. Known(p) /\ sp = "sleep" /\ id \in Ids /\ id[1] = p
  BY <1>1, KnownIsId DEF ScanIsKnown, TableIsExclusive, TypeOK, InstanceOf
<1>3. obj' = [obj EXCEPT ![id].timed = obj[id].tics] /\ obj[id] \in Instances
  BY <1>2, KnownIsId DEF Copy
<1>4. before \in Nat /\ obj[id].stat > before
  BY <1>2, <1>3 DEF TableIsRecent, IsRecent, TypeOK, Passes, Instances
<1>5. /\ obj'[id].stat > before /\ obj'[id].timed = obj'[id].tics
      /\ \A i \in Ids : i # id => obj'[i] = obj[i]
  BY <1>2, <1>3, <1>4 DEF TypeOK, Instances
<1>6. \A q \in Pids : Known(q)' = Known(q)
  BY <1>1 DEF Known
<1>7. /\ Len(list) \in Nat /\ Len(list') = Len(list) + 1
      /\ \A i \in 1 .. Len(list) : list'[i] = list[i] /\ list[i] \in Ids
      /\ list'[Len(list) + 1] = id
  BY <1>1, <1>2 DEF TypeOK
<1>8. \A i \in 1 .. Len(list) : list[i][1] \in Pids /\ list[i][1] # p
  BY <1>1, <1>7 DEF OneList, ScanIsNotListed, Ids
<1>9. \A i \in 1 .. Len(list') : /\ list'[i] = InstanceOf(list'[i][1])
                                 /\ obj'[list'[i]].stat > before
                                 /\ obj'[list'[i]].timed = obj'[list'[i]].tics
  <2> SUFFICES ASSUME NEW i \in 1 .. Len(list')
               PROVE  /\ list'[i] = InstanceOf(list'[i][1])
                      /\ obj'[list'[i]].stat > before
                      /\ obj'[list'[i]].timed = obj'[list'[i]].tics
    OBVIOUS
  <2>1. CASE i = Len(list) + 1
    BY <1>2, <1>5, <1>7, <2>1
  <2>2. CASE i \in 1 .. Len(list)
    <3>1. /\ list[i] = InstanceOf(list[i][1])
          /\ obj[list[i]].stat > before /\ obj[list[i]].timed = obj[list[i]].tics
      BY <1>1, <2>2 DEF OneList, ListIsTheTable
    <3>2. list[i] # id
      BY <1>2, <1>8, <2>2
    <3> QED
      BY <1>5, <1>7, <2>2, <3>1, <3>2
  <2> QED
    BY <1>7, <2>1, <2>2
<1>10. \A i, j \in 1 .. Len(list') : list'[i][1] = list'[j][1] => i = j
  <2>1. \A i, j \in 1 .. Len(list) : list[i][1] = list[j][1] => i = j
    BY <1>1 DEF OneList, ListIsTheTable
  <2> QED
    BY <1>2, <1>7, <1>8, <2>1
<1>11. {q \in Pids : Known(q)'} = scan' \cup {list'[i][1] : i \in 1 .. Len(list')}
  <2>1. {q \in Pids : Known(q)} = scan \cup {list[i][1] : i \in 1 .. Len(list)}
    BY <1>1 DEF OneList, ListIsTheTable
  <2>2. {list'[i][1] : i \in 1 .. Len(list')} = {list[i][1] : i \in 1 .. Len(list)} \cup {p}
    BY <1>2, <1>7
  <2>3. {q \in Pids : Known(q)'} = {q \in Pids : Known(q)}
    BY <1>6
  <2> QED
    BY <1>1, <2>1, <2>2, <2>3
<1>12. \A i \in 1 .. Len(list') : list'[i][1] \notin scan'
  <2>1. \A i \in 1 .. Len(list) : list[i][1] \notin scan
    BY <1>1 DEF OneList, ScanIsNotListed
  <2>2. \A i \in 1 .. Len(list') : i \in 1 .. Len(list) \/ list'[i] = id
    BY <1>7
  <2> QED
    BY <1>1, <1>2, <1>7, <2>1, <2>2
<1> QED
  BY <1>1, <1>9, <1>10, <1>11, <1>12
     DEF OneList, ListIsTheTable, ScanIsNotListed, Known, InstanceOf

\* Whoever does not have the lock leaves the list of the one who has it alone.
LEMMA StepOneList == IInv /\ OneList /\ [Next]_vars => OneList'
<1> SUFFICES ASSUME IInv, OneList, [Next]_vars, (pp # "idle" /\ holder = "provider")'
             PROVE  OneList'
  BY DEF OneList, ListIsTheTable, ScanIsNotListed
<1> USE DEF OneList, ListIsTheTable, ScanIsNotListed, Known, InstanceOf
<1>1. ASSUME NEW p \in Pids, Fork(p) \/ Exit(p) PROVE OneList'
  BY <1>1 DEF Fork, Exit, samplerVars, providerVars
<1>2. ASSUME NEW p \in Pids, Visit(p) PROVE FALSE
  BY <1>2 DEF Visit, IInv, TableIsExclusive
<1>3. ASSUME NEW p \in Pids, Copy(p) PROVE OneList'
  BY <1>3, CopyOneList DEF Copy
<1>4. StartPass \/ BreakOff \/ Sweep => FALSE
  BY DEF StartPass, BreakOff, Sweep
<1>5. ASSUME NEW q \in Requests, Begin(q) PROVE OneList'
  BY <1>5 DEF Begin, samplerVars
<1>6. CASE Updated
  BY <1>6 DEF Updated, samplerVars
<1>7. Size \/ Leave => FALSE
  BY DEF Size, Leave
<1>8. CASE Row
  BY <1>8 DEF Row, samplerVars
<1>9. CASE UNCHANGED vars
  BY <1>9 DEF vars, samplerVars, providerVars
<1> QED
  BY <1>1, <1>2, <1>3, <1>4, <1>5, <1>6, <1>7, <1>8, <1>9 DEF Next

\* While a request has the lock, its list is the table, every process once, with
\* the deltas of its newest sample and values no older than TableIsRecent allows.
THEOREM ListConsistency == Spec => []ListIsTheTable
<1>1. Init => OneList
  BY DEF Init, OneList, ListIsTheTable, ScanIsNotListed
<1>2. OneList => ListIsTheTable
  BY DEF OneList
<1> QED
  BY <1>1, <1>2, TableInvariant, StepOneList, PTL DEF Spec
=============================================================================
