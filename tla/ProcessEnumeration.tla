-------------------------- MODULE ProcessEnumeration --------------------------
(***************************************************************************)
(* ProcessEnumeration (processenumeration.cpp) between its two users: the  *)
(* sampler thread, which walks the system's process list in SampleData,    *)
(* and the process provider (processprovider.cpp), which copies the table  *)
(* into the instance list and turns the list into a reply.  Both use the   *)
(* enumeration lock m_lock; the lock is the atomic object of MutexObject,  *)
(* of which only the holder is kept.  Calls of the provider are serialised *)
(* by the provider lock of cmpibase.cpp, so one provider thread is enough. *)
(*                                                                         *)
(* The unit of data is the sample: every part of an instance is stamped    *)
(* with the pass of the sampler that wrote it, and every process with the  *)
(* number of its birth.                                                    *)
(***************************************************************************)
EXTENDS Integers, Sequences

CONSTANTS Pids,        \* process ids
          MaxPasses,   \* bound: passes of the sampler
          MaxBirths    \* bound: processes started

ASSUME BoundsAssumption == MaxPasses \in Nat \ {0} /\ MaxBirths \in Nat

VARIABLES os,      \* os[p]: birth number of the process that has pid p, or 0
          births,  \* number of processes started so far
          holder,  \* who has m_lock: "sampler", "provider" or "nobody"
          procs,   \* m_procs: the pass that created the instance of p, or 0
          obj,     \* the ProcessInstance objects, by pid and creating pass
          list,    \* m_instances of the enumeration
          pass,    \* number of the sampler's current or last pass
          swept,   \* history: the last pass that came to its end, or 0
          before,  \* history: the one before it that came to its end, or 0
          todo,    \* pids the sampler has not come to in this pass
          sp,      \* where the sampler is
          pp,      \* where the provider is
          op,      \* the request the provider executes
          scan,    \* table entries UpdateNoLock has not copied yet
          idx,     \* i of the provider's loop
          rows     \* what the reply says so far

osVars == <<os, births>>
samplerVars == <<procs, pass, swept, before, todo, sp>>
providerVars == <<list, pp, op, scan, idx, rows>>
vars == <<osVars, holder, samplerVars, obj, providerVars>>

Ids == Pids \X (1..MaxPasses)

\* uid: the process whose owner was read (only once, at first sight); proc and
\* stat: the process and the pass m was read from; tics: the pass of the newest
\* sample; timed: the newest sample when the deltas were computed; found: m_found.
Blank == [uid |-> 0, proc |-> 0, stat |-> 0, tics |-> 0, timed |-> 0,
          found |-> TRUE]

Requests == [kind: {"EnumInstances", "TopResourceConsumers"}]
              \cup [kind: {"GetInstance"}, pid: Pids]

Init == /\ os \in [Pids -> {0}]
        /\ births = 0
        /\ holder = "nobody"
        /\ procs = [p \in Pids |-> 0]
        /\ obj = [i \in Ids |-> Blank]
        /\ list = <<>>
        /\ pass = 0 /\ swept = 0 /\ before = 0
        /\ todo = {}
        /\ sp = "sleep"
        /\ pp = "idle"
        /\ op \in {r \in Requests : r.kind = "EnumInstances"}
        /\ scan = {}
        /\ idx = 0
        /\ rows = <<>>

InstanceOf(p) == <<p, procs[p]>>
Known(p) == procs[p] # 0

-----------------------------------------------------------------------------
(* The system: processes start and end at any time, and pids are reused.   *)

Fork(p) == /\ os[p] = 0
           /\ births < MaxBirths
           /\ births' = births + 1
           /\ os' = [os EXCEPT ![p] = births + 1]
           /\ UNCHANGED <<holder, samplerVars, obj, providerVars>>

Exit(p) == /\ os[p] # 0
           /\ os' = [os EXCEPT ![p] = 0]
           /\ UNCHANGED <<births, holder, samplerVars, obj, providerVars>>

-----------------------------------------------------------------------------
(* The sampler thread.                                                     *)

StartPass == /\ sp = "sleep"
             /\ holder = "nobody"
             /\ pass < MaxPasses
             /\ holder' = "sampler"
             /\ pass' = pass + 1
             /\ todo' = Pids
             /\ sp' = "walk"
             /\ UNCHANGED <<osVars, procs, swept, before, obj, providerVars>>

\* Mutant: the sampler adds its data sample only to instances it already knew.
UpdateKnown_KeepsTics(p) ==
  LET id == InstanceOf(p)
  IN /\ obj' = [obj EXCEPT ![id].proc = os[p], ![id].stat = pass,
                           ![id].found = TRUE]
     /\ UNCHANGED procs

\* A process the table already has.  UpdateInstance reads m anew, or finds the
\* process dying, or throws, both of them before or after it read m; only in the
\* first case is a data sample added.
UpdateKnown(p) ==
  LET id == InstanceOf(p)
  IN /\ \/ obj' = [obj EXCEPT ![id].proc = os[p], ![id].stat = pass,
                              ![id].tics = pass, ![id].found = TRUE]
        \/ obj' = [obj EXCEPT ![id].proc = os[p], ![id].stat = pass,
                              ![id].found = FALSE]
        \/ obj' = [obj EXCEPT ![id].found = FALSE]
        \/ obj' = [obj EXCEPT ![id].proc = os[p], ![id].stat = pass]
        \/ UNCHANGED obj
     /\ UNCHANGED procs

\* A process the table does not have: a new instance, unless it is gone or
\* cannot be read.
AddNew(p) ==
  \/ /\ procs' = [procs EXCEPT ![p] = pass]
     /\ obj' = [obj EXCEPT ![<<p, pass>>] =
                  [uid |-> os[p], proc |-> os[p], stat |-> pass,
                   tics |-> pass, timed |-> 0, found |-> TRUE]]
  \/ UNCHANGED <<procs, obj>>

Visit(p) == /\ sp = "walk"
            /\ p \in todo
            /\ todo' = todo \ {p}
            /\ IF os[p] = 0 THEN UNCHANGED <<procs, obj>>    \* not listed
               ELSE IF Known(p) THEN UpdateKnown(p) ELSE AddNew(p)
            /\ UNCHANGED <<osVars, holder, pass, swept, before, sp, providerVars>>

\* nextProc fails to read on in the process list and throws, anywhere in the walk
\* (also after the last pid).  Nothing in SampleData catches that: the lock's
\* scope ends without the sweep, the flags stay, and the sampler goes on to sleep.
BreakOff == /\ sp = "walk"
            /\ sp' = "sleep"
            /\ todo' = {}
            /\ holder' = "nobody"
            /\ UNCHANGED <<osVars, procs, obj, pass, swept, before, providerVars>>

\* Mutant: WasFound does not reset the flag.
Sweep_KeepsFound ==
  /\ sp = "walk"
  /\ todo = {}
  /\ procs' = [p \in Pids |->
                 IF Known(p) /\ obj[InstanceOf(p)].found THEN procs[p] ELSE 0]
  /\ sp' = "sleep"
  /\ holder' = "nobody"
  /\ before' = swept /\ swept' = pass
  /\ UNCHANGED <<osVars, obj, pass, todo, providerVars>>

\* The end of SampleData: instances the pass did not find leave the table, and
\* WasFound resets the flag of all of them; then the lock's scope ends.
Sweep ==
  /\ sp = "walk"
  /\ todo = {}
  /\ procs' = [p \in Pids |->
                 IF Known(p) /\ obj[InstanceOf(p)].found THEN procs[p] ELSE 0]
  /\ obj' = [i \in Ids |-> IF Known(i[1]) /\ i = InstanceOf(i[1])
                             THEN [obj[i] EXCEPT !.found = FALSE] ELSE obj[i]]
  /\ sp' = "sleep"
  /\ holder' = "nobody"
  /\ before' = swept /\ swept' = pass
  /\ UNCHANGED <<osVars, pass, todo, providerVars>>

-----------------------------------------------------------------------------
(* The provider: lock, UpdateNoLock, a loop over Size and GetInstance.     *)

Begin(r) == /\ pp = "idle"
            /\ holder = "nobody"
            /\ holder' = "provider"
            /\ op' = r
            /\ list' = <<>>                                     \* Clear
            /\ scan' = {p \in Pids : Known(p)}
            /\ idx' = 0
            /\ rows' = <<>>
            /\ pp' = "update"
            /\ UNCHANGED <<osVars, samplerVars, obj>>

\* Mutant: UpdateNoLock does not compute the time-dependent values.
Copy_NoTimedValues(p) == /\ pp = "update"
                         /\ p \in scan
                         /\ scan' = scan \ {p}
                         /\ list' = Append(list, InstanceOf(p))
                         /\ UNCHANGED <<osVars, holder, samplerVars, obj>>
                         /\ UNCHANGED <<pp, op, idx, rows>>

Copy(p) == /\ pp = "update"
           /\ p \in scan
           /\ scan' = scan \ {p}
           /\ obj' = [obj EXCEPT ![InstanceOf(p)].timed = obj[InstanceOf(p)].tics]
           /\ list' = Append(list, InstanceOf(p))
           /\ UNCHANGED <<osVars, holder, samplerVars, pp, op, idx, rows>>

Updated == /\ pp = "update"
           /\ scan = {}
           /\ pp' = "size"
           /\ UNCHANGED <<osVars, holder, samplerVars, obj>>
           /\ UNCHANGED <<list, op, scan, idx, rows>>

\* Size waits for the lock unless its thread already has it.  Its scoped lock
\* gives the lock back when it goes out of scope - also when the caller of Size
\* was the one who had taken it.
Size == /\ pp = "size"
        /\ holder \in {"nobody", "provider"}
        /\ holder' = "nobody"
        /\ pp' = IF idx < Len(list) THEN "row" ELSE "leave"
        /\ UNCHANGED <<osVars, samplerVars, obj>>
        /\ UNCHANGED <<list, op, scan, idx, rows>>

\* GetInstance(idx) and the properties that are read from it.  GetInstance
\* requests stop at the instance they look for.
Row == LET i == list[idx + 1]
           wanted == op.kind # "GetInstance" \/ op.pid = i[1]
       IN /\ pp = "row"
          /\ rows' = IF wanted THEN Append(rows, obj[i]) ELSE rows
          /\ idx' = idx + 1
          /\ pp' = IF wanted /\ op.kind = "GetInstance" THEN "leave" ELSE "size"
          /\ UNCHANGED <<osVars, holder, samplerVars, obj, list, op, scan>>

\* The end of the request's own scope: releases what is still held.
Leave == /\ pp = "leave"
         /\ pp' = "idle"
         /\ holder' = IF holder = "provider" THEN "nobody" ELSE holder
         /\ UNCHANGED <<osVars, samplerVars, obj, list, op, scan, idx, rows>>

-----------------------------------------------------------------------------
Next == \/ \E p \in Pids : Fork(p) \/ Exit(p) \/ Visit(p) \/ Copy(p)
        \/ StartPass \/ BreakOff \/ Sweep
        \/ \E r \in Requests : Begin(r)
        \/ Updated \/ Size \/ Row \/ Leave

Spec == Init /\ [][Next]_vars

-----------------------------------------------------------------------------
Passes == 0..MaxPasses
Births == 0..MaxBirths
Instances == [uid: Births, proc: Births, stat: Passes, tics: Passes,
              timed: Passes, found: BOOLEAN]

TypeOK == /\ os \in [Pids -> Births]
          /\ births \in Births
          /\ holder \in {"nobody", "sampler", "provider"}
          /\ procs \in [Pids -> Passes]
          /\ obj \in [Ids -> Instances]
          /\ list \in Seq(Ids)
          /\ {pass, swept, before} \subseteq Passes
          /\ todo \subseteq Pids
          /\ sp \in {"sleep", "walk"}
          /\ pp \in {"idle", "update", "size", "row", "leave"}
          /\ op \in Requests
          /\ scan \subseteq Pids
          /\ idx \in Nat

\* The table is only ever walked under the lock: a pass of the sampler and the
\* copy in UpdateNoLock never overlap, whatever Size does to the lock later.
TableIsExclusive == /\ sp = "walk" <=> holder = "sampler"
                    /\ pp = "update" => holder = "provider"

IsRecent(o) == {o.stat, o.tics} \subseteq (before + 1)..pass

\* How old the table can be: whenever the sampler does not walk it, each entry was
\* read and sampled after the last but one pass that came to its end (a pass that
\* broke off sweeps nothing, and what it flagged survives the next sweep), and
\* after a pass that came to its end no flag is left to deceive the next.  So when
\* the last two passes came to their end, the table is exactly the last one.
TableIsRecent ==
  sp = "sleep" => \A p \in Pids : Known(p) =>
                    /\ IsRecent(obj[InstanceOf(p)])
                    /\ pass = swept => ~obj[InstanceOf(p)].found

\* The same at any time, and what makes it so: an entry with its flag set was read
\* and sampled since the last sweep, whether by this pass or by one broken off.
FlagsSinceSweep ==
  /\ before <= swept /\ swept <= pass
  /\ sp = "walk" => swept < pass
  /\ \A p \in Pids : Known(p) =>
       LET o == obj[InstanceOf(p)]
       IN /\ IsRecent(o)
          /\ o.found => swept < o.stat /\ swept < o.tics

\* What UpdateNoLock has still to copy is in the table.
ScanIsKnown == pp = "update" => \A p \in scan : Known(p)

\* The inductive invariant of the table.
IInv == TypeOK /\ TableIsExclusive /\ TableIsRecent /\ FlagsSinceSweep /\ ScanIsKnown

\* The list made by UpdateNoLock is the whole table, every process once, as long as
\* the request still has the lock: the deltas of each instance go with its newest
\* sample, and its values are no older than the table may be (TableIsRecent).
ListIsTheTable ==
  pp # "idle" /\ holder = "provider" =>
    /\ \A i \in 1..Len(list) : /\ list[i] = InstanceOf(list[i][1])
                               /\ obj[list[i]].stat > before
                               /\ obj[list[i]].timed = obj[list[i]].tics
    /\ \A i, j \in 1..Len(list) : list[i][1] = list[j][1] => i = j
    /\ {p \in Pids : Known(p)} = scan \cup {list[i][1] : i \in 1..Len(list)}

\* What the lock is there for (comment in SampleData: "so that Update() don't
\* get partial data"): the deltas in a row of a reply were computed when its
\* newest sample was, under the lock of the request.
ReplyIsOneSample == \A i \in 1..Len(rows) : rows[i].timed = rows[i].tics

\* What UpdateNoLock says of the table under the same lock ("processes that were
\* alive when latest sample were taken"): a list is not put together from entries
\* that two passes of the sampler have written.  It is false after a pass that broke
\* off (BreakOff), and no run checks it: TableIsRecent is what is left of it.
ListIsOfOnePass ==
  pp # "idle" /\ holder = "provider" =>
    \A i, j \in 1..Len(list) : obj[list[i]].stat = obj[list[j]].stat

\* What ProcessInstance is documented to be ("Class that represents an instances of
\* a unix process"): the owner in a row is the owner of the process whose values it
\* has, although processes end and their pids are given to others.  It is false when
\* a pid is given to another process between two passes (Visit), and no run checks it.
InstanceIsOneProcess == \A i \in 1..Len(rows) : rows[i].uid = rows[i].proc
=============================================================================
