--------------------------- MODULE LogFrameworkProofs ---------------------------
(***************************************************************************)
(* Proofs about LogFramework: the consumers are the backends, what has     *)
(* been published is what is configured, a handle that no change has       *)
(* overlapped lets the right items pass, and the minimum is a lower bound. *)
(***************************************************************************)
EXTENDS LogFramework, FiniteSetTheorems, SequenceTheorems, WellFoundedInduction, TLAPS

-----------------------------------------------------------------------------
(* Minima.                                                                 *)

LEMMA MinOf == ASSUME NEW S \in SUBSET Nat, S # {}
               PROVE  Min(S) \in S /\ \A x \in S : Min(S) <= x
<1> DEFINE R == OpToRel(<, Nat)
<1>1. IsWellFoundedOn(R, Nat)
  BY NatLessThanWellFounded
<1>2. \A x, y \in Nat : <<y, x>> \in R <=> y < x
  BY DEF OpToRel
<1> HIDE DEF R
<1>3. PICK x \in S : \A y \in S : ~(<<y, x>> \in R)
  BY <1>1, WFMin
<1>4. ASSUME NEW y \in S
      PROVE  x <= y
  <2>1. x \in Nat /\ y \in Nat
    OBVIOUS
  <2>2. ~(y < x)
    BY <1>2, <1>3, <2>1
  <2> QED
    BY <2>1, <2>2
<1> QED
  BY <1>4 DEF Min

LEMMA SeveritiesAreNat == Severities \subseteq Nat /\ eSuppress \in Severities
                          /\ eSeverityMax \in Severities /\ Default \in Severities
                          /\ Settable \subseteq Severities /\ eNotSet \in Severities
  BY SeveritiesAssumption DEF Severities, eNotSet, eSuppress, eSeverityMax

-----------------------------------------------------------------------------
(* Sequences.                                                              *)

LEMMA RangeTail ==
  ASSUME NEW S, NEW s \in Seq(S), s # <<>>
  PROVE  /\ Head(s) \in S /\ Tail(s) \in Seq(S) /\ Len(Tail(s)) = Len(s) - 1
         /\ Range(s) = {Head(s)} \cup Range(Tail(s))
         /\ IsInjective(s) => IsInjective(Tail(s)) /\ Head(s) \notin Range(Tail(s))
<1> DEFINE t == Tail(s)
<1>1. Head(s) \in S /\ t \in Seq(S) /\ Len(t) = Len(s) - 1 /\ Len(s) \in Nat \ {0}
  BY HeadTailProperties, EmptySeq
<1>2. \A i \in 1 .. Len(t) : t[i] = s[i + 1]
  BY HeadTailProperties
<1>3. DOMAIN t = 1 .. Len(t) /\ DOMAIN s = 1 .. Len(s) /\ Head(s) = s[1]
  BY <1>1
<1> HIDE DEF t
<1>4. Range(s) = {Head(s)} \cup Range(t)
  <2>1. \A i \in DOMAIN s : i = 1 \/ (i - 1 \in DOMAIN t /\ t[i - 1] = s[i])
    BY <1>1, <1>2, <1>3
  <2>2. \A i \in DOMAIN t : i + 1 \in DOMAIN s /\ t[i] = s[i + 1]
    BY <1>1, <1>2, <1>3
  <2>3. 1 \in DOMAIN s
    BY <1>1, <1>3
  <2> QED
    BY <1>3, <2>1, <2>2, <2>3 DEF Range
<1>5. ASSUME IsInjective(s)
      PROVE  IsInjective(t) /\ Head(s) \notin Range(t)
  <2>1. \A i \in DOMAIN t : i + 1 \in DOMAIN s /\ i + 1 # 1 /\ t[i] = s[i + 1]
    BY <1>1, <1>2, <1>3
  <2>2. 1 \in DOMAIN s
    BY <1>1, <1>3
  <2>3. Head(s) \notin Range(t)
    BY <1>3, <1>5, <2>1, <2>2 DEF IsInjective, Range
  <2>4. \A i, j \in DOMAIN t : t[i] = t[j] => i + 1 = j + 1
    BY <1>5, <2>1 DEF IsInjective
  <2> QED
    BY <1>1, <1>3, <2>3, <2>4 DEF IsInjective
<1> QED
  BY <1>1, <1>4, <1>5 DEF t

LEMMA RangeAppend ==
  ASSUME NEW S, NEW s \in Seq(S), NEW e \in S
  PROVE  /\ Append(s, e) \in Seq(S) /\ Append(s, e) # <<>> /\ Len(Append(s, e)) = Len(s) + 1
         /\ Range(Append(s, e)) = Range(s) \cup {e}
         /\ IsInjective(s) /\ e \notin Range(s) => IsInjective(Append(s, e))
<1> DEFINE t == Append(s, e)
<1>1. /\ t \in Seq(S) /\ t # <<>> /\ Len(t) = Len(s) + 1
      /\ \A i \in 1 .. Len(s) : t[i] = s[i]
      /\ t[Len(s) + 1] = e
  BY AppendProperties
<1>2. DOMAIN t = 1 .. Len(t) /\ DOMAIN s = 1 .. Len(s) /\ Len(s) \in Nat
  BY <1>1
<1> HIDE DEF t
<1>3. /\ \A i \in DOMAIN t : (i \in DOMAIN s /\ t[i] = s[i]) \/ (i = Len(s) + 1 /\ t[i] = e)
      /\ DOMAIN s \subseteq DOMAIN t /\ Len(s) + 1 \in DOMAIN t
  BY <1>1, <1>2
<1>4. Range(t) = Range(s) \cup {e}
  BY <1>1, <1>2, <1>3 DEF Range
<1>5. IsInjective(s) /\ e \notin Range(s) => IsInjective(t)
  BY <1>1, <1>3 DEF IsInjective, Range
<1> QED
  BY <1>1, <1>4, <1>5 DEF t

LEMMA EmptyRange == Range(<<>>) = {} /\ IsInjective(<<>>)
  BY DEF Range, IsInjective

LEMMA NonEmptyRange == ASSUME NEW S, NEW s \in Seq(S), s # <<>> PROVE Range(s) # {}
  BY RangeTail

LEMMA InjectiveLength ==
  ASSUME NEW S, NEW s \in Seq(S), IsInjective(s)
  PROVE  IsFiniteSet(Range(s)) /\ Cardinality(Range(s)) = Len(s)
<1> DEFINE D == 1 .. Len(s)
<1>1. Len(s) \in Nat /\ DOMAIN s = D /\ s \in [D -> S]
  BY LenProperties
<1>2. IsFiniteSet(D) /\ Cardinality(D) = Len(s)
  BY <1>1, FS_Interval
<1>3. s \in Surjection(D, Range(s)) /\ s \in Injection(D, Range(s))
  BY <1>1 DEF Surjection, Injection, Range, IsInjective
<1> QED
  BY <1>2, <1>3, FS_Surjection

\* Every order of a finite set visits all of it.
LEMMA OrderVisitsAll ==
  ASSUME NEW S, IsFiniteSet(S), NEW s \in SetToSeqs(S)
  PROVE  s \in Seq(S) /\ Range(s) = S
<1> DEFINE n == Cardinality(S)
<1>1. n \in Nat
  BY FS_CardinalityType
<1>2. s \in [1 .. n -> S] /\ \A i, j \in 1 .. n : i # j => s[i] # s[j]
  BY DEF SetToSeqs
<1> HIDE DEF n
<1>3. s \in Seq(S) /\ Len(s) = n
  BY <1>1, <1>2
<1>4. IsInjective(s)
  BY <1>2 DEF IsInjective
<1>5. Range(s) \subseteq S
  BY <1>2 DEF Range
<1>6. Cardinality(Range(s)) = n
  BY <1>3, <1>4, InjectiveLength
<1> QED
  BY <1>3, <1>5, <1>6, FS_Subset DEF n

-----------------------------------------------------------------------------
(* The severity filter.                                                    *)

LEMMA FilterType == ASSUME NEW f \in Filters
                    PROVE  DOMAIN f \subseteq Modules /\ f \in [DOMAIN f -> Severities]
<1>1. PICK S \in SUBSET Modules : f \in [S -> Severities]
  BY DEF Filters
<1> QED
  BY <1>1

LEMMA IsFilter == ASSUME NEW S \in SUBSET Modules, NEW f \in [S -> Severities]
                  PROVE  f \in Filters
  BY DEF Filters

\* A filter a backend can have: the root has a severity, and it is not eHysterical.
BackendFilters == {f \in Filters : Root \in DOMAIN f /\ f[Root] # eHysterical}

LEMMA ModulesKnown == Root \in Modules /\ \A c \in Callers : ModuleOf[c] \in Modules
  BY CallersAssumption DEF Modules, Range

LEMMA OnlyRootFilter ==
  ASSUME NEW s \in Severities \ {eHysterical}
  PROVE  OnlyRoot(s) \in BackendFilters /\ \A m \in DOMAIN OnlyRoot(s) : OnlyRoot(s)[m] = s
<1>1. OnlyRoot(s) \in Filters
  BY ModulesKnown, IsFilter DEF OnlyRoot
<1> QED
  BY <1>1 DEF OnlyRoot, BackendFilters

\* What a caller sets is in the filter, unless it is refused; setting it again
\* changes nothing; and nothing else is changed.
LEMMA PutFilter ==
  ASSUME NEW f \in BackendFilters, NEW m \in Modules, NEW s \in Severities
  PROVE  /\ Put(f, m, s) \in BackendFilters
         /\ Put(Put(f, m, s), m, s) = Put(f, m, s)
         /\ \A a \in DOMAIN Put(f, m, s) :
              Put(f, m, s)[a] = s \/ (a \in DOMAIN f /\ Put(f, m, s)[a] = f[a])
         /\ Put(f, m, s) = f => (m = Root /\ s = eHysterical) \/ (m \in DOMAIN f /\ f[m] = s)
<1>1. CASE m = Root /\ s = eHysterical
  BY <1>1 DEF Put
<1>2. CASE ~(m = Root /\ s = eHysterical)
  <2> DEFINE g == With(f, m, s)
  <2>1. \A h : Put(h, m, s) = With(h, m, s)
    BY <1>2 DEF Put
  <2>2. DOMAIN f \subseteq Modules /\ f \in [DOMAIN f -> Severities] /\ Root \in DOMAIN f
        /\ f[Root] # eHysterical
    BY FilterType DEF BackendFilters
  <2>3. /\ DOMAIN g = DOMAIN f \cup {m} /\ g \in [DOMAIN f \cup {m} -> Severities]
        /\ \A a \in DOMAIN f \cup {m} : g[a] = IF a = m THEN s ELSE f[a]
    BY <2>2 DEF With
  <2>4. With(g, m, s) = g
    BY <2>3 DEF With
  <2>5. g \in Filters
    BY <2>2, <2>3, IsFilter
  <2> HIDE DEF g
  <2>6. g \in BackendFilters
    BY <1>2, <2>2, <2>3, <2>5 DEF BackendFilters
  <2>7. g = f => m \in DOMAIN f /\ f[m] = s
    BY <2>3
  <2>8. \A a \in DOMAIN g : g[a] = s \/ (a \in DOMAIN f /\ g[a] = f[a])
    BY <2>3
  <2>9. Put(f, m, s) = g /\ Put(g, m, s) = g
    BY <2>1, <2>4 DEF g
  <2> QED
    BY <2>6, <2>7, <2>8, <2>9
<1> QED
  BY <1>1, <1>2

LEMMA DropFilter ==
  ASSUME NEW f \in BackendFilters, NEW m \in Modules
  PROVE  Drop(f, m) \in BackendFilters
<1>1. DOMAIN f \subseteq Modules /\ f \in [DOMAIN f -> Severities] /\ Root \in DOMAIN f
      /\ f[Root] # eHysterical
  BY FilterType DEF BackendFilters
<1>2. CASE m = Root
  <2>1. Drop(f, m) \in [DOMAIN f \cup {Root} -> Severities]
        /\ Drop(f, m)[Root] = eNotSet
    BY <1>1, <1>2, SeveritiesAreNat DEF Drop, With
  <2>2. Drop(f, m) \in Filters
    BY <1>1, <2>1, ModulesKnown, IsFilter
  <2> QED
    BY <2>1, <2>2 DEF BackendFilters, eNotSet, eHysterical
<1>3. CASE m # Root
  <2>1. Drop(f, m) \in [DOMAIN f \ {m} -> Severities] /\ Drop(f, m)[Root] = f[Root]
    BY <1>1, <1>3 DEF Drop, Restrict
  <2>2. Drop(f, m) \in Filters
    BY <1>1, <2>1, IsFilter
  <2> QED
    BY <1>1, <1>3, <2>1, <2>2 DEF BackendFilters
<1> QED
  BY <1>2, <1>3

LEMMA NewFilterType ==
  ASSUME NEW block \in Blocks
  PROVE  NewFilter(block) \in BackendFilters
<1> DEFINE f == block.severities
           A == Accepted(f)
<1>1. DOMAIN f \subseteq Modules /\ f \in [DOMAIN f -> Severities]
  BY FilterType DEF Blocks
<1>2. A \subseteq DOMAIN f /\ (Root \in A => f[Root] # eHysterical)
  BY DEF Accepted
<1>3. NewFilter(block) = [m \in A \cup {Root} |-> IF m \in A THEN f[m] ELSE Default]
  BY DEF NewFilter
<1> HIDE DEF A, f
<1>4. /\ NewFilter(block) \in [A \cup {Root} -> Severities]
      /\ NewFilter(block)[Root] # eHysterical
  BY <1>1, <1>2, <1>3, SeveritiesAreNat, SeveritiesAssumption
<1>5. NewFilter(block) \in Filters
  BY <1>1, <1>2, <1>4, ModulesKnown, IsFilter
<1> QED
  BY <1>4, <1>5 DEF BackendFilters

LEMMA MinActiveOf ==
  ASSUME NEW f \in BackendFilters
  PROVE  /\ MinActive(f) \in Severities /\ Range(f) \in SUBSET Severities
         /\ \A m \in DOMAIN f : MinActive(f) <= f[m]
         /\ \E m \in DOMAIN f : MinActive(f) = f[m]
<1>1. f \in [DOMAIN f -> Severities] /\ Root \in DOMAIN f
  BY FilterType DEF BackendFilters
<1>2. Range(f) \in SUBSET Severities /\ Range(f) # {} /\ Range(f) \in SUBSET Nat
  BY <1>1, SeveritiesAreNat DEF Range
<1>3. MinActive(f) \in Range(f) /\ \A s \in Range(f) : MinActive(f) <= s
  BY <1>2, MinOf DEF MinActive
<1> QED
  BY <1>1, <1>2, <1>3 DEF Range

\* The threshold of a module is one of the severities of the filter; it is that of
\* the module itself if it has one.
LEMMA ThresholdOf ==
  ASSUME NEW f \in BackendFilters, NEW m \in Modules
  PROVE  /\ Threshold(f, m) \in Severities
         /\ m \in DOMAIN f => Threshold(f, m) = f[m]
<1> DEFINE known == {a \in DOMAIN f : /\ IsPrefix(a, m)
                                      /\ a \in {Root, m} \/ f[a] # eHysterical}
           longest(a) == \A b \in known : Len(b) <= Len(a)
           l == CHOOSE a \in known : longest(a)
           missing == {Len(m) - Len(a) : a \in known}
<1>1. f \in [DOMAIN f -> Severities] /\ Root \in DOMAIN f /\ DOMAIN f \subseteq Modules
  BY FilterType DEF BackendFilters
<1>2. m \in Seq(STRING) /\ Len(m) \in Nat
      /\ \A a \in DOMAIN f : a \in Seq(STRING) /\ Len(a) \in Nat
  BY <1>1, CallersAssumption, LenProperties
<1>3. Root \in known
  <2>1. Root = SubSeq(m, 1, 0) /\ Root = SubSeq(Root, 1, 0) /\ Len(Root) = 0
    BY <1>2, EmptySeq DEF Root
  <2>2. IsPrefix(Root, m)
    BY <1>2, <2>1 DEF IsPrefix
  <2> QED
    BY <1>1, <2>2
<1>4. \A a \in known : Len(a) \in Nat /\ Len(a) <= Len(m)
  BY <1>2 DEF IsPrefix
<1>5. missing \in SUBSET Nat /\ missing # {}
  BY <1>2, <1>3, <1>4
<1>6. \E a \in known : longest(a)
  <2>1. PICK a \in known : Min(missing) = Len(m) - Len(a)
    BY <1>5, MinOf
  <2>2. \A b \in known : Min(missing) <= Len(m) - Len(b)
    BY <1>5, MinOf
  <2>3. \A b \in known : Len(b) <= Len(a)
    BY <1>2, <1>4, <2>1, <2>2
  <2> QED
    BY <2>3
<1>7. l \in known /\ longest(l)
  BY <1>6
<1>8. Threshold(f, m) = f[l]
  BY DEF Threshold
<1>9. ASSUME m \in DOMAIN f
      PROVE  l = m
  <2>1. m \in known
    BY <1>2, <1>9 DEF IsPrefix
  <2>2. Len(l) = Len(m)
    BY <1>2, <1>4, <1>7, <2>1
  <2>3. SubSeq(l, 1, Len(l)) = SubSeq(m, 1, Len(l)) /\ l \in Seq(STRING)
    BY <1>2, <1>7 DEF IsPrefix
  <2> HIDE DEF l
  <2> QED
    BY <1>2, <2>2, <2>3, SubSeqFull
<1> QED
  BY <1>1, <1>7, <1>8, <1>9

-----------------------------------------------------------------------------
(* Effective severities.                                                   *)

LEMMA FiltersKnown == TypeOK => \A b \in Ids : filter[b] \in BackendFilters
  BY DEF TypeOK, BackendFilters

LEMMA EffectiveOf ==
  ASSUME TypeOK, NEW m \in Modules
  PROVE  /\ Effective(m) \in Severities /\ Effective(m) <= eSuppress
         /\ \A b \in consumers : Effective(m) <= Threshold(filter[b], m)
         /\ Effective(m) = eSuppress \/ \E b \in consumers : Effective(m) = Threshold(filter[b], m)
<1> DEFINE T == {eSuppress} \cup {Threshold(filter[b], m) : b \in consumers}
<1>1. \A b \in consumers : Threshold(filter[b], m) \in Severities
  BY FiltersKnown, ThresholdOf DEF TypeOK
<1>2. T \in SUBSET Severities /\ T \in SUBSET Nat /\ T # {}
  BY <1>1, SeveritiesAreNat
<1>3. Effective(m) \in T /\ \A t \in T : Effective(m) <= t
  BY <1>2, MinOf DEF Effective
<1> QED
  BY <1>2, <1>3

\* What a caller has found when it has visited all consumers is the effective
\* severity.
LEMMA LowestIsEffective ==
  ASSUME TypeOK, NEW m \in Modules, NEW s \in Severities, LowestIn(s, consumers, m)
  PROVE  s = Effective(m)
<1>1. /\ \A b \in consumers : s <= Threshold(filter[b], m)
      /\ s = eSuppress \/ \E b \in consumers : s = Threshold(filter[b], m)
      /\ s <= eSuppress
  BY DEF LowestIn
<1>2. s \in Nat /\ Effective(m) \in Nat
  BY EffectiveOf, SeveritiesAreNat
<1>3. s <= Effective(m) /\ Effective(m) <= s
  BY <1>1, EffectiveOf
<1> QED
  BY <1>2, <1>3

\* What has no consumer's filter changed, and no consumer joined or left, has not
\* changed an effective severity.
LEMMA EffectiveSame ==
  ASSUME consumers' = consumers, \A b \in consumers : filter'[b] = filter[b]
  PROVE  EffectiveMap' = EffectiveMap /\ \A m : Effective(m)' = Effective(m)
<1>1. ASSUME NEW m
      PROVE  Effective(m)' = Effective(m)
  <2>1. {Threshold(filter[b], m) : b \in consumers}' = {Threshold(filter[b], m) : b \in consumers}
    OBVIOUS
  <2> QED
    BY <2>1 DEF Effective
<1> QED
  BY <1>1 DEF EffectiveMap

-----------------------------------------------------------------------------
(* Calls on a handle that leave the configuration as it is.                *)

LEMMA NamesDiffer == Updater \notin Callers /\ Nobody \notin Callers /\ Nobody # Updater
  BY CallersAssumption DEF Nobody, Updater

\* A step that is not c's own, and that changes no consumer's filter, no consumer and
\* no published severity, leaves true what c may rely on.
LEMMA HandleSame ==
  ASSUME NEW c \in Callers, HandleKnown(c),
         at'[c] = at[c], todo'[c] = todo[c], sev'[c] = sev[c], handle'[c] = handle[c],
         c \in raced => c \in raced',
         consumers' = consumers, \A b \in consumers : filter'[b] = filter[b],
         version' = version, published'[c] = published[c]
  PROVE  HandleKnown(c)'
<1>1. Visited(c)' = Visited(c)
  BY DEF Visited
<1>2. Effective(ModuleOf[c])' = Effective(ModuleOf[c])
  BY EffectiveSame
<1>3. Visited(c) \subseteq consumers
  BY DEF Visited
<1> QED
  BY <1>1, <1>2, <1>3 DEF HandleKnown, LowestIn

LEMMA OpenHandleIInv == ASSUME IInv, NEW c \in Callers, OpenHandle(c) PROVE IInv'
<1> USE DEF OpenHandle, Go, config, locks, local, history, IInv
<1>1. c # Updater /\ c # Nobody /\ Updater \notin Callers /\ Nobody \notin Callers
  BY NamesDiffer
<1>2. TypeOK'
  BY <1>1 DEF TypeOK, Procs
<1>3. LocksKnown'
  BY <1>1, NamesDiffer DEF TypeOK, LocksKnown, Procs
<1>4. ConsumersKnown'
  BY <1>1 DEF TypeOK, ConsumersKnown
<1>5. PublishedKnown'
  BY <1>1, EffectiveSame DEF TypeOK, PublishedKnown, Changing, Procs
<1>6. MinKnown'
  BY <1>1 DEF TypeOK, MinKnown
<1>7. HandlesKnown'
  <2>1. ASSUME at[Updater] # "dead"
        PROVE  HandleKnown(c)'
    BY <2>1 DEF TypeOK, HandlesKnown, HandleKnown, Procs
  <2>2. ASSUME at[Updater] # "dead", NEW d \in Callers \ {c}
        PROVE  HandleKnown(d)'
    BY <2>2, HandleSame DEF TypeOK, HandlesKnown
  <2> QED
    BY <1>1, <2>1, <2>2 DEF TypeOK, HandlesKnown
<1> QED
  BY <1>2, <1>3, <1>4, <1>5, <1>6, <1>7

LEMMA CheckVersionIInv == ASSUME IInv, NEW c \in Callers, CheckVersion(c) PROVE IInv'
<1> USE DEF CheckVersion, Go, config, locks, local, history, IInv
<1>1. c # Updater /\ c # Nobody /\ Updater \notin Callers /\ Nobody \notin Callers
  BY NamesDiffer
<1>2. TypeOK'
  BY <1>1 DEF TypeOK, Procs
<1>3. LocksKnown'
  BY <1>1, NamesDiffer DEF TypeOK, LocksKnown, Procs
<1>4. ConsumersKnown'
  BY <1>1 DEF TypeOK, ConsumersKnown
<1>5. PublishedKnown'
  BY <1>1, EffectiveSame DEF TypeOK, PublishedKnown, Changing, Procs
<1>6. MinKnown'
  BY <1>1 DEF TypeOK, MinKnown
<1>7. HandlesKnown'
  <2>1. ASSUME at[Updater] # "dead"
        PROVE  HandleKnown(c)'
    BY <2>1 DEF TypeOK, HandlesKnown, HandleKnown, Procs
  <2>2. ASSUME at[Updater] # "dead", NEW d \in Callers \ {c}
        PROVE  HandleKnown(d)'
    BY <2>2, HandleSame DEF TypeOK, HandlesKnown
  <2> QED
    BY <1>1, <2>1, <2>2 DEF TypeOK, HandlesKnown
<1> QED
  BY <1>2, <1>3, <1>4, <1>5, <1>6, <1>7

LEMMA BeginLogIInv == ASSUME IInv, NEW c \in Callers, BeginLog(c) PROVE IInv'
<1> USE DEF BeginLog, Go, config, locks, local, history, IInv
<1>1. c # Updater /\ c # Nobody /\ Updater \notin Callers /\ Nobody \notin Callers
  BY NamesDiffer
<1>2. TypeOK'
  BY <1>1 DEF TypeOK, Procs
<1>3. LocksKnown'
  BY <1>1, NamesDiffer DEF TypeOK, LocksKnown, Procs
<1>4. ConsumersKnown'
  BY <1>1 DEF TypeOK, ConsumersKnown
<1>5. PublishedKnown'
  BY <1>1, EffectiveSame DEF TypeOK, PublishedKnown, Changing, Procs
<1>6. MinKnown'
  BY <1>1 DEF TypeOK, MinKnown
<1>7. HandlesKnown'
  <2>1. ASSUME at[Updater] # "dead"
        PROVE  HandleKnown(c)'
    BY <2>1 DEF TypeOK, HandlesKnown, HandleKnown, Procs
  <2>2. ASSUME at[Updater] # "dead", NEW d \in Callers \ {c}
        PROVE  HandleKnown(d)'
    BY <2>2, HandleSame DEF TypeOK, HandlesKnown
  <2> QED
    BY <1>1, <2>1, <2>2 DEF TypeOK, HandlesKnown
<1> QED
  BY <1>2, <1>3, <1>4, <1>5, <1>6, <1>7

LEMMA EndLogIInv == ASSUME IInv, NEW c \in Callers, EndLog(c) PROVE IInv'
<1> USE DEF EndLog, Go, config, locks, local, history, IInv
<1>1. c # Updater /\ c # Nobody /\ Updater \notin Callers /\ Nobody \notin Callers
  BY NamesDiffer
<1>2. TypeOK'
  BY <1>1 DEF TypeOK, Procs
<1>3. LocksKnown'
  BY <1>1, NamesDiffer DEF TypeOK, LocksKnown, Procs
<1>4. ConsumersKnown'
  BY <1>1 DEF TypeOK, ConsumersKnown
<1>5. PublishedKnown'
  BY <1>1, EffectiveSame DEF TypeOK, PublishedKnown, Changing, Procs
<1>6. MinKnown'
  BY <1>1 DEF TypeOK, MinKnown
<1>7. HandlesKnown'
  <2>1. ASSUME at[Updater] # "dead"
        PROVE  HandleKnown(c)'
    BY <2>1 DEF TypeOK, HandlesKnown, HandleKnown, Procs
  <2>2. ASSUME at[Updater] # "dead", NEW d \in Callers \ {c}
        PROVE  HandleKnown(d)'
    BY <2>2, HandleSame DEF TypeOK, HandlesKnown
  <2> QED
    BY <1>1, <2>1, <2>2 DEF TypeOK, HandlesKnown
<1> QED
  BY <1>2, <1>3, <1>4, <1>5, <1>6, <1>7

LEMMA StartScanIInv == ASSUME IInv, NEW c \in Callers, StartScan(c) PROVE IInv'
<1> USE DEF StartScan, Go, config, locks, local, history, IInv
<1>1. c # Updater /\ c # Nobody /\ Updater \notin Callers /\ Nobody \notin Callers
  BY NamesDiffer
<1>8. PICK order \in SetToSeqs(consumers) : todo' = [todo EXCEPT ![c] = order]
  OBVIOUS
<1>9. order \in Seq(Ids) /\ Range(order) = consumers
  <2>1. IsFiniteSet(consumers) /\ consumers \subseteq Ids
    BY ConfigsAssumption, FS_Subset DEF TypeOK
  <2> QED
    BY <2>1, OrderVisitsAll
<1>2. TypeOK'
  BY <1>1, <1>8, <1>9, SeveritiesAreNat DEF TypeOK, Procs
<1>3. LocksKnown'
  BY <1>1, NamesDiffer DEF TypeOK, LocksKnown, Procs
<1>4. ConsumersKnown'
  BY <1>1, <1>8 DEF TypeOK, ConsumersKnown
<1>5. PublishedKnown'
  BY <1>1, EffectiveSame DEF TypeOK, PublishedKnown, Changing, Procs
<1>6. MinKnown'
  BY <1>1 DEF TypeOK, MinKnown
<1>7. HandlesKnown'
  <2>1. ASSUME at[Updater] # "dead"
        PROVE  HandleKnown(c)'
    <3>1. Visited(c)' = {}
      BY <1>8, <1>9 DEF TypeOK, Visited, Procs
    <3>2. sev'[c] = eSuppress /\ eSuppress <= eSuppress
      BY DEF TypeOK, eSuppress
    <3>3. at'[c] = "scan"
      BY DEF TypeOK, Procs
    <3>4. Range(todo[c])' \subseteq consumers'
      BY <1>8, <1>9 DEF TypeOK, Procs
    <3> QED
      BY <3>1, <3>2, <3>3, <3>4 DEF HandleKnown, LowestIn
  <2>2. ASSUME at[Updater] # "dead", NEW d \in Callers \ {c}
        PROVE  HandleKnown(d)'
    BY <2>2, HandleSame DEF TypeOK, HandlesKnown
  <2> QED
    BY <1>1, <2>1, <2>2 DEF TypeOK, HandlesKnown
<1> QED
  BY <1>2, <1>3, <1>4, <1>5, <1>6, <1>7

LEMMA ScanConsumerIInv == ASSUME IInv, NEW c \in Callers, ScanConsumer(c) PROVE IInv'
<1> USE DEF ScanConsumer, Visit, Go, config, locks, local, history, IInv
<1>1. c # Updater /\ c # Nobody /\ Updater \notin Callers /\ Nobody \notin Callers
  BY NamesDiffer
<1> DEFINE b == Head(todo[c])
           t == Threshold(filter[b], ModuleOf[c])
           least == Min({sev[c], t})
<1>8. /\ b \in Ids /\ Tail(todo[c]) \in Seq(Ids)
      /\ Range(todo[c]) = {b} \cup Range(Tail(todo[c]))
  BY RangeTail DEF TypeOK
<1>9. t \in Severities /\ sev[c] \in Severities
  BY <1>8, FiltersKnown, ThresholdOf, ModulesKnown DEF TypeOK
<1>10. /\ sev' = [sev EXCEPT ![c] = least]
       /\ todo' = [todo EXCEPT ![c] = Tail(todo[c])]
  BY DEF TypeOK
<1> HIDE DEF t, b
<1>11. least \in {sev[c], t} /\ least <= sev[c] /\ least <= t /\ least \in Severities
  BY <1>9, MinOf, SeveritiesAreNat
<1> HIDE DEF least
<1>2. TypeOK'
  BY <1>1, <1>8, <1>10, <1>11 DEF TypeOK, Procs
<1>3. LocksKnown'
  BY <1>1, NamesDiffer DEF TypeOK, LocksKnown, Procs
<1>4. ConsumersKnown'
  BY <1>1, <1>10 DEF TypeOK, ConsumersKnown
<1>5. PublishedKnown'
  BY <1>1, EffectiveSame DEF TypeOK, PublishedKnown, Changing, Procs
<1>6. MinKnown'
  BY <1>1 DEF TypeOK, MinKnown
<1>7. HandlesKnown'
  <2>1. ASSUME at[Updater] # "dead"
        PROVE  HandleKnown(c)'
    <3>1. \A e \in Visited(c)' : e \in Visited(c) \/ e = b
      BY <1>8, <1>10 DEF TypeOK, Visited, Procs
    <3>2. sev'[c] = least /\ at'[c] = "scan"
      BY <1>10 DEF TypeOK
    <3>3. c \notin raced => b \in consumers /\ LowestIn(sev[c], Visited(c), ModuleOf[c])
      BY <1>8, <2>1 DEF HandlesKnown, HandleKnown
    <3>4. \A e \in Visited(c)' : Threshold(filter[e], ModuleOf[c]) \in Severities
      BY FiltersKnown, ThresholdOf, ModulesKnown DEF TypeOK, Visited
    <3>5. ASSUME b \in consumers, LowestIn(sev[c], Visited(c), ModuleOf[c])
          PROVE  LowestIn(sev[c], Visited(c), ModuleOf[c])'
      <4>1. /\ \A e \in Visited(c) : sev[c] <= Threshold(filter[e], ModuleOf[c])
            /\ sev[c] = eSuppress \/ \E e \in consumers : sev[c] = Threshold(filter[e], ModuleOf[c])
            /\ sev[c] <= eSuppress
        BY <3>5 DEF LowestIn
      <4>2. \A e \in Visited(c)' : least <= Threshold(filter[e], ModuleOf[c])
        <5> SUFFICES ASSUME NEW e \in Visited(c)'
                     PROVE  least <= Threshold(filter[e], ModuleOf[c])
          OBVIOUS
        <5>1. CASE e = b
          BY <1>11, <5>1 DEF t
        <5>2. CASE e \in Visited(c)
          <6>1. sev[c] <= Threshold(filter[e], ModuleOf[c])
            BY <4>1, <5>2
          <6>2. sev[c] \in Nat /\ least \in Nat /\ Threshold(filter[e], ModuleOf[c]) \in Nat
            BY <1>9, <1>11, <3>4, SeveritiesAreNat
          <6> QED
            BY <1>11, <6>1, <6>2
        <5> QED
          BY <3>1, <5>1, <5>2
      <4>3. least <= eSuppress
        BY <1>9, <1>11, <4>1, SeveritiesAreNat
      <4>4. least = eSuppress \/ \E e \in consumers : least = Threshold(filter[e], ModuleOf[c])
        <5>1. CASE least = sev[c]
          BY <4>1, <5>1
        <5>2. CASE least = t
          BY <3>5, <5>2 DEF t
        <5> QED
          BY <1>11, <5>1, <5>2
      <4>5. consumers' = consumers /\ filter' = filter
        OBVIOUS
      <4> QED
        BY <3>2, <4>2, <4>3, <4>4, <4>5 DEF LowestIn
    <3>6. c \notin raced => Range(todo[c])' \subseteq consumers'
      BY <1>8, <1>10, <2>1 DEF TypeOK, HandlesKnown, HandleKnown, Procs
    <3> QED
      BY <2>1, <3>2, <3>3, <3>5, <3>6 DEF HandlesKnown, HandleKnown
  <2>2. ASSUME at[Updater] # "dead", NEW d \in Callers \ {c}
        PROVE  HandleKnown(d)'
    BY <2>2, HandleSame DEF TypeOK, HandlesKnown
  <2> QED
    BY <1>1, <2>1, <2>2 DEF TypeOK, HandlesKnown
<1> QED
  BY <1>2, <1>3, <1>4, <1>5, <1>6, <1>7

LEMMA EndScanIInv == ASSUME IInv, NEW c \in Callers, EndScan(c) PROVE IInv'
<1> USE DEF EndScan, ForgetLocals, Go, config, locks, local, history, IInv
<1>1. c # Updater /\ c # Nobody /\ Updater \notin Callers /\ Nobody \notin Callers
  BY NamesDiffer
<1>8. /\ handle' \in [Callers -> [sev : Severities, ver : Nat]]
      /\ sev' \in [Callers -> Severities] /\ changed' \in [Callers -> BOOLEAN]
      /\ DOMAIN todo' = Procs /\ todo'[c] = <<>> /\ \A p \in Procs \ {c} : todo'[p] = todo[p]
  BY SeveritiesAreNat DEF TypeOK, Procs
<1>2. TypeOK'
  BY <1>1, <1>8 DEF TypeOK, Procs
<1>3. LocksKnown'
  BY <1>1, NamesDiffer DEF TypeOK, LocksKnown, Procs
<1>4. ConsumersKnown'
  BY <1>1 DEF TypeOK, ConsumersKnown
<1>5. PublishedKnown'
  BY <1>1, EffectiveSame DEF TypeOK, PublishedKnown, Changing, Procs
<1>6. MinKnown'
  BY <1>1 DEF TypeOK, MinKnown
<1>7. HandlesKnown'
  <2>1. ASSUME at[Updater] # "dead"
        PROVE  HandleKnown(c)'
    <3>1. at'[c] = "version" /\ handle'[c].sev = sev[c]
          /\ sev[c] \in Severities
      BY DEF TypeOK, Procs
    <3>2. c \notin raced => LowestIn(sev[c], Visited(c), ModuleOf[c])
      BY <2>1 DEF HandlesKnown, HandleKnown
    <3>3. Effective(ModuleOf[c])' = Effective(ModuleOf[c])
      BY EffectiveSame
    <3>4. ASSUME c \notin raced
          PROVE  SameItems(sev[c], Effective(ModuleOf[c]))
      <4>1. CASE todo[c] = <<>>
        <5>1. Visited(c) = consumers
          BY <4>1, EmptyRange DEF Visited
        <5>2. sev[c] = Effective(ModuleOf[c])
          BY <3>1, <3>2, <3>4, <5>1, LowestIsEffective, ModulesKnown
        <5> QED
          BY <5>2 DEF SameItems
      <4>2. CASE sev[c] = eHysterical
        <5>1. \E b \in consumers : eHysterical = Threshold(filter[b], ModuleOf[c])
          BY <3>2, <3>4, <4>2 DEF LowestIn, eHysterical, eSuppress
        <5>2. Effective(ModuleOf[c]) <= eHysterical /\ Effective(ModuleOf[c]) \in Nat
          BY <5>1, EffectiveOf, ModulesKnown, SeveritiesAreNat
        <5>3. Effective(ModuleOf[c]) \in {eNotSet, eHysterical}
          BY <5>2 DEF eNotSet, eHysterical
        <5> QED
          BY <4>2, <5>3 DEF SameItems
      <4> QED
        BY <4>1, <4>2
    <3> QED
      BY <3>1, <3>2, <3>3, <3>4 DEF HandleKnown, CachedFor
  <2>2. ASSUME at[Updater] # "dead", NEW d \in Callers \ {c}
        PROVE  HandleKnown(d)'
    BY <2>2, HandleSame DEF TypeOK, HandlesKnown
  <2> QED
    BY <1>1, <2>1, <2>2 DEF TypeOK, HandlesKnown
<1> QED
  BY <1>2, <1>3, <1>4, <1>5, <1>6, <1>7

LEMMA ReadVersionIInv == ASSUME IInv, NEW c \in Callers, ReadVersion(c) PROVE IInv'
<1> USE DEF ReadVersion, Go, config, locks, local, history, IInv
<1>1. c # Updater /\ c # Nobody /\ Updater \notin Callers /\ Nobody \notin Callers
  BY NamesDiffer
<1>2. TypeOK'
  BY <1>1 DEF TypeOK, Procs
<1>3. LocksKnown'
  BY <1>1, NamesDiffer DEF TypeOK, LocksKnown, Procs
<1>4. ConsumersKnown'
  BY <1>1 DEF TypeOK, ConsumersKnown
<1>5. PublishedKnown'
  BY <1>1, EffectiveSame DEF TypeOK, PublishedKnown, Changing, Procs
<1>6. MinKnown'
  BY <1>1 DEF TypeOK, MinKnown
<1>7. HandlesKnown'
  <2>1. ASSUME at[Updater] # "dead"
        PROVE  HandleKnown(c)'
    <3>1. published = EffectiveMap
      BY <1>1, <2>1, NamesDiffer DEF TypeOK, LocksKnown, PublishedKnown, Changing
    <3>2. c \notin raced => CachedFor(c, handle[c].sev, published[c])
      BY <2>1, <3>1 DEF HandlesKnown, HandleKnown, EffectiveMap
    <3>3. at'[c] = "idle" /\ handle'[c].sev = handle[c].sev
      BY DEF TypeOK, Procs
    <3> QED
      BY <3>2, <3>3 DEF HandleKnown
  <2>2. ASSUME at[Updater] # "dead", NEW d \in Callers \ {c}
        PROVE  HandleKnown(d)'
    BY <2>2, HandleSame DEF TypeOK, HandlesKnown
  <2> QED
    BY <1>1, <2>1, <2>2 DEF TypeOK, HandlesKnown
<1> QED
  BY <1>2, <1>3, <1>4, <1>5, <1>6, <1>7

LEMMA BeginSetIInv == ASSUME IInv, NEW c \in Callers, BeginSet(c) PROVE IInv'
<1> USE DEF BeginSet, LockConfiguration, Go, config, locks, local, history, IInv
<1>1. c # Updater /\ c # Nobody /\ Updater \notin Callers /\ Nobody \notin Callers
  BY NamesDiffer
<1>2. TypeOK'
  BY <1>1, SeveritiesAreNat DEF TypeOK, Procs
<1>3. LocksKnown'
  BY <1>1, NamesDiffer DEF TypeOK, LocksKnown, Procs
<1>4. ConsumersKnown'
  BY <1>1 DEF TypeOK, ConsumersKnown
<1>5. PublishedKnown'
  BY <1>1, EffectiveSame DEF TypeOK, PublishedKnown, Changing, Procs
<1>6. MinKnown'
  BY <1>1 DEF TypeOK, MinKnown
<1>7. HandlesKnown'
  <2>1. ASSUME at[Updater] # "dead"
        PROVE  HandleKnown(c)'
    <3>1. at[Updater] # "deregister"
      BY NamesDiffer DEF TypeOK, LocksKnown, Installing
    <3>2. Visited(c)' = {}
      BY <3>1 DEF TypeOK, ConsumersKnown, Visited, Procs
    <3>3. sev'[c] <= eSuppress
      BY SeveritiesAssumption DEF TypeOK, eNotSet, eSuppress
    <3>4. at[c] = "idle" /\ at'[c] = "set"
      BY DEF TypeOK, Procs
    <3> QED
      BY <2>1, <3>2, <3>3, <3>4 DEF HandlesKnown, HandleKnown
  <2>2. ASSUME at[Updater] # "dead", NEW d \in Callers \ {c}
        PROVE  HandleKnown(d)'
    BY <2>2, HandleSame DEF TypeOK, HandlesKnown
  <2> QED
    BY <1>1, <2>1, <2>2 DEF TypeOK, HandlesKnown
<1> QED
  BY <1>2, <1>3, <1>4, <1>5, <1>6, <1>7

LEMMA BeginClearIInv == ASSUME IInv, NEW c \in Callers, BeginClear(c) PROVE IInv'
<1> USE DEF BeginClear, LockConfiguration, Go, config, locks, local, history, IInv
<1>1. c # Updater /\ c # Nobody /\ Updater \notin Callers /\ Nobody \notin Callers
  BY NamesDiffer
<1>2. TypeOK'
  BY <1>1 DEF TypeOK, Procs
<1>3. LocksKnown'
  BY <1>1, NamesDiffer DEF TypeOK, LocksKnown, Procs
<1>4. ConsumersKnown'
  BY <1>1 DEF TypeOK, ConsumersKnown
<1>5. PublishedKnown'
  BY <1>1, EffectiveSame DEF TypeOK, PublishedKnown, Changing, Procs
<1>6. MinKnown'
  BY <1>1 DEF TypeOK, MinKnown
<1>7. HandlesKnown'
  <2>1. ASSUME at[Updater] # "dead"
        PROVE  HandleKnown(c)'
    BY <2>1 DEF TypeOK, HandlesKnown, HandleKnown, Procs
  <2>2. ASSUME at[Updater] # "dead", NEW d \in Callers \ {c}
        PROVE  HandleKnown(d)'
    BY <2>2, HandleSame DEF TypeOK, HandlesKnown
  <2> QED
    BY <1>1, <2>1, <2>2 DEF TypeOK, HandlesKnown
<1> QED
  BY <1>2, <1>3, <1>4, <1>5, <1>6, <1>7

-----------------------------------------------------------------------------
(* Calls that change severities.                                           *)

\* Whatever a step that overlaps a refresh changes, the handle is known to be raced.
LEMMA HandleOverlapped ==
  ASSUME NEW c \in Callers, HandleKnown(c),
         at'[c] = at[c], at[c] # "set", handle'[c] = handle[c],
         c \in raced => c \in raced',
         c \in Refreshing => c \in raced',
         version' = version, published'[c] = published[c]
  PROVE  HandleKnown(c)'
  BY DEF HandleKnown, Refreshing

\* When the version is raised, every handle at rest is out of date.
LEMMA HandleOutdated ==
  ASSUME NEW c \in Callers, HandleKnown(c),
         at'[c] = at[c], at[c] # "set", handle'[c] = handle[c],
         c \in Refreshing => c \in raced',
         handle[c].ver \in Nat, version \in Nat, handle[c].ver <= version, version' = version + 1
  PROVE  HandleKnown(c)'
  BY DEF HandleKnown, Refreshing

\* Only one caller, and not the updater, changes severities at a time.
LEMMA OneChanges ==
  ASSUME TypeOK, LocksKnown, NEW c \in Callers, at[c] \in {"set", "clear"}
  PROVE  /\ confLock = c
         /\ \A d \in Callers \ {c} : at[d] \notin {"set", "clear"}
         /\ at[Updater] \in {"waiting", "restore", "dead"}
  BY NamesDiffer DEF TypeOK, LocksKnown, Installing

LEMMA SetBackendIInv == ASSUME IInv, NEW c \in Callers, SetBackend(c) PROVE IInv'
<1> DEFINE b == Head(todo[c])
           m == ModuleOf[c]
           f == Put(filter[b], m, sev[c])
<1> USE DEF IInv
<1>1. c # Updater /\ Updater \notin Callers /\ c \in Procs /\ Updater \in Procs
  BY NamesDiffer DEF Procs
<1>2. /\ at[c] = "set" /\ todo[c] # <<>> /\ at' = at /\ sev' = sev
      /\ filter' = [filter EXCEPT ![b] = f]
      /\ changed' = [changed EXCEPT ![c] = @ \/ f # filter[b]]
      /\ IF f # filter[b] THEN raced' = raced \cup Refreshing ELSE raced' = raced
      /\ todo' = [todo EXCEPT ![c] = Tail(@)]
      /\ min' = IF f # filter[b] THEN Min({min, sev[c]}) ELSE min
      /\ UNCHANGED <<file, seen, backends, consumers, version, locks, handle, published, partial>>
  BY DEF SetBackend, ChangeFilter, Overlap, Visit
<1>3. b \in Ids /\ Tail(todo[c]) \in Seq(Ids) /\ Range(todo[c]) = {b} \cup Range(Tail(todo[c]))
  BY <1>2, RangeTail DEF TypeOK
<1>4. /\ f \in BackendFilters /\ Put(f, m, sev[c]) = f
      /\ \A a \in DOMAIN f : f[a] = sev[c] \/ (a \in DOMAIN filter[b] /\ f[a] = filter[b][a])
  BY <1>3, PutFilter, FiltersKnown, ModulesKnown DEF TypeOK
<1> HIDE DEF b, f
<1>5. /\ Min({min, sev[c]}) \in {min, sev[c]} /\ min \in Severities /\ sev[c] \in Severities
      /\ Min({min, sev[c]}) <= min /\ Min({min, sev[c]}) <= sev[c]
  <2>1. min \in Severities /\ sev[c] \in Severities
    BY DEF TypeOK
  <2>2. {min, sev[c]} \in SUBSET Nat /\ {min, sev[c]} # {}
    BY <2>1, SeveritiesAreNat
  <2> QED
    BY <2>1, <2>2, MinOf
<1>6. /\ filter'[b] = f /\ \A e \in Ids \ {b} : filter'[e] = filter[e]
      /\ changed'[c] = (changed[c] \/ f # filter[b])
      /\ \A d \in Callers \ {c} : changed'[d] = changed[d] /\ todo'[d] = todo[d]
      /\ todo'[c] = Tail(todo[c]) /\ todo'[Updater] = todo[Updater]
  BY <1>1, <1>2, <1>3 DEF TypeOK, Procs
<1>7. TypeOK'
  <2>1. filter' \in [Ids -> Filters] /\ \A e \in Ids : filter'[e] \in BackendFilters
    BY <1>2, <1>3, <1>4, <1>6, FiltersKnown DEF TypeOK, BackendFilters
  <2>2. raced' \subseteq Callers /\ min' \in Severities /\ changed' \in [Callers -> BOOLEAN]
        /\ DOMAIN todo' = Procs
    BY <1>2, <1>5 DEF TypeOK, Refreshing
  <2> QED
    BY <1>2, <1>3, <1>6, <2>1, <2>2 DEF TypeOK, BackendFilters, locks
<1>8. LocksKnown' /\ ConsumersKnown'
  BY <1>2, <1>6 DEF LocksKnown, ConsumersKnown, locks
<1>9. PublishedKnown'
  <2>1. CASE f = filter[b]
    <3>1. filter' = filter /\ Changing' = Changing
      BY <1>2, <1>3, <1>6, <2>1 DEF TypeOK, Changing
    <3> QED
      BY <1>2, <3>1, EffectiveSame DEF PublishedKnown
  <2>2. CASE f # filter[b]
    BY <1>2, <1>6, <2>2 DEF PublishedKnown, Changing
  <2> QED
    BY <2>1, <2>2
<1>10. MinKnown'
  <2> SUFFICES ASSUME ~partial', \A d \in Callers : at'[d] = "clear" => ~changed'[d],
                      NEW e \in Range(backends'), NEW a \in DOMAIN filter'[e]
               PROVE  min' <= filter'[e][a]
    BY DEF MinKnown
  <2>1. \A x \in Range(backends) : \A k \in DOMAIN filter[x] : min <= filter[x][k]
    BY <1>2, <1>6 DEF MinKnown
  <2>2. e \in Range(backends) /\ e \in Ids
    BY <1>2, RangeOfSeq DEF TypeOK
  <2>3. filter'[e][a] \in Nat /\ min \in Nat /\ sev[c] \in Nat
    BY <1>5, <1>7, <2>2, SeveritiesAreNat, FilterType DEF TypeOK
  <2>4. (filter'[e][a] = sev[c] /\ f # filter[b]) \/ min <= filter'[e][a]
    BY <1>4, <1>6, <2>1, <2>2
  <2> QED
    BY <1>2, <1>5, <2>3, <2>4
<1>11. HandlesKnown'
  <2>1. ASSUME at[Updater] # "dead"
        PROVE  HandleKnown(c)'
    <3>1. HandleKnown(c)
      BY <2>1 DEF HandlesKnown
    <3>2. \A e \in Visited(c)' : e \in Ids /\ (e = b \/ e \in Visited(c))
      BY <1>2, <1>3, <1>6 DEF Visited, TypeOK
    <3>3. \A e \in Visited(c)' : Put(filter'[e], m, sev[c]) = filter'[e]
      BY <1>2, <1>4, <1>6, <3>1, <3>2 DEF HandleKnown
    <3> QED
      BY <1>2, <3>1, <3>3 DEF HandleKnown
  <2>2. ASSUME at[Updater] # "dead", NEW d \in Callers \ {c}
        PROVE  HandleKnown(d)'
    <3>1. HandleKnown(d) /\ at[d] # "set"
      BY <1>2, <2>2, OneChanges DEF HandlesKnown
    <3>2. CASE f = filter[b]
      BY <1>2, <1>3, <1>6, <3>1, <3>2, HandleSame DEF TypeOK
    <3>3. CASE f # filter[b]
      BY <1>2, <3>1, <3>3, HandleOverlapped
    <3> QED
      BY <3>2, <3>3
  <2> QED
    BY <1>2, <2>1, <2>2 DEF HandlesKnown
<1> QED
  BY <1>7, <1>8, <1>9, <1>10, <1>11

LEMMA ClearBackendIInv == ASSUME IInv, NEW c \in Callers, ClearBackend(c) PROVE IInv'
<1> DEFINE b == Head(todo[c])
           f == Drop(filter[b], ModuleOf[c])
<1> USE DEF IInv
<1>1. c # Updater /\ Updater \notin Callers /\ c \in Procs /\ Updater \in Procs
  BY NamesDiffer DEF Procs
<1>2. /\ at[c] = "clear" /\ todo[c] # <<>> /\ at' = at /\ sev' = sev
      /\ filter' = [filter EXCEPT ![b] = f]
      /\ changed' = [changed EXCEPT ![c] = @ \/ f # filter[b]]
      /\ IF f # filter[b] THEN raced' = raced \cup Refreshing ELSE raced' = raced
      /\ todo' = [todo EXCEPT ![c] = Tail(@)]
      /\ UNCHANGED <<file, seen, backends, consumers, min, version, locks, handle, published,
                     partial>>
  BY DEF ClearBackend, ChangeFilter, Overlap, Visit
<1>3. b \in Ids /\ Tail(todo[c]) \in Seq(Ids)
  BY <1>2, RangeTail DEF TypeOK
<1>4. f \in BackendFilters
  BY <1>3, DropFilter, FiltersKnown, ModulesKnown
<1> HIDE DEF b, f
<1>5. /\ filter'[b] = f /\ \A e \in Ids \ {b} : filter'[e] = filter[e]
      /\ changed'[c] = (changed[c] \/ f # filter[b])
      /\ \A d \in Callers \ {c} : changed'[d] = changed[d] /\ todo'[d] = todo[d]
      /\ todo'[c] = Tail(todo[c]) /\ todo'[Updater] = todo[Updater]
  BY <1>1, <1>2, <1>3 DEF TypeOK, Procs
<1>6. TypeOK'
  <2>1. filter' \in [Ids -> Filters] /\ \A e \in Ids : filter'[e] \in BackendFilters
    BY <1>2, <1>3, <1>4, <1>5, FiltersKnown DEF TypeOK, BackendFilters
  <2>2. raced' \subseteq Callers /\ changed' \in [Callers -> BOOLEAN] /\ DOMAIN todo' = Procs
    BY <1>2 DEF TypeOK, Refreshing
  <2> QED
    BY <1>2, <1>3, <1>5, <2>1, <2>2 DEF TypeOK, BackendFilters, locks
<1>7. LocksKnown' /\ ConsumersKnown'
  BY <1>2, <1>5 DEF LocksKnown, ConsumersKnown, locks
<1>8. CASE f = filter[b]
  <2>1. filter' = filter /\ changed' = changed
    BY <1>2, <1>3, <1>5, <1>8 DEF TypeOK
  <2>2. PublishedKnown' /\ MinKnown'
    BY <1>2, <2>1, EffectiveSame DEF PublishedKnown, MinKnown, Changing
  <2>3. ASSUME at[Updater] # "dead", NEW d \in Callers
        PROVE  HandleKnown(d)'
    <3>1. CASE d = c
      BY <1>2, <2>3, <3>1 DEF HandlesKnown, HandleKnown
    <3>2. CASE d # c
      BY <1>2, <1>5, <1>8, <2>1, <2>3, <3>2, HandleSame DEF HandlesKnown
    <3> QED
      BY <3>1, <3>2
  <2> QED
    BY <1>2, <1>6, <1>7, <2>2, <2>3 DEF HandlesKnown
<1>9. CASE f # filter[b]
  <2>1. PublishedKnown' /\ MinKnown'
    BY <1>2, <1>5, <1>9 DEF PublishedKnown, MinKnown, Changing
  <2>2. ASSUME at[Updater] # "dead", NEW d \in Callers
        PROVE  HandleKnown(d)'
    <3>1. at[d] # "set"
      BY <1>2, OneChanges
    <3> QED
      BY <1>2, <1>9, <2>2, <3>1, HandleOverlapped DEF HandlesKnown
  <2> QED
    BY <1>2, <1>6, <1>7, <2>1, <2>2 DEF HandlesKnown
<1> QED
  BY <1>8, <1>9

LEMMA LowestActiveOf ==
  ASSUME TypeOK
  PROVE  /\ LowestActive \in Severities
         /\ \A b \in Range(backends) : \A m \in DOMAIN filter[b] : LowestActive <= filter[b][m]
<1> DEFINE T == {eSeverityMax} \cup {MinActive(filter[b]) : b \in Range(backends)}
<1>1. \A b \in Range(backends) : filter[b] \in BackendFilters
  BY FiltersKnown, RangeOfSeq DEF TypeOK
<1>2. \A b \in Range(backends) : MinActive(filter[b]) \in Severities
  BY <1>1, MinActiveOf
<1>3. T \in SUBSET Severities /\ T \in SUBSET Nat /\ T # {}
  BY <1>2, SeveritiesAreNat
<1>4. LowestActive \in T /\ \A t \in T : LowestActive <= t
  BY <1>3, MinOf DEF LowestActive
<1>5. ASSUME NEW b \in Range(backends), NEW m \in DOMAIN filter[b]
      PROVE  LowestActive <= filter[b][m]
  <2>1. LowestActive <= MinActive(filter[b]) /\ MinActive(filter[b]) <= filter[b][m]
    BY <1>1, <1>4, MinActiveOf
  <2>2. filter[b][m] \in Severities
    BY <1>1, FilterType DEF BackendFilters
  <2>3. LowestActive \in Nat /\ MinActive(filter[b]) \in Nat /\ filter[b][m] \in Nat
    BY <1>2, <1>3, <1>4, <2>2, SeveritiesAreNat
  <2> QED
    BY <2>1, <2>3
<1> QED
  BY <1>3, <1>4, <1>5

\* A caller that has set its severity in every backend has made it the effective one
\* of its module, unless it was refused.
LEMMA SetIsEffective ==
  ASSUME IInv, NEW c \in Callers, at[c] = "set", todo[c] = <<>>, at[Updater] # "dead"
  PROVE  CachedFor(c, sev[c], Effective(ModuleOf[c]))
<1> DEFINE m == ModuleOf[c]
<1>1. Visited(c) = consumers
  BY EmptyRange DEF Visited
<1>2. /\ \A b \in consumers : Put(filter[b], m, sev[c]) = filter[b]
      /\ sev[c] <= eSuppress /\ sev[c] \in Severities
  BY <1>1 DEF IInv, TypeOK, HandlesKnown, HandleKnown
<1>3. CASE m = Root /\ sev[c] = eHysterical
  BY <1>3 DEF CachedFor
<1>4. CASE ~(m = Root /\ sev[c] = eHysterical)
  <2>1. \A b \in consumers : m \in DOMAIN filter[b] /\ filter[b][m] = sev[c]
    BY <1>2, <1>4, PutFilter, FiltersKnown, ModulesKnown DEF IInv, TypeOK
  <2>2. \A b \in consumers : Threshold(filter[b], m) = sev[c]
    BY <2>1, ThresholdOf, FiltersKnown, ModulesKnown DEF IInv, TypeOK
  <2>3. consumers # {}
    <3>1. at[Updater] \in {"waiting", "restore"}
      BY OneChanges DEF IInv
    <3> QED
      BY <3>1, NonEmptyRange DEF IInv, TypeOK, ConsumersKnown
  <2>4. LowestIn(sev[c], consumers, m)
    <3>1. \A b \in consumers : sev[c] <= Threshold(filter[b], m)
      <4>1. sev[c] \in Nat
        BY <1>2, SeveritiesAreNat
      <4>2. sev[c] <= sev[c]
        BY <4>1
      <4> QED
        BY <2>2, <4>2
    <3>2. \E b \in consumers : sev[c] = Threshold(filter[b], m)
      BY <2>2, <2>3
    <3> QED
      BY <1>2, <3>1, <3>2 DEF LowestIn
  <2>5. sev[c] = Effective(m)
    BY <1>2, <2>4, LowestIsEffective, ModulesKnown DEF IInv
  <2> QED
    BY <2>5 DEF CachedFor, SameItems
<1> QED
  BY <1>3, <1>4

\* What EndSet and EndClear have in common.
LEMMA UnlockKeeps ==
  ASSUME IInv, NEW c \in Callers, at[c] \in {"set", "clear"}, Unlock(c),
         NEW to \in {"version", "idle"}, at' = [at EXCEPT ![c] = to]
  PROVE  /\ UNCHANGED <<file, seen, backends, consumers, filter, medLock, partial>>
         /\ confLock' = Nobody
         /\ version' = (IF changed[c] THEN version + 1 ELSE version) /\ version \in Nat
         /\ ~changed[c] => published' = published
         /\ DOMAIN at' = Procs /\ at'[c] = to /\ \A p \in Procs \ {c} : at'[p] = at[p]
         /\ DOMAIN todo' = Procs /\ todo'[c] = <<>> /\ \A p \in Procs \ {c} : todo'[p] = todo[p]
         /\ sev' \in [Callers -> Severities] /\ \A d \in Callers \ {c} : sev'[d] = sev[d]
         /\ changed' \in [Callers -> BOOLEAN] /\ ~changed'[c]
         /\ \A d \in Callers \ {c} : changed'[d] = changed[d]
         /\ PublishedKnown' /\ ConsumersKnown'
         /\ \A m : Effective(m)' = Effective(m)
<1> USE DEF IInv
<1>1. c \in Procs /\ Updater \in Procs /\ c # Updater /\ Callers \subseteq Procs
  BY NamesDiffer DEF Procs
<1>2. /\ UNCHANGED <<file, seen, backends, consumers, filter, medLock, partial>>
      /\ confLock' = Nobody
      /\ IF changed[c] THEN version' = version + 1 /\ published' = EffectiveMap
                       ELSE version' = version /\ published' = published
      /\ todo' = [todo EXCEPT ![c] = <<>>] /\ sev' = [sev EXCEPT ![c] = eSuppress]
      /\ changed' = [changed EXCEPT ![c] = FALSE]
  BY DEF Unlock, RaiseVersion, ForgetLocals
<1>3. /\ DOMAIN at' = Procs /\ at'[c] = to /\ \A p \in Procs \ {c} : at'[p] = at[p]
      /\ DOMAIN todo' = Procs /\ todo'[c] = <<>> /\ \A p \in Procs \ {c} : todo'[p] = todo[p]
  BY <1>1, <1>2 DEF TypeOK
<1>4. /\ sev' \in [Callers -> Severities] /\ \A d \in Callers \ {c} : sev'[d] = sev[d]
      /\ changed' \in [Callers -> BOOLEAN] /\ ~changed'[c]
      /\ \A d \in Callers \ {c} : changed'[d] = changed[d]
  BY <1>2, SeveritiesAreNat DEF TypeOK
<1>5. EffectiveMap' = EffectiveMap /\ \A m : Effective(m)' = Effective(m)
  BY <1>2, EffectiveSame
<1>6. PublishedKnown'
  <2>1. CASE changed[c]
    BY <1>2, <1>5, <2>1 DEF PublishedKnown
  <2>2. CASE ~changed[c]
    <3>1. ~Changing /\ at[Updater] \notin Installing
      BY <2>2, OneChanges DEF Changing, Installing
    <3> QED
      BY <1>1, <1>2, <1>3, <1>5, <2>2, <3>1 DEF PublishedKnown
  <2> QED
    BY <2>1, <2>2
<1>7. ConsumersKnown'
  BY <1>1, <1>2, <1>3 DEF ConsumersKnown
<1>8. version \in Nat
  BY DEF TypeOK
<1> QED
  BY <1>2, <1>3, <1>4, <1>5, <1>6, <1>7, <1>8

LEMMA EndSetIInv == ASSUME IInv, NEW c \in Callers, EndSet(c) PROVE IInv'
<1> USE DEF IInv
<1>1. c \in Procs /\ Updater \in Procs /\ c # Updater /\ Callers \subseteq Procs
      /\ Updater \notin Callers
  BY NamesDiffer DEF Procs
<1>2. /\ at[c] = "set" /\ todo[c] = <<>> /\ at' = [at EXCEPT ![c] = "version"]
      /\ Unlock(c)
      /\ handle' = [handle EXCEPT ![c].sev = sev[c]]
      /\ raced' = (IF changed[c] THEN raced \cup Refreshing ELSE raced) \ {c}
      /\ min' = min
  BY DEF EndSet, Go, Unlock
<1>3. /\ UNCHANGED <<file, seen, backends, consumers, filter, medLock, partial>>
      /\ confLock' = Nobody
      /\ version' = (IF changed[c] THEN version + 1 ELSE version) /\ version \in Nat
      /\ ~changed[c] => published' = published
      /\ DOMAIN at' = Procs /\ at'[c] = "version" /\ \A p \in Procs \ {c} : at'[p] = at[p]
      /\ DOMAIN todo' = Procs /\ todo'[c] = <<>> /\ \A p \in Procs \ {c} : todo'[p] = todo[p]
      /\ sev' \in [Callers -> Severities] /\ \A d \in Callers \ {c} : sev'[d] = sev[d]
      /\ changed' \in [Callers -> BOOLEAN] /\ ~changed'[c]
      /\ \A d \in Callers \ {c} : changed'[d] = changed[d]
      /\ PublishedKnown' /\ ConsumersKnown'
      /\ \A m : Effective(m)' = Effective(m)
  BY <1>2, UnlockKeeps
<1>4. /\ handle' \in [Callers -> [sev : Severities, ver : Nat]]
      /\ handle'[c].sev = sev[c] /\ handle'[c].ver = handle[c].ver
      /\ \A d \in Callers \ {c} : handle'[d] = handle[d]
  BY <1>2 DEF TypeOK
<1>5. TypeOK'
  BY <1>1, <1>2, <1>3, <1>4 DEF TypeOK, Refreshing
<1>6. LocksKnown'
  <2>1. confLock = c /\ at[Updater] \notin Installing /\ version # 0
        /\ \A d \in Callers \ {c} : at[d] \notin {"set", "clear"}
    BY <1>2, OneChanges DEF LocksKnown, Installing
  <2> QED
    BY <1>1, <1>2, <1>3, <1>4, <2>1, NamesDiffer DEF TypeOK, LocksKnown
<1>7. MinKnown'
  BY <1>2, <1>3 DEF MinKnown
<1>8. ASSUME at[Updater] # "dead"
      PROVE  HandleKnown(c)'
  BY <1>2, <1>3, <1>4, <1>8, SetIsEffective DEF HandleKnown
<1>9. ASSUME at[Updater] # "dead", NEW d \in Callers \ {c}
      PROVE  HandleKnown(d)'
  <2>1. /\ HandleKnown(d) /\ at[d] # "set" /\ at'[d] = at[d] /\ handle'[d] = handle[d]
        /\ todo'[d] = todo[d] /\ sev'[d] = sev[d] /\ (d \in raced => d \in raced')
    BY <1>1, <1>2, <1>3, <1>4, <1>9, OneChanges DEF HandlesKnown
  <2>2. CASE changed[c]
    <3>1. handle[d].ver \in Nat /\ handle[d].ver <= version /\ version' = version + 1
      BY <1>3, <2>2 DEF TypeOK, LocksKnown
    <3>2. d \in Refreshing => d \in raced'
      BY <1>2, <2>2
    <3> QED
      BY <1>3, <2>1, <3>1, <3>2, HandleOutdated
  <2>3. CASE ~changed[c]
    <3>1. /\ consumers' = consumers /\ filter' = filter
          /\ version' = version /\ published' = published
      BY <1>3, <2>3
    <3> QED
      BY <2>1, <3>1, HandleSame
  <2> QED
    BY <2>2, <2>3
<1> QED
  BY <1>1, <1>3, <1>5, <1>6, <1>7, <1>8, <1>9 DEF HandlesKnown

LEMMA EndClearIInv == ASSUME IInv, NEW c \in Callers, EndClear(c) PROVE IInv'
<1> USE DEF IInv
<1>1. c \in Procs /\ Updater \in Procs /\ c # Updater /\ Callers \subseteq Procs
      /\ Updater \notin Callers
  BY NamesDiffer DEF Procs
<1>2. /\ at[c] = "clear" /\ at' = [at EXCEPT ![c] = "idle"] /\ Unlock(c) /\ handle' = handle
      /\ IF changed[c] THEN min' = LowestActive /\ raced' = raced \cup Refreshing
                       ELSE min' = min /\ raced' = raced
  BY DEF EndClear, Go, Overlap
<1>3. /\ UNCHANGED <<file, seen, backends, consumers, filter, medLock, partial>>
      /\ confLock' = Nobody
      /\ version' = (IF changed[c] THEN version + 1 ELSE version) /\ version \in Nat
      /\ ~changed[c] => published' = published
      /\ DOMAIN at' = Procs /\ at'[c] = "idle" /\ \A p \in Procs \ {c} : at'[p] = at[p]
      /\ DOMAIN todo' = Procs /\ todo'[c] = <<>> /\ \A p \in Procs \ {c} : todo'[p] = todo[p]
      /\ sev' \in [Callers -> Severities] /\ \A d \in Callers \ {c} : sev'[d] = sev[d]
      /\ changed' \in [Callers -> BOOLEAN] /\ ~changed'[c]
      /\ \A d \in Callers \ {c} : changed'[d] = changed[d]
      /\ PublishedKnown' /\ ConsumersKnown'
      /\ \A m : Effective(m)' = Effective(m)
  BY <1>2, UnlockKeeps
<1>4. LowestActive \in Severities
      /\ \A b \in Range(backends) : \A m \in DOMAIN filter[b] : LowestActive <= filter[b][m]
  BY LowestActiveOf
<1>5. TypeOK'
  <2>1. min' \in Severities /\ raced' \subseteq Callers
    BY <1>2, <1>4 DEF TypeOK, Refreshing
  <2>2. version' \in Nat /\ confLock' \in Procs \cup {Nobody} /\ handle' = handle
    BY <1>2, <1>3
  <2>3. \A d \in Callers : at'[d] = at[d] \/ at'[d] = "idle"
    BY <1>1, <1>3
  <2>4. \A d \in Callers : todo'[d] \in Seq(Ids)
    BY <1>1, <1>3, EmptySeq DEF TypeOK
  <2>5. at'[Updater] = at[Updater] /\ todo'[Updater] = todo[Updater]
    BY <1>1, <1>3
  <2> QED
    BY <1>3, <2>1, <2>2, <2>3, <2>4, <2>5 DEF TypeOK
<1>6. LocksKnown'
  <2>1. confLock = c /\ at[Updater] \notin Installing /\ version # 0
        /\ \A d \in Callers \ {c} : at[d] \notin {"set", "clear"}
    BY <1>2, OneChanges DEF LocksKnown, Installing
  <2> QED
    BY <1>1, <1>2, <1>3, <2>1, NamesDiffer DEF TypeOK, LocksKnown
<1>7. MinKnown'
  <2>1. CASE changed[c]
    BY <1>2, <1>3, <1>4, <2>1 DEF MinKnown
  <2>2. CASE ~changed[c]
    BY <1>1, <1>2, <1>3, <2>2 DEF MinKnown
  <2> QED
    BY <2>1, <2>2
<1>8. ASSUME at[Updater] # "dead", NEW d \in Callers
      PROVE  HandleKnown(d)'
  <2>1. /\ HandleKnown(d) /\ at[d] # "set" /\ handle[d].ver \in Nat /\ handle[d].ver <= version
        /\ d \in raced => d \in raced'
    BY <1>2, <1>8, OneChanges DEF HandlesKnown, TypeOK, LocksKnown
  <2>2. CASE changed[c]
    <3>1. version' = version + 1 /\ (d \in Refreshing => d \in raced')
      BY <1>2, <1>3, <2>2
    <3>2. CASE d = c
      BY <1>2, <1>3, <2>1, <3>1, <3>2 DEF HandleKnown
    <3>3. CASE d # c
      BY <1>1, <1>2, <1>3, <2>1, <3>1, <3>3, HandleOutdated
    <3> QED
      BY <3>2, <3>3
  <2>3. CASE ~changed[c]
    <3>1. CASE d = c
      BY <1>2, <1>3, <2>1, <2>3, <3>1 DEF HandleKnown
    <3>2. CASE d # c
      BY <1>1, <1>2, <1>3, <2>1, <2>3, <3>2, HandleSame
    <3> QED
      BY <3>1, <3>2
  <2> QED
    BY <2>2, <2>3
<1> QED
  BY <1>1, <1>3, <1>5, <1>6, <1>7, <1>8 DEF HandlesKnown

-----------------------------------------------------------------------------
(* Steps of the configurator.                                              *)

LEMMA EditFileIInv == ASSUME IInv, EditFile PROVE IInv'
<1> USE DEF IInv
<1>1. PICK blocks \in Configs \cup {Unreadable} :
        file' = [stamp |-> file.stamp + 1, blocks |-> blocks]
  BY DEF EditFile
<1>2. /\ file.stamp < MaxEdits
      /\ UNCHANGED <<seen, backends, consumers, filter, min, version, confLock, medLock, at,
                     todo, sev, changed, handle, published, raced, partial>>
  BY DEF EditFile, config, locks, local, history
<1>3. file'.stamp \in 0 .. MaxEdits /\ file'.blocks \in Configs \cup {Unreadable}
  BY <1>1, <1>2, BoundsAssumption DEF TypeOK
<1>4. TypeOK'
  BY <1>2, <1>3 DEF TypeOK
<1>5. EffectiveMap' = EffectiveMap /\ \A m : Effective(m)' = Effective(m)
  BY <1>2, EffectiveSame
<1>6. LocksKnown' /\ ConsumersKnown' /\ PublishedKnown' /\ MinKnown'
  BY <1>2, <1>5 DEF LocksKnown, ConsumersKnown, PublishedKnown, Changing, MinKnown
<1>7. HandlesKnown'
  BY <1>2, HandleSame DEF HandlesKnown
<1> QED
  BY <1>4, <1>6, <1>7

LEMMA ConstructAgainIInv == ASSUME IInv, ConstructAgain PROVE IInv'
<1> USE DEF IInv
<1>1. Updater \in Procs /\ Updater \notin Callers /\ Callers \subseteq Procs
  BY NamesDiffer DEF Procs
<1>2. /\ version = 0 /\ at[Updater] = "dead" /\ at' = [at EXCEPT ![Updater] = "deregister"]
      /\ confLock' = Updater
      /\ UNCHANGED <<file, seen, backends, consumers, filter, min, version, medLock,
                     todo, sev, changed, handle, published, raced, partial>>
  BY DEF ConstructAgain, Go, config, local, history
<1>3. /\ DOMAIN at' = Procs /\ at'[Updater] = "deregister"
      /\ \A d \in Callers : at'[d] = at[d] /\ at[d] = "new"
  BY <1>1, <1>2 DEF TypeOK, LocksKnown
<1>4. backends = <<>> /\ todo[Updater] = <<>>
  BY <1>2 DEF ConsumersKnown
<1>5. TypeOK'
  BY <1>1, <1>2, <1>3, <1>4 DEF TypeOK
<1>6. LocksKnown'
  BY <1>1, <1>2, <1>3, NamesDiffer DEF TypeOK, LocksKnown, Installing
<1>7. ConsumersKnown' /\ PublishedKnown' /\ MinKnown'
  BY <1>2, <1>3, <1>4 DEF ConsumersKnown, PublishedKnown, Installing, MinKnown
<1>8. HandlesKnown'
  BY <1>3 DEF HandlesKnown, HandleKnown
<1> QED
  BY <1>5, <1>6, <1>7, <1>8

LEMMA IsConfigurationChangedIInv == ASSUME IInv, IsConfigurationChanged PROVE IInv'
<1> USE DEF IInv
<1>1. Updater \in Procs /\ Updater \notin Callers /\ Callers \subseteq Procs
  BY NamesDiffer DEF Procs
<1>2. /\ at[Updater] = "waiting" /\ at' = [at EXCEPT ![Updater] = "restore"]
      /\ UNCHANGED <<file, seen, backends, consumers, filter, min, version, confLock, medLock,
                     todo, sev, changed, handle, published, raced, partial>>
  BY DEF IsConfigurationChanged, Go, config, locks, local, history
<1>3. /\ DOMAIN at' = Procs /\ at'[Updater] = "restore" /\ \A d \in Callers : at'[d] = at[d]
  BY <1>1, <1>2 DEF TypeOK
<1>4. TypeOK'
  BY <1>1, <1>2, <1>3 DEF TypeOK
<1>5. LocksKnown' /\ ConsumersKnown' /\ MinKnown'
  BY <1>1, <1>2, <1>3 DEF LocksKnown, Installing, ConsumersKnown, MinKnown
<1>6. PublishedKnown'
  BY <1>2, <1>3, EffectiveSame DEF PublishedKnown, Installing, Changing
<1>7. HandlesKnown'
  BY <1>2, <1>3, HandleSame DEF HandlesKnown
<1> QED
  BY <1>4, <1>5, <1>6, <1>7

LEMMA RestoreConfigurationIInv == ASSUME IInv, RestoreConfiguration PROVE IInv'
<1> USE DEF IInv
<1>1. Updater \in Procs /\ Updater \notin Callers /\ Callers \subseteq Procs
  BY NamesDiffer DEF Procs
<1>2. /\ at[Updater] = "restore" /\ at' = [at EXCEPT ![Updater] = "deregister"]
      /\ confLock = Nobody /\ confLock' = Updater
      /\ todo' = [todo EXCEPT ![Updater] = backends]
      /\ UNCHANGED <<file, seen, backends, consumers, filter, min, version, medLock,
                     sev, changed, handle, published, raced, partial>>
  BY DEF RestoreConfiguration, Go, config, history
<1>3. /\ DOMAIN at' = Procs /\ at'[Updater] = "deregister" /\ \A d \in Callers : at'[d] = at[d]
      /\ DOMAIN todo' = Procs /\ todo'[Updater] = backends
      /\ \A d \in Callers : todo'[d] = todo[d]
  BY <1>1, <1>2 DEF TypeOK
<1>4. TypeOK'
  BY <1>1, <1>2, <1>3 DEF TypeOK
<1>5. LocksKnown'
  BY <1>1, <1>2, <1>3, NamesDiffer DEF TypeOK, LocksKnown, Installing
<1>6. ConsumersKnown' /\ PublishedKnown' /\ MinKnown'
  BY <1>2, <1>3 DEF ConsumersKnown, PublishedKnown, Installing, MinKnown
<1>7. HandlesKnown'
  BY <1>2, <1>3, HandleSame DEF HandlesKnown
<1> QED
  BY <1>4, <1>5, <1>6, <1>7

\* While the updater installs a configuration no caller is at work on one.
LEMMA NobodyChanges ==
  ASSUME TypeOK, LocksKnown, at[Updater] \in Installing
  PROVE  /\ confLock = Updater
         /\ \A d \in Callers : at[d] \notin {"set", "clear"}
  BY NamesDiffer DEF TypeOK, LocksKnown

\* A step of the updater that overlaps whatever it changes leaves the handles alone.
LEMMA UpdaterKeepsHandles ==
  ASSUME IInv, at[Updater] \in Installing, \A d \in Callers : at'[d] = at[d],
         handle' = handle, raced' = raced \cup Refreshing,
         version' = version, published' = published
  PROVE  HandlesKnown'
<1>1. at[Updater] # "dead"
  BY DEF Installing
<1>2. \A d \in Callers : HandleKnown(d) /\ at[d] # "set"
  BY <1>1, NobodyChanges DEF IInv, HandlesKnown
<1> QED
  BY <1>2, HandleOverlapped DEF HandlesKnown

LEMMA DeRegisterIInv == ASSUME IInv, DeRegister PROVE IInv'
<1> USE DEF IInv
<1>1. Updater \in Procs /\ Updater \notin Callers /\ Callers \subseteq Procs
  BY NamesDiffer DEF Procs
<1> DEFINE t == todo[Updater]
<1>2. /\ at[Updater] = "deregister" /\ t # <<>> /\ at' = at
      /\ consumers' = consumers \ {Head(t)}
      /\ todo' = [todo EXCEPT ![Updater] = Tail(@)]
      /\ raced' = raced \cup Refreshing
      /\ UNCHANGED <<file, seen, backends, filter, min, version, confLock, medLock,
                     sev, changed, handle, published, partial>>
  BY DEF DeRegister, Visit, Overlap, locks
<1>3. /\ DOMAIN todo' = Procs /\ todo'[Updater] = Tail(t)
      /\ \A d \in Callers : todo'[d] = todo[d]
  BY <1>1, <1>2 DEF TypeOK
<1>4. t \in Seq(Ids) /\ consumers = Range(t) /\ IsInjective(t)
  BY <1>2 DEF TypeOK, ConsumersKnown
<1>5. /\ Tail(t) \in Seq(Ids) /\ Range(t) = {Head(t)} \cup Range(Tail(t))
      /\ IsInjective(Tail(t)) /\ Head(t) \notin Range(Tail(t))
  BY <1>2, <1>4, RangeTail
<1>6. consumers' = Range(Tail(t)) /\ consumers' \subseteq Ids
  BY <1>2, <1>4, <1>5 DEF TypeOK
<1> HIDE DEF t
<1>7. TypeOK'
  BY <1>1, <1>2, <1>3, <1>5, <1>6 DEF TypeOK, Refreshing
<1>8. LocksKnown' /\ ConsumersKnown' /\ PublishedKnown' /\ MinKnown'
  BY <1>2, <1>3, <1>5, <1>6
     DEF LocksKnown, ConsumersKnown, PublishedKnown, Installing, MinKnown
<1>9. HandlesKnown'
  BY <1>2, UpdaterKeepsHandles DEF Installing
<1> QED
  BY <1>7, <1>8, <1>9

LEMMA RefreshIInv == ASSUME IInv, Refresh PROVE IInv'
<1> USE DEF IInv
<1>1. Updater \in Procs /\ Updater \notin Callers /\ Callers \subseteq Procs
  BY NamesDiffer DEF Procs
<1>2. /\ at[Updater] = "deregister" /\ at' = [at EXCEPT ![Updater] = "read"]
      /\ todo[Updater] = <<>> /\ backends' = <<>>
      /\ filter' = [b \in Ids |-> NewBackend] /\ min' = eSeverityMax /\ seen' = file.stamp
      /\ partial' = FALSE
      /\ UNCHANGED <<file, consumers, version, confLock, medLock,
                     todo, sev, changed, handle, published, raced>>
  BY DEF Refresh, Go, locks, local
<1>3. /\ DOMAIN at' = Procs /\ at'[Updater] = "read" /\ \A d \in Callers : at'[d] = at[d]
  BY <1>1, <1>2 DEF TypeOK
<1>4. consumers = {}
  BY <1>2, EmptyRange DEF ConsumersKnown
<1>5. /\ filter' \in [Ids -> Filters]
      /\ \A b \in Ids : Root \in DOMAIN filter'[b] /\ filter'[b][Root] # eHysterical
  <2>1. NewBackend \in BackendFilters
    BY OnlyRootFilter, SeveritiesAreNat DEF NewBackend, eNotSet, eHysterical
  <2> QED
    BY <1>2, <2>1 DEF BackendFilters
<1>6. TypeOK'
  BY <1>2, <1>3, <1>5, SeveritiesAreNat, EmptySeq DEF TypeOK
<1>7. LocksKnown' /\ PublishedKnown'
  BY <1>1, <1>2, <1>3 DEF LocksKnown, PublishedKnown, Installing
<1>8. ConsumersKnown' /\ MinKnown'
  BY <1>2, <1>3, <1>4, EmptyRange DEF ConsumersKnown, MinKnown
<1>9. HandlesKnown'
  BY <1>2, <1>3, <1>4, HandleSame DEF HandlesKnown
<1> QED
  BY <1>6, <1>7, <1>8, <1>9

LEMMA ReadLinesIInv == ASSUME IInv, ReadLines PROVE IInv'
<1> USE DEF IInv
<1>1. Updater \in Procs /\ Updater \notin Callers /\ Callers \subseteq Procs
  BY NamesDiffer DEF Procs
<1>2. /\ file.blocks # Unreadable
      /\ at[Updater] = "read" /\ at' = [at EXCEPT ![Updater] = "blocks"]
      /\ todo' = [todo EXCEPT ![Updater] = file.blocks]
      /\ UNCHANGED <<file, seen, backends, consumers, filter, min, version, confLock, medLock,
                     sev, changed, handle, published, raced, partial>>
  BY DEF ReadLines, Go, config, locks
<1>3. /\ DOMAIN at' = Procs /\ at'[Updater] = "blocks" /\ \A d \in Callers : at'[d] = at[d]
      /\ DOMAIN todo' = Procs /\ todo'[Updater] = file.blocks
      /\ \A d \in Callers : todo'[d] = todo[d]
  BY <1>1, <1>2 DEF TypeOK
<1>4. file.blocks \in Seq(Blocks) /\ Len(file.blocks) < Cardinality(Ids)
      /\ Len(file.blocks) \in Nat
  BY <1>2, ConfigsAssumption, LenProperties DEF TypeOK
<1>5. TypeOK'
  BY <1>1, <1>2, <1>3, <1>4 DEF TypeOK
<1>6. LocksKnown' /\ PublishedKnown' /\ MinKnown'
  BY <1>1, <1>2, <1>3 DEF LocksKnown, PublishedKnown, Installing, MinKnown
<1>7. ConsumersKnown'
  <2>1. backends = <<>> /\ Len(<<>>) = 0
    BY <1>2 DEF ConsumersKnown
  <2> QED
    BY <1>2, <1>3, <1>4, <2>1 DEF ConsumersKnown
<1>8. HandlesKnown'
  BY <1>2, <1>3, HandleSame DEF HandlesKnown
<1> QED
  BY <1>5, <1>6, <1>7, <1>8

LEMMA ReadThrowsIInv == ASSUME IInv, ReadThrows PROVE IInv'
<1> USE DEF IInv
<1>1. Updater \in Procs /\ Updater \notin Callers /\ Callers \subseteq Procs
  BY NamesDiffer DEF Procs
<1>2. /\ at[Updater] = "read" /\ at' = [at EXCEPT ![Updater] = "dead"]
      /\ confLock' = Nobody
      /\ UNCHANGED <<file, seen, backends, consumers, filter, min, version, medLock,
                     todo, sev, changed, handle, published, raced, partial>>
  BY DEF ReadThrows, Go, config, local, history
<1>3. /\ DOMAIN at' = Procs /\ at'[Updater] = "dead" /\ \A d \in Callers : at'[d] = at[d]
  BY <1>1, <1>2 DEF TypeOK
<1>4. TypeOK'
  BY <1>1, <1>2, <1>3 DEF TypeOK
<1>5. LocksKnown'
  <2>1. \A d \in Callers : at[d] \notin {"set", "clear"}
    BY <1>2, NobodyChanges DEF Installing
  <2> QED
    BY <1>1, <1>2, <1>3, <2>1, NamesDiffer DEF LocksKnown, Installing
<1>6. ConsumersKnown' /\ PublishedKnown' /\ MinKnown'
  BY <1>2, <1>3 DEF ConsumersKnown, PublishedKnown, MinKnown
<1>7. HandlesKnown'
  BY <1>3 DEF HandlesKnown
<1> QED
  BY <1>4, <1>5, <1>6, <1>7

\* There is an identity for one more backend, and the mediator and m_Backends get the
\* same one.
LEMMA AddBackendKeeps ==
  ASSUME IInv, at[Updater] \in {"blocks", "default"}, Len(backends) < Cardinality(Ids),
         NEW f \in BackendFilters, AddBackend(f)
  PROVE  /\ backends' \in Seq(Ids) /\ backends' # <<>> /\ Len(backends') = Len(backends) + 1
         /\ consumers' \subseteq Ids
         /\ consumers' = Range(backends') /\ IsInjective(backends')
         /\ filter' \in [Ids -> Filters]
         /\ \A b \in Ids : Root \in DOMAIN filter'[b] /\ filter'[b][Root] # eHysterical
         /\ \A b \in Range(backends') : \/ filter'[b] = f
                                        \/ b \in Range(backends) /\ filter'[b] = filter[b]
         /\ raced' = raced \cup Refreshing /\ raced' \subseteq Callers
<1> USE DEF IInv
<1>1. /\ backends \in Seq(Ids) /\ consumers \subseteq Ids
      /\ consumers = Range(backends) /\ IsInjective(backends)
  BY DEF TypeOK, ConsumersKnown
<1>2. FreshId \in Ids /\ FreshId \notin Range(backends)
  <2>1. Cardinality(Range(backends)) = Len(backends)
    BY <1>1, InjectiveLength
  <2>2. Range(backends) # Ids
    <3>1. Len(backends) \in Nat /\ Cardinality(Ids) \in Nat
      BY <1>1, LenProperties, FS_CardinalityType, ConfigsAssumption
    <3> QED
      BY <2>1, <3>1
  <2>3. Range(backends) \subseteq Ids
    BY <1>1
  <2>4. \E b \in Ids : b \notin consumers \cup Range(backends)
    BY <1>1, <2>2, <2>3
  <2> QED
    BY <2>4 DEF FreshId
<1>3. /\ backends' = Append(backends, FreshId) /\ consumers' = consumers \cup {FreshId}
      /\ filter' = [filter EXCEPT ![FreshId] = f] /\ raced' = raced \cup Refreshing
  BY DEF AddBackend, Overlap
<1> DEFINE new == FreshId
<1>4. /\ new \in Ids /\ new \notin Range(backends)
      /\ backends' = Append(backends, new) /\ consumers' = consumers \cup {new}
      /\ filter' = [filter EXCEPT ![new] = f]
  BY <1>2, <1>3
<1> HIDE DEF new
<1>5. /\ backends' \in Seq(Ids) /\ backends' # <<>> /\ Len(backends') = Len(backends) + 1
      /\ Range(backends') = Range(backends) \cup {new} /\ IsInjective(backends')
  BY <1>1, <1>4, RangeAppend
<1>6. /\ filter' \in [Ids -> Filters] /\ filter'[new] = f
      /\ \A b \in Ids \ {new} : filter'[b] = filter[b]
  BY <1>4 DEF TypeOK, BackendFilters
<1>7. \A b \in Ids : filter'[b] \in BackendFilters
  BY <1>6, FiltersKnown
<1>8. \A b \in Range(backends') : \/ filter'[b] = f
                                  \/ b \in Range(backends) /\ filter'[b] = filter[b]
  BY <1>1, <1>5, <1>6
<1> QED
  BY <1>1, <1>3, <1>4, <1>5, <1>6, <1>7, <1>8 DEF BackendFilters, TypeOK, Refreshing

LEMMA ParseBlockIInv == ASSUME IInv, ParseBlock PROVE IInv'
<1> USE DEF IInv
<1>1. Updater \in Procs /\ Updater \notin Callers /\ Callers \subseteq Procs
  BY NamesDiffer DEF Procs
<1> DEFINE t == todo[Updater]
           f == NewFilter(Head(t))
<1>2. /\ at[Updater] = "blocks" /\ t # <<>>
      /\ min' = Min({min} \cup Range(f) \cup {Default})
      /\ UNCHANGED <<file, seen, version, confLock, medLock, sev, changed, handle, published,
                     partial>>
  BY DEF ParseBlock, locks
<1>3. /\ t \in Seq(Blocks) /\ Head(t) \in Blocks /\ Tail(t) \in Seq(Blocks)
      /\ Len(Tail(t)) = Len(t) - 1 /\ Len(t) \in Nat \ {0}
      /\ Len(backends) + Len(t) < Cardinality(Ids) /\ Len(backends) \in Nat
  <2>1. t \in Seq(Blocks) /\ backends \in Seq(Ids)
    BY <1>2 DEF TypeOK
  <2>2. Len(t) \in Nat \ {0} /\ Len(backends) \in Nat
    BY <1>2, <2>1, LenProperties, EmptySeq
  <2>3. Len(backends) + Len(t) < Cardinality(Ids)
    BY <1>2 DEF ConsumersKnown
  <2> QED
    BY <1>2, <2>1, <2>2, <2>3, RangeTail
<1>4. f \in BackendFilters
  BY <1>3, NewFilterType
<1>5. /\ min' \in Severities /\ min \in Severities /\ min' <= min
      /\ \A a \in DOMAIN f : min' <= f[a]
  <2> DEFINE T == {min} \cup Range(f) \cup {Default}
  <2>1. T \in SUBSET Severities /\ T \in SUBSET Nat /\ T # {}
    BY <1>4, MinActiveOf, SeveritiesAreNat DEF TypeOK
  <2>2. Min(T) \in T /\ \A x \in T : Min(T) <= x
    BY <2>1, MinOf
  <2>3. \A a \in DOMAIN f : f[a] \in Range(f)
    BY DEF Range
  <2>4. min' = Min(T) /\ min \in Severities
    BY <1>2 DEF TypeOK
  <2>5. min \in T /\ \A a \in DOMAIN f : f[a] \in T
    BY <2>3
  <2> HIDE DEF T, f
  <2> QED
    BY <2>1, <2>2, <2>4, <2>5
<1>6. confLock = Updater /\ \A d \in Callers : at[d] \notin {"set", "clear"}
  BY <1>2, NobodyChanges DEF Installing
<1>7. \A b \in Range(backends) : b \in Ids /\ filter[b] \in BackendFilters
  BY FiltersKnown, RangeOfSeq DEF TypeOK
<1>8. ~partial => \A b \in Range(backends) : \A a \in DOMAIN filter[b] : min' <= filter[b][a]
  <2> SUFFICES ASSUME ~partial, NEW b \in Range(backends), NEW a \in DOMAIN filter[b]
               PROVE  min' <= filter[b][a]
    OBVIOUS
  <2>1. min <= filter[b][a]
    BY <1>6 DEF MinKnown
  <2>2. filter[b][a] \in Nat /\ min \in Nat /\ min' \in Nat
    BY <1>5, <1>7, SeveritiesAreNat, FilterType DEF BackendFilters
  <2> QED
    BY <1>5, <2>1, <2>2
<1>9. CASE AddBackend(f) /\ Visit(Updater) /\ UNCHANGED at
  <2>1. /\ DOMAIN todo' = Procs /\ todo'[Updater] = Tail(t)
        /\ \A d \in Callers : todo'[d] = todo[d]
    BY <1>1, <1>9 DEF Visit, TypeOK
  <2>2. Len(backends) < Cardinality(Ids)
    BY <1>3, FS_CardinalityType, ConfigsAssumption
  <2>3. /\ backends' \in Seq(Ids) /\ backends' # <<>> /\ Len(backends') = Len(backends) + 1
        /\ consumers' \subseteq Ids
        /\ consumers' = Range(backends') /\ IsInjective(backends')
        /\ filter' \in [Ids -> Filters]
        /\ \A b \in Ids : Root \in DOMAIN filter'[b] /\ filter'[b][Root] # eHysterical
        /\ \A b \in Range(backends') : \/ filter'[b] = f
                                       \/ b \in Range(backends) /\ filter'[b] = filter[b]
        /\ raced' = raced \cup Refreshing /\ raced' \subseteq Callers
    BY <1>2, <1>4, <1>9, <2>2, AddBackendKeeps
  <2> HIDE DEF t, f
  <2>4. TypeOK'
    BY <1>2, <1>3, <1>5, <1>9, <2>1, <2>3 DEF TypeOK
  <2>5. LocksKnown' /\ PublishedKnown'
    BY <1>2, <1>9 DEF LocksKnown, PublishedKnown, Installing
  <2>6. ConsumersKnown'
    <3>1. Len(backends') + Len(todo'[Updater]) < Cardinality(Ids)
      BY <1>3, <2>1, <2>3, FS_CardinalityType, ConfigsAssumption
    <3> QED
      BY <1>2, <1>9, <2>3, <3>1 DEF ConsumersKnown
  <2>7. MinKnown'
    BY <1>2, <1>5, <1>8, <2>3 DEF MinKnown
  <2>8. HandlesKnown'
    BY <1>2, <1>9, <2>3, UpdaterKeepsHandles DEF Installing
  <2> QED
    BY <2>4, <2>5, <2>6, <2>7, <2>8
<1>10. CASE Go(Updater, "blocks", "default")
            /\ UNCHANGED <<backends, consumers, filter, todo, raced>>
  <2>1. /\ DOMAIN at' = Procs /\ at'[Updater] = "default" /\ \A d \in Callers : at'[d] = at[d]
    BY <1>1, <1>10 DEF TypeOK, Go
  <2> HIDE DEF f
  <2>2. TypeOK'
    BY <1>1, <1>2, <1>3, <1>5, <1>10, <2>1 DEF TypeOK
  <2>3. LocksKnown' /\ PublishedKnown' /\ ConsumersKnown'
    BY <1>1, <1>2, <1>10, <2>1 DEF LocksKnown, PublishedKnown, Installing, ConsumersKnown
  <2>4. MinKnown'
    BY <1>2, <1>8, <1>10 DEF MinKnown
  <2>5. HandlesKnown'
    BY <1>2, <1>10, <2>1, HandleSame DEF HandlesKnown
  <2> QED
    BY <2>2, <2>3, <2>4, <2>5
<1>11. CASE todo' = [todo EXCEPT ![Updater] = <<>>]
            /\ UNCHANGED <<backends, consumers, filter, at, raced>>
  <2>1. /\ DOMAIN todo' = Procs /\ todo'[Updater] = <<>>
        /\ \A d \in Callers : todo'[d] = todo[d]
    BY <1>1, <1>11 DEF TypeOK
  <2> HIDE DEF f, t
  <2>2. TypeOK'
    BY <1>2, <1>5, <1>11, <2>1, EmptySeq DEF TypeOK
  <2>3. LocksKnown' /\ PublishedKnown'
    BY <1>2, <1>11 DEF LocksKnown, PublishedKnown, Installing
  <2>4. ConsumersKnown'
    <3>1. Len(<<>>) = 0 /\ Len(backends) + 0 < Cardinality(Ids)
      BY <1>3, EmptySeq, FS_CardinalityType, ConfigsAssumption
    <3> QED
      BY <1>2, <1>11, <2>1, <3>1 DEF ConsumersKnown
  <2>5. MinKnown'
    BY <1>2, <1>8, <1>11 DEF MinKnown
  <2>6. HandlesKnown'
    BY <1>2, <1>11, <2>1, HandleSame DEF HandlesKnown
  <2> QED
    BY <2>2, <2>3, <2>4, <2>5, <2>6
<1> QED
  BY <1>9, <1>10, <1>11 DEF ParseBlock

LEMMA EndBlocksIInv == ASSUME IInv, EndBlocks PROVE IInv'
<1> USE DEF IInv
<1>1. Updater \in Procs /\ Updater \notin Callers /\ Callers \subseteq Procs
  BY NamesDiffer DEF Procs
<1>2. /\ at[Updater] = "blocks" /\ todo[Updater] = <<>>
      /\ at' = [at EXCEPT ![Updater] = IF backends # <<>> THEN "publish" ELSE "default"]
      /\ UNCHANGED <<file, seen, backends, consumers, filter, min, version, confLock, medLock,
                     todo, sev, changed, handle, published, raced, partial>>
  BY DEF EndBlocks, Go, config, locks, local, history
<1>3. /\ DOMAIN at' = Procs /\ \A d \in Callers : at'[d] = at[d]
      /\ at'[Updater] = IF backends # <<>> THEN "publish" ELSE "default"
  BY <1>1, <1>2 DEF TypeOK
<1>4. TypeOK'
  BY <1>1, <1>2, <1>3 DEF TypeOK
<1>5. LocksKnown' /\ PublishedKnown' /\ MinKnown'
  BY <1>1, <1>2, <1>3 DEF LocksKnown, PublishedKnown, Installing, MinKnown
<1>6. ConsumersKnown'
  BY <1>2, <1>3 DEF ConsumersKnown
<1>7. HandlesKnown'
  BY <1>2, <1>3, HandleSame DEF HandlesKnown
<1> QED
  BY <1>4, <1>5, <1>6, <1>7

LEMMA UseDefaultIInv == ASSUME IInv, UseDefault PROVE IInv'
<1> USE DEF IInv
<1>1. Updater \in Procs /\ Updater \notin Callers /\ Callers \subseteq Procs
  BY NamesDiffer DEF Procs
<1> DEFINE f == OnlyRoot(Default)
<1>2. /\ at[Updater] = "default" /\ at' = [at EXCEPT ![Updater] = "publish"]
      /\ AddBackend(f) /\ min' = Default /\ partial' = (backends # <<>>)
      /\ UNCHANGED <<file, seen, version, confLock, medLock, todo, sev, changed, handle,
                     published>>
  BY DEF UseDefault, Go, locks, local
<1>3. /\ DOMAIN at' = Procs /\ at'[Updater] = "publish" /\ \A d \in Callers : at'[d] = at[d]
  BY <1>1, <1>2 DEF TypeOK
<1>4. f \in BackendFilters /\ \A m \in DOMAIN f : f[m] = Default
  BY OnlyRootFilter, SeveritiesAreNat, SeveritiesAssumption
<1> HIDE DEF f
<1>5. Len(backends) < Cardinality(Ids)
  <2>1. Len(backends) + Len(todo[Updater]) < Cardinality(Ids)
    BY <1>2 DEF ConsumersKnown
  <2>2. Len(backends) \in Nat /\ Len(todo[Updater]) \in Nat
    BY <1>2, LenProperties DEF TypeOK
  <2> QED
    BY <2>1, <2>2, FS_CardinalityType, ConfigsAssumption
<1>6. /\ backends' \in Seq(Ids) /\ backends' # <<>>
      /\ consumers' \subseteq Ids
      /\ consumers' = Range(backends') /\ IsInjective(backends')
      /\ filter' \in [Ids -> Filters]
      /\ \A b \in Ids : Root \in DOMAIN filter'[b] /\ filter'[b][Root] # eHysterical
      /\ \A b \in Range(backends') : \/ filter'[b] = f
                                     \/ b \in Range(backends) /\ filter'[b] = filter[b]
      /\ raced' = raced \cup Refreshing /\ raced' \subseteq Callers
  BY <1>2, <1>4, <1>5, AddBackendKeeps
<1>7. TypeOK'
  BY <1>1, <1>2, <1>3, <1>6, SeveritiesAreNat DEF TypeOK
<1>8. LocksKnown' /\ PublishedKnown' /\ ConsumersKnown'
  BY <1>1, <1>2, <1>3, <1>6 DEF LocksKnown, PublishedKnown, Installing, ConsumersKnown
<1>9. MinKnown'
  <2>1. ~partial' => Range(backends) = {}
    BY <1>2, EmptyRange
  <2>2. Default \in Nat
    BY SeveritiesAreNat
  <2>3. ~partial' => \A b \in Range(backends') : filter'[b] = f
    BY <1>6, <2>1
  <2>4. Default <= Default
    BY <2>2
  <2> QED
    BY <1>2, <1>4, <2>3, <2>4 DEF MinKnown
<1>10. HandlesKnown'
  BY <1>2, <1>3, <1>6, UpdaterKeepsHandles DEF Installing
<1> QED
  BY <1>7, <1>8, <1>9, <1>10

LEMMA PublishIInv == ASSUME IInv, Publish PROVE IInv'
<1> USE DEF IInv
<1>1. Updater \in Procs /\ Updater \notin Callers /\ Callers \subseteq Procs
  BY NamesDiffer DEF Procs
<1>2. /\ at[Updater] = "publish" /\ at' = [at EXCEPT ![Updater] = "waiting"]
      /\ version' = version + 1 /\ published' = EffectiveMap
      /\ confLock' = Nobody /\ raced' = raced \cup Refreshing
      /\ UNCHANGED <<file, seen, backends, consumers, filter, min, medLock,
                     todo, sev, changed, handle, partial>>
  BY DEF Publish, Go, RaiseVersion, Overlap, local
<1>3. /\ DOMAIN at' = Procs /\ at'[Updater] = "waiting" /\ \A d \in Callers : at'[d] = at[d]
  BY <1>1, <1>2 DEF TypeOK
<1>4. \A d \in Callers : /\ at[d] \notin {"set", "clear"}
                         /\ handle[d].ver \in Nat /\ handle[d].ver <= version
  BY <1>2, NobodyChanges DEF Installing, TypeOK, LocksKnown
<1>5. version \in Nat
  BY DEF TypeOK
<1>6. TypeOK'
  BY <1>1, <1>2, <1>3, <1>5 DEF TypeOK, Refreshing
<1>7. LocksKnown'
  BY <1>1, <1>2, <1>3, <1>4, <1>5, NamesDiffer DEF LocksKnown, Installing
<1>8. PublishedKnown'
  BY <1>2, EffectiveSame DEF PublishedKnown
<1>9. ConsumersKnown' /\ MinKnown'
  BY <1>2, <1>3 DEF ConsumersKnown, MinKnown
<1>10. HandlesKnown'
  BY <1>2, <1>3, <1>4, <1>5, HandleOutdated DEF HandlesKnown
<1> QED
  BY <1>6, <1>7, <1>8, <1>9, <1>10

-----------------------------------------------------------------------------
(* The theorems.                                                           *)

LEMMA InitIInv == Init => IInv
<1> SUFFICES ASSUME Init PROVE IInv
  OBVIOUS
<1>1. Updater \in Procs /\ Updater \notin Callers /\ Callers \subseteq Procs
  BY NamesDiffer DEF Procs
<1>2. PICK blocks \in Configs : file = [stamp |-> 0, blocks |-> blocks]
  BY DEF Init
<1>3. /\ at[Updater] = "deregister" /\ todo[Updater] = <<>>
      /\ \A c \in Callers : at[c] = "new" /\ todo[c] = <<>>
  BY <1>1 DEF Init
<1>4. /\ filter \in [Ids -> Filters]
      /\ \A b \in Ids : Root \in DOMAIN filter[b] /\ filter[b][Root] # eHysterical
  <2>1. NewBackend \in BackendFilters
    BY OnlyRootFilter, SeveritiesAreNat DEF NewBackend, eNotSet, eHysterical
  <2> QED
    BY <2>1 DEF Init, BackendFilters
<1>5. TypeOK
  <2>1. file.stamp \in 0 .. MaxEdits /\ seen \in 0 .. MaxEdits /\ file.blocks \in Configs
    BY <1>2, BoundsAssumption DEF Init
  <2>2. /\ backends \in Seq(Ids) /\ consumers \subseteq Ids /\ raced \subseteq Callers
        /\ \A c \in Callers : todo[c] \in Seq(Ids)
        /\ todo[Updater] \in Seq(Ids) /\ todo[Updater] \in Seq(Blocks)
    BY <1>3, EmptySeq DEF Init
  <2>3. /\ sev \in [Callers -> Severities] /\ changed \in [Callers -> BOOLEAN]
        /\ handle \in [Callers -> [sev : Severities, ver : Nat]]
        /\ min \in Severities
    BY SeveritiesAreNat DEF Init
  <2>4. /\ version \in Nat /\ confLock \in Procs \cup {Nobody}
        /\ medLock \in Callers \cup {Nobody}
        /\ DOMAIN at = Procs /\ DOMAIN todo = Procs /\ partial \in BOOLEAN
    BY <1>1 DEF Init
  <2> QED
    BY <1>3, <1>4, <2>1, <2>2, <2>3, <2>4 DEF TypeOK
<1>6. LocksKnown
  BY <1>1, <1>3, NamesDiffer DEF Init, LocksKnown, Installing
<1>7. ConsumersKnown
  BY <1>3, EmptyRange DEF Init, ConsumersKnown
<1>8. PublishedKnown /\ MinKnown
  BY <1>3, EmptyRange DEF Init, PublishedKnown, Installing, MinKnown
<1>9. HandlesKnown
  BY <1>3 DEF HandlesKnown, HandleKnown
<1> QED
  BY <1>5, <1>6, <1>7, <1>8, <1>9 DEF IInv

LEMMA StepIInv == IInv /\ [Next]_vars => IInv'
<1> SUFFICES ASSUME IInv, [Next]_vars PROVE IInv'
  OBVIOUS
<1>1. CASE EditFile
  BY <1>1, EditFileIInv
<1>2. CASE ConstructAgain
  BY <1>2, ConstructAgainIInv
<1>3. CASE Update
  BY <1>3, IsConfigurationChangedIInv, RestoreConfigurationIInv, DeRegisterIInv, RefreshIInv,
     ReadLinesIInv, ReadThrowsIInv, ParseBlockIInv, EndBlocksIInv, UseDefaultIInv, PublishIInv
     DEF Update
<1>4. ASSUME NEW c \in Callers, Call(c)
      PROVE  IInv'
  BY <1>4, OpenHandleIInv, CheckVersionIInv, BeginLogIInv, BeginSetIInv, BeginClearIInv DEF Call
<1>5. ASSUME NEW c \in Callers, Continue(c)
      PROVE  IInv'
  BY <1>5, StartScanIInv, ScanConsumerIInv, EndScanIInv, ReadVersionIInv, EndLogIInv,
     SetBackendIInv, EndSetIInv, ClearBackendIInv, EndClearIInv DEF Continue
<1>6. CASE UNCHANGED vars
  <2>1. UNCHANGED <<file, seen, backends, consumers, filter, min, version, confLock, medLock,
                    at, todo, sev, changed, handle, published, raced, partial>>
    BY <1>6 DEF vars, config, locks, local, history
  <2>2. TypeOK' /\ LocksKnown' /\ ConsumersKnown' /\ MinKnown'
    BY <2>1 DEF IInv, TypeOK, LocksKnown, ConsumersKnown, MinKnown
  <2>3. PublishedKnown'
    BY <2>1, EffectiveSame DEF IInv, PublishedKnown, Changing
  <2>4. HandlesKnown'
    BY <2>1, HandleSame DEF IInv, HandlesKnown
  <2> QED
    BY <2>2, <2>3, <2>4 DEF IInv
<1> QED
  BY <1>1, <1>2, <1>3, <1>4, <1>5, <1>6 DEF Next

\* Who has which lock, how far a new configuration has been installed, and what a
\* caller in the middle of its call may rely on, at every step (SCXLogHandle,
\* SCXLogFileConfigurator, SCXLogMediatorSimple).
THEOREM FrameworkInvariant == Spec => []IInv
<1> QED
  BY InitIInv, StepIInv, PTL DEF Spec

\* Whenever the configurator is not locked the mediator has its backends as consumers,
\* each once, for every number of callers and every configuration file
\* (RestoreConfiguration, ParseConfigFile, Add).
THEOREM ConsumersStayBackends == Spec => []ConsumersAreBackends
<1>1. IInv => ConsumersAreBackends
  <2> SUFFICES ASSUME IInv, confLock = Nobody
               PROVE  consumers = Range(backends) /\ Cardinality(consumers) = Len(backends)
    BY DEF ConsumersAreBackends
  <2>1. at[Updater] # "deregister"
    BY NamesDiffer DEF IInv, LocksKnown, Installing
  <2>2. consumers = Range(backends) /\ IsInjective(backends) /\ backends \in Seq(Ids)
    BY <2>1 DEF IInv, ConsumersKnown, TypeOK
  <2> QED
    BY <2>2, InjectiveLength
<1> QED
  BY <1>1, FrameworkInvariant, PTL

\* Nothing changes an effective severity and leaves m_ConfigVersion as it was
\* (SetSeverityThreshold, ClearSeverityThreshold, ParseConfigFile).
THEOREM VersionTells == Spec => []VersionTellsConfiguration
<1>1. IInv => VersionTellsConfiguration
  <2> SUFFICES ASSUME IInv, confLock = Nobody, at[Updater] # "dead"
               PROVE  published = EffectiveMap
    BY DEF VersionTellsConfiguration
  <2>1. at[Updater] \notin Installing
    BY NamesDiffer DEF IInv, LocksKnown
  <2>2. ~Changing
    BY NamesDiffer DEF IInv, LocksKnown, Changing
  <2> QED
    BY <2>1, <2>2 DEF IInv, PublishedKnown
<1> QED
  BY <1>1, FrameworkInvariant, PTL

\* A handle that has the version of the configurator, and that no change has overlapped,
\* lets pass what the effective severity of its module does (GetSeverityThreshold,
\* GetEffectiveSeverity, SetSeverityThreshold).
THEOREM HandlesStayCurrent == Spec => []CurrentUnlessRaced
<1>1. IInv => CurrentUnlessRaced
  <2> SUFFICES ASSUME IInv, NEW c \in Callers, Resting(c), c \notin raced,
                      at[Updater] # "dead"
               PROVE  CachedFor(c, handle[c].sev, Effective(ModuleOf[c]))
    BY DEF CurrentUnlessRaced
  <2>1. at[Updater] \notin Installing /\ ~Changing
    BY NamesDiffer DEF IInv, LocksKnown, Changing, Resting
  <2>2. published[c] = Effective(ModuleOf[c])
    BY <2>1 DEF IInv, PublishedKnown, EffectiveMap
  <2>3. CachedFor(c, handle[c].sev, published[c])
    BY DEF IInv, HandlesKnown, HandleKnown, Resting
  <2> QED
    BY <2>2, <2>3
<1> QED
  BY <1>1, FrameworkInvariant, PTL

\* The minimum a caller compares its severity with first is no higher than any
\* threshold, unless the file broke off after a backend (Create, SetSeverityThreshold,
\* ClearSeverityThreshold).
THEOREM MinStaysLowerBound == Spec => []MinIsLowerBound
<1>1. IInv => MinIsLowerBound
  <2> SUFFICES ASSUME IInv, confLock = Nobody, ~partial, NEW b \in Range(backends)
               PROVE  min <= MinActive(filter[b])
    BY DEF MinIsLowerBound
  <2>1. \A c \in Callers : at[c] # "clear"
    BY NamesDiffer DEF IInv, LocksKnown
  <2>2. \A m \in DOMAIN filter[b] : min <= filter[b][m]
    BY <2>1 DEF IInv, MinKnown
  <2>3. filter[b] \in BackendFilters
    BY FiltersKnown, RangeOfSeq DEF IInv, TypeOK
  <2>4. \E m \in DOMAIN filter[b] : MinActive(filter[b]) = filter[b][m]
    BY <2>3, MinActiveOf
  <2> QED
    BY <2>2, <2>4
<1> QED
  BY <1>1, FrameworkInvariant, PTL
=============================================================================
