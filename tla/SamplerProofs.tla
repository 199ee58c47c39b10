------------------------------ MODULE SamplerProofs ------------------------------
(***************************************************************************)
(* Safety of the sampler threads: of the paging sampler with its clock and *)
(* its ring (MemorySampler), and of any number of samplers with their      *)
(* owner and their locks (SamplerThread).                                  *)
(*                                                                         *)
(* MemorySampler.  All deadlines lie a whole number of periods after Base, *)
(* the time of the first sleep, which no step changes; every sample is     *)
(* therefore in time by itself, and an error does not add up over samples. *)
(* The distance of two times is measured doubled, as the clock may be      *)
(* ahead of the time by what it was set forth or behind by what it was set *)
(* back (Forth, Back).  Products with Period occur only in Periods, which  *)
(* is expanded in PeriodsAddUp alone, so that all the rest is linear.      *)
(*                                                                         *)
(* SamplerThread.  Everything follows from who has which lock where        *)
(* (LocksRecorded) and from how the life of a thread goes with the calls   *)
(* of its owner (Lifecycle): the flag is set while the owner has the       *)
(* condition, so never while the sampler is between its look at the flag   *)
(* and the end of a sample.                                                *)
(***************************************************************************)
EXTENDS MemorySampler, SamplerThread, TLAPS

-----------------------------------------------------------------------------
(* The paging sampler and the requests for its rates.                      *)

\* Periods add up.
LEMMA PeriodsAddUp ==
  /\ \A a \in Int : Periods(a) \in Int
  /\ \A a \in Int : Periods(a + 1) = Periods(a) + Period
  /\ \A a, b \in Int : Periods(a - b) = Periods(a) - Periods(b)
  /\ \A a, b \in Int : a <= b => Periods(a) <= Periods(b)
<1> USE DEF Periods
<1>1. Period \in Nat /\ Period >= 1
  BY TimeAssumption
<1>2. \A a \in Int : Periods(a) \in Int
  BY <1>1
<1>3. \A a \in Int : Periods(a + 1) = Periods(a) + Period
  BY <1>1
<1>4. \A a, b \in Int : Periods(a - b) = Periods(a) - Periods(b)
  BY <1>1
<1>5. \A a \in Nat : Periods(a) >= 0
  BY <1>1
<1> HIDE DEF Periods
<1>6. ASSUME NEW a \in Int, NEW b \in Int, a <= b PROVE Periods(a) <= Periods(b)
  <2>1. b - a \in Nat
    BY <1>6
  <2>2. Periods(b - a) >= 0
    BY <1>5, <2>1
  <2>3. Periods(b - a) = Periods(b) - Periods(a)
    BY <1>4
  <2>4. Periods(a) \in Int /\ Periods(b) \in Int
    BY <1>2
  <2> QED
    BY <2>2, <2>3, <2>4
<1> QED
  BY <1>2, <1>3, <1>4, <1>6

\* A rate keeps its bounds as the clock is set and waits end early.
LEMMA RatesStay ==
  ASSUME MemTypeOK, RateIsPerPeriod, RateIsRecent, told' = told,
         NEW j \in Nat, jumped' = jumped + j, NEW w \in Nat, wakeups' = wakeups + w,
         pc = "over" => pc' = "over"
  PROVE  RateIsPerPeriod' /\ RateIsRecent'
<1>1. jumped \in Int /\ wakeups \in Int /\ MaxLate \in Int
  BY TimeAssumption DEF MemTypeOK
<1>2. Periods(1 + wakeups) <= Periods(1 + wakeups + w)
  BY <1>1, PeriodsAddUp
<1>3. ASSUME told # NoRate
      PROVE  /\ told.n \in Int /\ told.waits \in Int /\ told.to \in Int
             /\ told.from \in Int /\ told.at \in Int
  <2>1. told \in [n : 1 .. MaxSamples - 1, to : Nat, from : Nat, waits : Int, at : Nat]
    BY <1>3 DEF MemTypeOK, Rates
  <2>2. MaxSamples - 1 \in Int
    BY SamplesAssumption
  <2> QED
    BY <2>1, <2>2
<1>4. Periods(1 + wakeups) \in Int /\ Periods(1 + wakeups + w) \in Int
  BY <1>1, PeriodsAddUp
<1>5. told # NoRate => Periods(told.waits) \in Int
  BY <1>3, PeriodsAddUp
<1>6. RateIsPerPeriod'
  BY <1>1, <1>3, <1>5 DEF RateIsPerPeriod, NoRate
<1>7. RateIsRecent'
  BY <1>1, <1>2, <1>3, <1>4 DEF RateIsRecent, NoRate
<1> QED
  BY <1>6, <1>7

\* What InTime is computed from is an integer.
LEMMA IntegersKnown ==
  ASSUME MemTypeOK
  PROVE  /\ Base \in Int /\ Forth \in Int /\ Back \in Int /\ MaxLate \in Int
         /\ \A s \in Readings : /\ s.time \in Int /\ s.waits \in Int
                                /\ Periods(s.waits) \in Int
<1>1. waits \in Int /\ deadline \in Int
  BY DEF MemTypeOK
<1>2. Periods(waits) \in Int
  BY <1>1, PeriodsAddUp
<1>3. \A s \in Readings : s.time \in Int /\ s.waits \in Int
  BY DEF Readings
<1>4. \A s \in Readings : Periods(s.waits) \in Int
  BY <1>3, PeriodsAddUp
<1>5. Base \in Int
  BY <1>1, <1>2 DEF Base
<1>6. Forth \in Int /\ Back \in Int /\ MaxLate \in Int
  BY TimeAssumption DEF MemTypeOK, Forth, Back
<1> QED
  BY <1>3, <1>4, <1>5, <1>6

\* The samples keep their places, also when the oldest are dropped or a wait ends early.
LEMMA SamplesStay ==
  ASSUME MemTypeOK, SamplesKnown, Base' = Base,
         NEW f \in Nat, Forth' = Forth + f, NEW b \in Nat, Back' = Back + b,
         NEW w \in Nat, wakeups' = wakeups + w,
         NEW d \in Nat, waits' = waits + d,
         NEW e \in 0 .. w, Awaited' = Awaited + d - e,
         NEW n \in Nat, n <= size, size' = n,
         \A j \in 0 .. n - 1 : Sample(j)' = Sample(j)
  PROVE  SamplesKnown'
<1>1. /\ Awaited \in Int /\ waits \in Int /\ wakeups \in Int /\ size \in Int
      /\ MaxSamples \in Int
  BY SamplesAssumption DEF Awaited, MemTypeOK
<1> SUFFICES ASSUME NEW j \in 0 .. n - 1
             PROVE  /\ Sample(j)' \in Readings /\ InTime(Sample(j))'
                    /\ waits' - Sample(j)'.waits
                         \in j + Awaited' .. j + Awaited' + wakeups'
                    /\ Sample(0)'.waits - Sample(j)'.waits <= j + wakeups'
                    /\ \A i \in 0 .. j : Sample(i)'.waits - Sample(j)'.waits >= j - i
  BY DEF SamplesKnown, InRing
<1>2. /\ j \in InRing /\ 0 \in 0 .. n - 1
      /\ \A i \in 0 .. j : i \in InRing /\ i \in 0 .. n - 1
  BY <1>1 DEF InRing
<1>3. /\ Sample(j)' = Sample(j) /\ Sample(0)' = Sample(0)
      /\ \A i \in 0 .. j : Sample(i)' = Sample(i)
  BY <1>2
<1>4. \A i \in 0 .. j : Sample(i) \in Readings
  BY <1>2 DEF SamplesKnown
<1>5. /\ Sample(j).waits \in Int /\ Sample(0).waits \in Int
      /\ \A i \in 0 .. j : Sample(i).waits \in Int
  BY <1>4 DEF Readings
<1>6. InTime(Sample(j)) /\ Sample(j) \in Readings
  BY <1>2 DEF SamplesKnown
<1>7. InTime(Sample(j))'
  BY <1>3, <1>6, IntegersKnown DEF InTime
<1>8. /\ waits - Sample(j).waits >= j + Awaited
      /\ waits - Sample(j).waits <= j + Awaited + wakeups
      /\ Sample(0).waits - Sample(j).waits <= j + wakeups
      /\ \A i \in 0 .. j : Sample(i).waits - Sample(j).waits >= j - i
  BY <1>2, <1>1, <1>5 DEF SamplesKnown
<1>9. Sample(0).waits - Sample(j).waits <= j + (wakeups + w)
  BY <1>1, <1>5, <1>8
<1>10. waits' - Sample(j)'.waits \in j + Awaited' .. j + Awaited' + wakeups'
  BY <1>1, <1>3, <1>5, <1>8
<1>11. Sample(0)'.waits - Sample(j)'.waits <= j + wakeups'
  BY <1>3, <1>9
<1>12. \A i \in 0 .. j : Sample(i)'.waits - Sample(j)'.waits >= j - i
  BY <1>3, <1>8
<1> QED
  BY <1>3, <1>6, <1>7, <1>10, <1>11, <1>12

\* What is in a ring that a request may read.
LEMMA RateKnown ==
  ASSUME MemInv, rd = "tested", ringLock = "nobody"
  PROVE  /\ Index \in 1 .. MaxSamples - 1 /\ Index = size - 1
         /\ pc # "store" /\ pc # "begin"
         /\ 0 \in InRing /\ Index \in InRing
         /\ data[0] = Sample(0) /\ data[Index] = Sample(Index)
         /\ data[0] \in Readings /\ data[Index] \in Readings
<1>1. MaxSamples \in Int /\ size \in 0 .. MaxSamples
  BY SamplesAssumption DEF MemInv, MemTypeOK
<1>2. pc \notin {"pop", "move", "store"} /\ size >= 2
  BY DEF MemInv, MemTypeOK, RingKnown
<1>3. Index \in 1 .. MaxSamples - 1 /\ Index = size - 1
  BY <1>1, <1>2 DEF Index
<1>4. pc # "begin"
  BY <1>1, <1>2 DEF MemInv, ThreadKnown
<1>5. 0 \in InRing /\ Index \in InRing
  BY <1>1, <1>2, <1>3 DEF InRing
<1>6. data[0] = Sample(0) /\ data[Index] = Sample(Index)
  BY <1>2 DEF Sample
<1> QED
  BY <1>2, <1>3, <1>4, <1>5, <1>6 DEF MemInv, SamplesKnown

\* Every step keeps the types.
LEMMA StepMemTypes == ASSUME MemInv, MemNext PROVE MemTypeOK'
<1> USE SamplesAssumption, TimeAssumption
<1>1. MemTypeOK
  BY DEF MemInv
<1>2. CASE Tick
  BY <1>1, <1>2 DEF MemTypeOK, Tick, time, cond, ring, reader
<1>3. ASSUME NEW j \in Jumps, SetClock(j) PROVE MemTypeOK'
  <2>1. j \in Nat
    OBVIOUS
  <2>2. CASE clock' = clock + j
    BY <1>1, <1>3, <2>1, <2>2 DEF MemTypeOK, SetClock, time, cond, ring, reader
  <2>3. CASE clock' = clock - j
    BY <1>1, <1>3, <2>1, <2>3 DEF MemTypeOK, SetClock, time, cond, ring, reader
  <2> QED
    BY <1>3, <2>2, <2>3 DEF SetClock
<1>4. CASE SetSleep
  BY <1>1, <1>4 DEF MemTypeOK, Busy, SetSleep, ThreadGoes, time, cond, ring, reader
<1>5. CASE TestStop
  BY <1>1, <1>5 DEF MemTypeOK, Busy, TestStop, ThreadGoes, time, cond, ring, reader
<1>6. CASE GetPagingSinceBoot
  BY <1>1, <1>6 DEF MemTypeOK, Busy, Samples, Readings, GetPagingSinceBoot, ThreadGoes,
     time, cond, ring, reader
<1>7. CASE PagingIsNotKnown
  BY <1>1, <1>7 DEF MemTypeOK, Busy, PagingIsNotKnown, ThreadGoes, time, cond, ring,
     reader
<1>8. CASE LockRing
  BY <1>1, <1>8 DEF MemTypeOK, Busy, LockRing, ThreadGoes, time, cond, ring, reader
<1>9. CASE PopBack
  <2>1. size = MaxSamples
    BY <1>9 DEF MemInv, RingKnown, PopBack, ThreadGoes
  <2> QED
    BY <1>1, <1>9, <2>1 DEF MemTypeOK, Busy, PopBack, ThreadGoes, time, cond, ring,
       reader
<1>10. CASE MoveSamples
  <2>1. data' \in [0 .. MaxSamples - 1 -> Samples]
    BY <1>1, <1>10 DEF MemTypeOK, MoveSamples
  <2> QED
    BY <1>1, <1>10, <2>1 DEF MemTypeOK, Busy, MoveSamples, ThreadGoes, time, cond, ring,
       reader
<1>11. CASE StoreSample
  <2>1. size < MaxSamples
    BY <1>11 DEF MemInv, RingKnown, StoreSample, ThreadGoes
  <2>2. data' \in [0 .. MaxSamples - 1 -> Samples]
    BY <1>1, <1>11 DEF MemTypeOK, StoreSample
  <2>3. NoSample \in Samples
    BY DEF Samples
  <2>4. size' \in 0 .. MaxSamples
    BY <1>1, <1>11, <2>1 DEF MemTypeOK, StoreSample
  <2> QED
    BY <1>1, <1>11, <2>2, <2>3, <2>4 DEF MemTypeOK, Busy, StoreSample, ThreadGoes, time,
       cond, ring, reader
<1>12. CASE Wait
  BY <1>1, <1>12 DEF MemTypeOK, Busy, Wait, Advanced, ThreadGoes, time, cond, ring,
     reader
<1>13. CASE TimesOut
  BY <1>1, <1>13 DEF MemTypeOK, Busy, TimesOut, ThreadGoes, time, cond, ring, reader
<1>14. CASE Wakeup
  BY <1>1, <1>14 DEF MemTypeOK, Busy, Wakeup, ThreadGoes, time, cond, ring, reader
<1>15. CASE RequestTerminate
  BY <1>1, <1>15 DEF MemTypeOK, Busy, RequestTerminate, time, cond, ring, reader
<1>16. CASE TestSize
  BY <1>1, <1>16 DEF MemTypeOK, TestSize, RequestGoes, time, cond, ring, reader
<1>17. CASE ReadRing
  <2>1. Rate \in Rates
    BY <1>1, <1>17, RateKnown DEF ReadRing, RequestGoes, Rate, Rates, Readings,
       MemTypeOK
  <2> QED
    BY <1>1, <1>17, <2>1 DEF MemTypeOK, ReadRing, RequestGoes, time, cond, ring, reader
<1> QED
  BY <1>2, <1>3, <1>4, <1>5, <1>6, <1>7, <1>8, <1>9, <1>10, <1>11, <1>12, <1>13, <1>14,
     <1>15, <1>16, <1>17 DEF MemNext

\* Every step keeps what is known of the clock and of the lock of the ring.
LEMMA StepRing == ASSUME MemInv, MemNext PROVE ClockKnown' /\ RingKnown'
<1> USE SamplesAssumption, TimeAssumption
<1>1. MemTypeOK /\ ClockKnown /\ RingKnown
  BY DEF MemInv
<1> USE DEF ClockKnown, Forth, Back, RingKnown
<1>2. CASE Tick
  BY <1>1, <1>2 DEF MemTypeOK, Tick, time, cond, ring, reader
<1>3. ASSUME NEW j \in Jumps, SetClock(j) PROVE ClockKnown' /\ RingKnown'
  <2>1. j \in Nat
    OBVIOUS
  <2>2. CASE clock' = clock + j
    BY <1>1, <1>3, <2>1, <2>2 DEF MemTypeOK, SetClock, time, cond, ring, reader
  <2>3. CASE clock' = clock - j
    BY <1>1, <1>3, <2>1, <2>3 DEF MemTypeOK, SetClock, time, cond, ring, reader
  <2> QED
    BY <1>3, <2>2, <2>3 DEF SetClock
<1>4. CASE SetSleep
  BY <1>1, <1>4 DEF MemTypeOK, SetSleep, ThreadGoes, time, cond, ring, reader
<1>5. CASE TestStop
  BY <1>1, <1>5 DEF MemTypeOK, TestStop, ThreadGoes, time, cond, ring, reader
<1>6. CASE GetPagingSinceBoot
  BY <1>1, <1>6 DEF MemTypeOK, GetPagingSinceBoot, ThreadGoes, time, cond, ring, reader
<1>7. CASE PagingIsNotKnown
  BY <1>1, <1>7 DEF MemTypeOK, PagingIsNotKnown, ThreadGoes, time, cond, ring, reader
<1>8. CASE LockRing
  BY <1>1, <1>8 DEF MemTypeOK, LockRing, ThreadGoes, time, cond, ring, reader
<1>9. CASE PopBack
  BY <1>1, <1>9 DEF MemTypeOK, PopBack, ThreadGoes, time, cond, ring, reader
<1>10. CASE MoveSamples
  BY <1>1, <1>10 DEF MemTypeOK, MoveSamples, ThreadGoes, time, cond, ring, reader
<1>11. CASE StoreSample
  BY <1>1, <1>11 DEF MemTypeOK, StoreSample, HasRoom, ThreadGoes, time, cond, ring,
     reader
<1>12. CASE Wait
  BY <1>1, <1>12 DEF MemTypeOK, Wait, ThreadGoes, time, cond, ring, reader
<1>13. CASE TimesOut
  BY <1>1, <1>13 DEF MemTypeOK, TimesOut, ThreadGoes, time, cond, ring, reader
<1>14. CASE Wakeup
  BY <1>1, <1>14 DEF MemTypeOK, Wakeup, ThreadGoes, time, cond, ring, reader
<1>15. CASE RequestTerminate
  BY <1>1, <1>15 DEF MemTypeOK, RequestTerminate, time, cond, ring, reader
<1>16. CASE TestSize
  BY <1>1, <1>16 DEF MemTypeOK, TestSize, RequestGoes, time, cond, ring, reader
<1>17. CASE ReadRing
  BY <1>1, <1>17 DEF MemTypeOK, ReadRing, RequestGoes, time, cond, ring, reader
<1> QED
  BY <1>2, <1>3, <1>4, <1>5, <1>6, <1>7, <1>8, <1>9, <1>10, <1>11, <1>12, <1>13, <1>14,
     <1>15, <1>16, <1>17 DEF MemNext

\* As long as the clock and the deadline stay, a reading stays in time.
LEMMA ReadingStays ==
  ASSUME MemInv, pc \in HasReading, pc' \in HasReading, UNCHANGED <<cond, reading>>,
         NEW f \in Nat, Forth' = Forth + f, NEW b \in Nat, Back' = Back + b
  PROVE  reading' \in Readings /\ reading'.waits = waits' /\ InTime(reading)'
<1>1. reading \in Readings /\ reading.waits = waits /\ InTime(reading)
  BY DEF MemInv, ThreadKnown
<1>2. Base' = Base
  BY DEF Base, cond
<1>3. InTime(reading)'
  BY <1>1, <1>2, IntegersKnown DEF InTime, MemInv
<1> QED
  BY <1>1, <1>3 DEF cond

\* Every step keeps what is known of the thread.
LEMMA StepThread == ASSUME MemInv, MemNext PROVE ThreadKnown'
<1> USE SamplesAssumption, TimeAssumption
<1>1. MemTypeOK /\ ClockKnown /\ ThreadKnown
  BY DEF MemInv
<1>2. CASE Tick
  <2>1. Forth' = Forth + 0 /\ Back' = Back + 0
    BY <1>1, <1>2 DEF MemTypeOK, Tick, Forth, Back
  <2>2. pc' = pc /\ UNCHANGED <<cond, reading>>
    BY <1>2 DEF Tick
  <2>3. pc \in HasReading
          => reading' \in Readings /\ reading'.waits = waits' /\ InTime(reading)'
    BY <2>1, <2>2, ReadingStays
  <2>4. pc \notin {"begin", "over"} => 2 * (elapsed' - deadline') <= Back' + 2 * late'
    BY <1>1, <1>2 DEF MemTypeOK, ClockKnown, ThreadKnown, Tick, Ready, Busy, Forth,
       Back, cond
  <2>5. pc \in {"test", "sample"} /\ due => -Forth' <= 2 * (elapsed' - deadline')
    BY <1>1, <1>2 DEF MemTypeOK, ThreadKnown, Tick, Forth, cond
  <2> QED
    BY <1>1, <1>2, <2>2, <2>3, <2>4, <2>5 DEF ThreadKnown, Tick, cond, ring
<1>3. ASSUME NEW j \in Jumps, SetClock(j) PROVE ThreadKnown'
  <2>1. j \in Nat
    OBVIOUS
  <2>2. PICK f \in Nat : f \in {0, 2 * j} /\ clock' = clock + f - j
    <3>1. CASE clock' = clock + j
      BY <1>1, <2>1, <3>1 DEF MemTypeOK
    <3>2. CASE clock' = clock - j
      BY <1>1, <2>1, <3>2 DEF MemTypeOK
    <3> QED
      BY <1>3, <3>1, <3>2 DEF SetClock
  <2>3. 2 * j - f \in Nat
    BY <2>1, <2>2
  <2>4. Forth' = Forth + f /\ Back' = Back + (2 * j - f)
    BY <1>1, <1>3, <2>1, <2>2 DEF MemTypeOK, SetClock, Forth, Back
  <2>5. pc' = pc /\ UNCHANGED <<cond, reading>>
    BY <1>3 DEF SetClock
  <2>6. pc \in HasReading
          => reading' \in Readings /\ reading'.waits = waits' /\ InTime(reading)'
    BY <2>3, <2>4, <2>5, ReadingStays
  <2>7. pc \notin {"begin", "over"} => 2 * (elapsed' - deadline') <= Back' + 2 * late'
    BY <1>1, <1>3, <2>3, <2>4, IntegersKnown DEF MemTypeOK, ThreadKnown, SetClock, cond
  <2>8. pc \in {"test", "sample"} /\ due => -Forth' <= 2 * (elapsed' - deadline')
    BY <1>1, <1>3, <2>4, IntegersKnown DEF MemTypeOK, ThreadKnown, SetClock, cond
  <2> QED
    BY <1>1, <1>3, <2>5, <2>6, <2>7, <2>8 DEF ThreadKnown, SetClock, cond, ring
<1>4. CASE SetSleep
  BY <1>1, <1>4 DEF MemTypeOK, ClockKnown, ThreadKnown, HasReading, SetSleep,
     ThreadGoes, Forth, Back, time, ring
<1>5. CASE TestStop
  BY <1>1, <1>5 DEF MemTypeOK, ThreadKnown, HasReading, TestStop, ThreadGoes, Forth,
     Back, time, cond, ring
<1>6. CASE GetPagingSinceBoot
  <2>1. reading' \in Readings /\ reading'.waits = waits /\ reading'.time = elapsed
    BY <1>1, <1>6 DEF MemTypeOK, GetPagingSinceBoot, Readings
  <2>2. /\ -Forth <= 2 * (elapsed - deadline)
        /\ 2 * (elapsed - deadline) <= Back + 2 * late
    BY <1>1, <1>6 DEF ThreadKnown, GetPagingSinceBoot, ThreadGoes
  <2>3. /\ late \in Int /\ late <= MaxLate /\ elapsed \in Int /\ deadline \in Int
        /\ waits \in Int /\ Periods(waits) \in Int
    BY <1>1, PeriodsAddUp DEF MemTypeOK
  <2>4. Forth' = Forth /\ Back' = Back /\ Base' = deadline - Periods(waits)
    BY <1>6 DEF GetPagingSinceBoot, Forth, Back, Base, time, cond
  <2>5. elapsed - Periods(waits) - (deadline - Periods(waits)) = elapsed - deadline
    BY <2>3
  <2>6. InTime(reading)'
    BY <1>1, <2>1, <2>2, <2>3, <2>4, <2>5, IntegersKnown DEF InTime
  <2> QED
    BY <1>1, <1>6, <2>1, <2>4, <2>6 DEF ThreadKnown, HasReading, GetPagingSinceBoot,
       ThreadGoes, time, cond, ring
<1>7. CASE PagingIsNotKnown
  BY <1>1, <1>7 DEF MemTypeOK, ThreadKnown, HasReading, PagingIsNotKnown, ThreadGoes,
     time, cond, ring
<1>8. CASE LockRing \/ PopBack \/ MoveSamples
  <2>1. /\ pc \in {"add", "pop", "move"} /\ pc' \in {"pop", "move", "store"}
        /\ UNCHANGED <<time, wakeups, stop, due, cond, reading>>
    BY <1>8 DEF LockRing, PopBack, MoveSamples, ThreadGoes
  <2>2. Forth' = Forth + 0 /\ Back' = Back + 0
    BY <1>1, <2>1 DEF MemTypeOK, Forth, Back, time
  <2>3. reading' \in Readings /\ reading'.waits = waits' /\ InTime(reading)'
    BY <2>1, <2>2, ReadingStays DEF HasReading
  <2> QED
    BY <1>1, <2>1, <2>3 DEF MemTypeOK, ThreadKnown, HasReading, Back, time, cond
<1>9. CASE StoreSample
  BY <1>1, <1>9 DEF MemTypeOK, ThreadKnown, HasReading, StoreSample, ThreadGoes, Back,
     time, cond
<1>10. CASE Wait
  BY <1>1, <1>10 DEF MemTypeOK, ClockKnown, ThreadKnown, HasReading, Wait, Advanced,
     ThreadGoes, Forth, Back, ring
<1>11. CASE TimesOut
  BY <1>1, <1>11 DEF MemTypeOK, ClockKnown, ThreadKnown, HasReading, TimesOut,
     ThreadGoes, Forth, Back, time, ring
<1>12. CASE Wakeup
  BY <1>1, <1>12 DEF MemTypeOK, ThreadKnown, HasReading, Wakeup, ThreadGoes, Forth,
     Back, time, cond, ring
<1>13. CASE RequestTerminate
  BY <1>1, <1>13 DEF MemTypeOK, ThreadKnown, HasReading, RequestTerminate, Forth, Back,
     time, cond, ring
<1>14. CASE TestSize \/ ReadRing
  <2>1. UNCHANGED <<time, wakeups, pc, stop, due, cond, reading, ring>>
    BY <1>14 DEF TestSize, ReadRing
  <2>2. InTime(reading)' <=> InTime(reading)
    BY <2>1 DEF InTime, Base, Forth, Back, time, cond
  <2> QED
    BY <1>1, <2>1, <2>2 DEF ThreadKnown, Forth, Back, time, cond, ring
<1> QED
  BY <1>2, <1>3, <1>4, <1>5, <1>6, <1>7, <1>8, <1>9, <1>10, <1>11, <1>12, <1>13, <1>14
     DEF MemNext

\* Every step but the store of a new one leaves the samples where they are.
LEMMA StepSamples == ASSUME MemInv, MemNext, ~StoreSample PROVE SamplesKnown'
<1> USE SamplesAssumption, TimeAssumption
<1>1. MemTypeOK /\ ThreadKnown /\ RingKnown /\ SamplesKnown
  BY DEF MemInv
<1>2. /\ Forth \in Int /\ Back \in Int /\ Base \in Int /\ Awaited \in Int
      /\ waits \in Int /\ wakeups \in Int /\ size \in Nat
  BY <1>1, IntegersKnown DEF Awaited, MemTypeOK
<1>3. ASSUME UNCHANGED <<wakeups, cond, data, size>>,
             NEW f \in Nat, Forth' = Forth + f, NEW b \in Nat, Back' = Back + b,
             pc = "store" <=> pc' = "store", Awaited' = Awaited
      PROVE  SamplesKnown'
  <2>1. /\ Base' = Base /\ wakeups' = wakeups + 0 /\ waits' = waits + 0
        /\ Awaited' = Awaited + 0 - 0 /\ size' = size
    BY <1>2, <1>3 DEF Base, cond
  <2>2. \A j \in 0 .. size - 1 : Sample(j)' = Sample(j)
    BY <1>3 DEF Sample
  <2> QED
    BY <1>1, <1>2, <1>3, <2>1, <2>2, SamplesStay
<1>4. ASSUME UNCHANGED <<time, wakeups, cond, data, size>>,
             pc = "store" <=> pc' = "store", Awaited' = Awaited
      PROVE  SamplesKnown'
  <2>1. Forth' = Forth + 0 /\ Back' = Back + 0
    BY <1>2, <1>4 DEF Forth, Back, time
  <2> QED
    BY <1>3, <1>4, <2>1
<1>5. CASE Tick
  <2>1. Forth' = Forth + 0 /\ Back' = Back + 0
    BY <1>1, <1>5 DEF MemTypeOK, Tick, Forth, Back
  <2>2. UNCHANGED <<wakeups, cond, data, size, pc, due, stop>>
    BY <1>5 DEF Tick, ring
  <2>3. Awaited' = Awaited
    BY <2>2 DEF Awaited
  <2> QED
    BY <1>3, <2>1, <2>2, <2>3
<1>6. ASSUME NEW j \in Jumps, SetClock(j) PROVE SamplesKnown'
  <2>1. j \in Nat
    OBVIOUS
  <2>2. PICK f \in Nat : f \in {0, 2 * j} /\ clock' = clock + f - j
    <3>1. CASE clock' = clock + j
      BY <1>1, <2>1, <3>1 DEF MemTypeOK
    <3>2. CASE clock' = clock - j
      BY <1>1, <2>1, <3>2 DEF MemTypeOK
    <3> QED
      BY <1>6, <3>1, <3>2 DEF SetClock
  <2>3. 2 * j - f \in Nat
    BY <2>1, <2>2
  <2>4. Forth' = Forth + f /\ Back' = Back + (2 * j - f)
    BY <1>1, <1>6, <2>1, <2>2 DEF MemTypeOK, SetClock, Forth, Back
  <2>5. UNCHANGED <<wakeups, cond, data, size, pc, due, stop>>
    BY <1>6 DEF SetClock, ring
  <2>6. Awaited' = Awaited
    BY <2>5 DEF Awaited
  <2> QED
    BY <1>3, <2>3, <2>4, <2>5, <2>6
<1>7. CASE SetSleep
  <2>1. size' = 0
    BY <1>1, <1>7 DEF ThreadKnown, SetSleep, ThreadGoes, ring
  <2> QED
    BY <2>1 DEF SamplesKnown, InRing
<1>8. CASE TestStop
  <2>1. pc = "test" /\ pc' \in {"over", "sample", "wait"} /\ Awaited' = Awaited
    BY <1>1, <1>8 DEF MemTypeOK, TestStop, ThreadGoes, Awaited
  <2> QED
    BY <1>4, <1>8, <2>1 DEF TestStop, ring
<1>9. CASE GetPagingSinceBoot \/ PagingIsNotKnown \/ LockRing
  <2>1. /\ pc \in {"sample", "add"} /\ pc' \in {"add", "over", "pop", "move"}
        /\ UNCHANGED <<time, wakeups, stop, due, cond, data, size>>
    BY <1>9 DEF GetPagingSinceBoot, PagingIsNotKnown, LockRing, ThreadGoes, ring
  <2>2. Awaited' = Awaited
    BY <2>1 DEF Awaited
  <2> QED
    BY <1>4, <2>1, <2>2
<1>10. CASE PopBack
  <2>1. pc = "pop" /\ pc' = "move" /\ size \in Nat \ {0} /\ size' = size - 1
    BY <1>1, <1>10 DEF MemTypeOK, RingKnown, PopBack, ThreadGoes
  <2>2. /\ Base' = Base /\ wakeups' = wakeups + 0 /\ waits' = waits + 0
        /\ Awaited' = Awaited + 0 - 0 /\ Forth' = Forth + 0 /\ Back' = Back + 0
    BY <1>2, <1>10, <2>1 DEF PopBack, Base, Awaited, Forth, Back, cond, time
  <2>3. \A j \in 0 .. size - 1 - 1 : Sample(j)' = Sample(j)
    BY <1>10, <2>1 DEF Sample, PopBack
  <2>4. size - 1 \in Nat /\ size - 1 <= size
    BY <2>1
  <2> QED
    BY <1>1, <1>2, <2>1, <2>2, <2>3, <2>4, SamplesStay
<1>11. CASE MoveSamples
  <2>1. /\ pc = "move" /\ pc' = "store" /\ size' = size /\ size < MaxSamples
        /\ UNCHANGED <<time, wakeups, cond>>
    BY <1>1, <1>11 DEF RingKnown, MoveSamples, ThreadGoes
  <2>2. /\ Base' = Base /\ wakeups' = wakeups + 0 /\ waits' = waits + 0
        /\ Awaited' = Awaited + 0 - 0 /\ Forth' = Forth + 0 /\ Back' = Back + 0
    BY <1>2, <2>1 DEF Base, Awaited, Forth, Back, cond, time
  <2>3. ASSUME NEW j \in 0 .. size - 1 PROVE Sample(j)' = Sample(j)
    <3>1. /\ j + 1 \in 1 .. size /\ j + 1 \in 0 .. MaxSamples - 1 /\ j + 1 - 1 = j
          /\ HasRoom
      BY <1>2, <2>1 DEF HasRoom
    <3>2. DOMAIN data = 0 .. MaxSamples - 1
      BY <1>1 DEF MemTypeOK
    <3>3. data'[j + 1] = data[j]
      BY <1>11, <3>1, <3>2 DEF MoveSamples
    <3> QED
      BY <2>1, <3>3 DEF Sample
  <2> QED
    BY <1>1, <1>2, <2>1, <2>2, <2>3, SamplesStay
<1>12. CASE Wait
  <2>1. /\ pc = "wait" /\ pc' = "waiting" /\ waits' = waits + 1
        /\ deadline' = deadline + Period
        /\ UNCHANGED <<elapsed, clock, jumped, wakeups, data, size>>
    BY <1>1, <1>12 DEF ThreadKnown, MemTypeOK, Wait, Advanced, ThreadGoes, ring
  <2>2. Periods(waits) \in Int /\ Periods(waits + 1) = Periods(waits) + Period
    BY <1>2, PeriodsAddUp
  <2>3. Base' = Base
    BY <1>1, <2>1, <2>2 DEF Base, MemTypeOK
  <2>4. /\ wakeups' = wakeups + 0 /\ Awaited' = Awaited + 1 - 0
        /\ Forth' = Forth + 0 /\ Back' = Back + 0
    BY <1>2, <2>1 DEF Awaited, Forth, Back
  <2>5. \A j \in 0 .. size - 1 : Sample(j)' = Sample(j)
    BY <2>1 DEF Sample
  <2> QED
    BY <1>1, <1>2, <2>1, <2>3, <2>4, <2>5, SamplesStay
<1>13. CASE TimesOut
  <2>1. /\ pc = "waiting" /\ pc' = "test" /\ due'
        /\ UNCHANGED <<time, wakeups, stop, deadline, waits, data, size>>
    BY <1>13 DEF TimesOut, ThreadGoes, ring
  <2>2. recompute' = recompute
    BY <1>1, <1>13 DEF MemTypeOK, ThreadKnown, TimesOut, ThreadGoes
  <2>3. Awaited' = Awaited
    BY <2>1 DEF Awaited
  <2> QED
    BY <1>4, <2>1, <2>2, <2>3 DEF cond
<1>14. CASE Wakeup
  <2>1. /\ pc = "waiting" /\ pc' = "test" /\ ~stop /\ ~due /\ wakeups' = wakeups + 1
        /\ UNCHANGED <<time, stop, due, cond, data, size>>
    BY <1>1, <1>14 DEF ThreadKnown, Wakeup, ThreadGoes, ring
  <2>2. Awaited = 1 /\ Awaited' = 0
    BY <2>1 DEF Awaited
  <2>3. /\ waits' = waits + 0 /\ Awaited' = Awaited + 0 - 1 /\ Base' = Base
        /\ Forth' = Forth + 0 /\ Back' = Back + 0
    BY <1>2, <2>1, <2>2 DEF Base, Forth, Back, cond, time
  <2>4. \A j \in 0 .. size - 1 : Sample(j)' = Sample(j)
    BY <2>1 DEF Sample
  <2> QED
    BY <1>1, <1>2, <2>1, <2>3, <2>4, SamplesStay
<1>15. CASE RequestTerminate
  <2>1. /\ pc \in {"begin", "waiting"} /\ pc' \in {"begin", "test"} /\ stop'
        /\ UNCHANGED <<time, wakeups, cond, data, size>>
    BY <1>15 DEF RequestTerminate, ring
  <2>2. Awaited' = Awaited
    BY <2>1 DEF Awaited
  <2> QED
    BY <1>4, <2>1, <2>2
<1>16. CASE TestSize \/ ReadRing
  <2>1. UNCHANGED <<time, wakeups, pc, stop, due, cond, data, size>>
    BY <1>16 DEF TestSize, ReadRing, ring
  <2>2. Awaited' = Awaited
    BY <2>1 DEF Awaited
  <2> QED
    BY <1>4, <2>1, <2>2
<1> QED
  BY <1>5, <1>6, <1>7, <1>8, <1>9, <1>10, <1>11, <1>12, <1>13, <1>14, <1>15, <1>16
     DEF MemNext

\* The new sample is one wait after the newest of the others.
LEMMA StoreSamples == ASSUME MemInv, StoreSample PROVE SamplesKnown'
<1>1. MemTypeOK /\ ThreadKnown /\ RingKnown /\ SamplesKnown
  BY DEF MemInv
<1>2. /\ pc = "store" /\ pc' = "wait" /\ UNCHANGED <<time, wakeups, cond>>
      /\ size < MaxSamples
  BY <1>1 DEF StoreSample, ThreadGoes, RingKnown
<1>3. /\ MaxSamples \in Int /\ size \in Nat /\ waits \in Int /\ wakeups \in Nat
      /\ Awaited = 1 /\ Awaited' = 0
  BY <1>1, <1>2, SamplesAssumption DEF MemTypeOK, Awaited
<1>4. size' = size + 1 /\ data' = [data EXCEPT ![0] = reading]
  BY <1>2, <1>3 DEF StoreSample, HasRoom
<1>5. Sample(0)' = reading
  <2>1. 0 \in DOMAIN data
    BY <1>1, <1>2, <1>3 DEF MemTypeOK
  <2> QED
    BY <1>2, <1>4, <2>1 DEF Sample
<1>6. \A i \in 0 .. size - 1 : Sample(i + 1)' = Sample(i)
  <2> TAKE i \in 0 .. size - 1
  <2>1. i + 1 \in 0 .. MaxSamples - 1 /\ i + 1 # 0
    BY <1>2, <1>3
  <2>2. data'[i + 1] = data[i + 1]
    BY <1>1, <1>4, <2>1 DEF MemTypeOK
  <2> QED
    BY <1>2, <2>2 DEF Sample
<1>7. /\ reading \in Readings /\ reading.waits = waits /\ InTime(reading)
  BY <1>1, <1>2 DEF ThreadKnown, HasReading
<1>8. /\ Forth' = Forth /\ Back' = Back /\ Base' = Base
  BY <1>2 DEF Forth, Back, Base, time, cond
<1> SUFFICES ASSUME NEW j \in 0 .. size
             PROVE  /\ Sample(j)' \in Readings /\ InTime(Sample(j))'
                    /\ waits - Sample(j)'.waits \in j .. j + wakeups
                    /\ Sample(0)'.waits - Sample(j)'.waits <= j + wakeups
                    /\ \A i \in 0 .. j : Sample(i)'.waits - Sample(j)'.waits >= j - i
  BY <1>2, <1>3, <1>4 DEF SamplesKnown, InRing, cond
<1>9. CASE j = 0
  <2>1. InTime(Sample(0))'
    BY <1>5, <1>7, <1>8 DEF InTime
  <2>2. waits - reading.waits = 0 /\ reading.waits - reading.waits = 0
    BY <1>3, <1>7
  <2>3. \A i \in 0 .. j : i = 0
    BY <1>9
  <2> QED
    BY <1>3, <1>5, <1>7, <1>9, <2>1, <2>2, <2>3
<1>10. CASE j # 0
  <2> DEFINE k == j - 1
  <2>1. k \in 0 .. size - 1 /\ k \in InRing /\ j = k + 1
    BY <1>3, <1>10 DEF InRing
  <2>2. Sample(j)' = Sample(k)
    BY <1>6, <2>1
  <2> HIDE DEF k
  <2>3. /\ Sample(k) \in Readings /\ InTime(Sample(k))
        /\ waits - Sample(k).waits \in k + 1 .. k + 1 + wakeups
        /\ \A i \in 0 .. k : Sample(i).waits - Sample(k).waits >= k - i
    BY <1>1, <1>3, <2>1 DEF SamplesKnown
  <2>4. Sample(k).waits \in Int /\ k \in Int
    BY <2>1, <2>3 DEF Readings
  <2>5. InTime(Sample(j))'
    BY <1>8, <2>2, <2>3 DEF InTime
  <2>6. waits - Sample(j)'.waits \in j .. j + wakeups
    BY <1>3, <2>1, <2>2, <2>3
  <2>7. Sample(0)'.waits - Sample(j)'.waits <= j + wakeups
    BY <1>3, <1>5, <1>7, <2>1, <2>2, <2>3, <2>4
  <2>8. ASSUME NEW i \in 0 .. j PROVE Sample(i)'.waits - Sample(j)'.waits >= j - i
    <3>1. CASE i = 0
      BY <1>3, <1>5, <1>7, <2>1, <2>2, <2>3, <2>4, <3>1
    <3>2. CASE i # 0
      <4> DEFINE h == i - 1
      <4>1. h \in 0 .. k /\ h \in 0 .. size - 1 /\ i = h + 1
        BY <1>3, <2>1, <3>2
      <4>2. Sample(i)' = Sample(h)
        BY <1>6, <4>1
      <4> HIDE DEF h
      <4>3. Sample(h).waits - Sample(k).waits >= k - h
        BY <2>3, <4>1
      <4>4. k - h = j - i
        BY <2>1, <2>4, <4>1
      <4> QED
        BY <2>2, <4>2, <4>3, <4>4
    <3> QED
      BY <3>1, <3>2
  <2> QED
    BY <2>2, <2>3, <2>5, <2>6, <2>7, <2>8
<1> QED
  BY <1>9, <1>10

\* A rate that is read now is one per period, and recent.
LEMMA ReadRates == ASSUME MemInv, ReadRing PROVE RateIsPerPeriod' /\ RateIsRecent'
<1>1. /\ rd = "tested" /\ ringLock = "nobody" /\ told' = Rate
      /\ UNCHANGED <<time, wakeups, pc>>
  BY DEF ReadRing, RequestGoes
<1> DEFINE to == data[0]
           from == data[Index]
<1>2. /\ Index \in 1 .. MaxSamples - 1 /\ pc # "begin"
      /\ 0 \in InRing /\ Index \in InRing /\ 0 \in 0 .. Index
      /\ to = Sample(0) /\ from = Sample(Index)
      /\ to \in Readings /\ from \in Readings
  BY <1>1, RateKnown, SamplesAssumption
<1>3. /\ Rate.n = Index /\ Rate.to = to.time /\ Rate.from = from.time
      /\ Rate.waits = to.waits - from.waits /\ Rate.at = elapsed
  BY DEF Rate
<1>4. /\ InTime(to) /\ InTime(from)
      /\ to.waits - from.waits <= Index + wakeups
      /\ to.waits - from.waits >= Index - 0
      /\ waits - to.waits <= 0 + Awaited + wakeups
  BY <1>2 DEF MemInv, MemTypeOK, SamplesKnown
<1> HIDE DEF to, from
<1>5. /\ Base \in Int /\ Forth \in Int /\ Back \in Int /\ MaxLate \in Int
      /\ to.time \in Int /\ to.waits \in Int /\ Periods(to.waits) \in Int
      /\ from.time \in Int /\ from.waits \in Int /\ Periods(from.waits) \in Int
  BY <1>2, IntegersKnown DEF MemInv
<1>6. /\ elapsed \in Int /\ clock \in Int /\ jumped \in Int /\ wakeups \in Int
      /\ waits \in Int /\ deadline \in Int /\ late \in Int /\ late <= MaxLate
      /\ Index \in Int /\ Awaited \in {0, 1}
  BY <1>2, TimeAssumption, SamplesAssumption DEF MemInv, MemTypeOK, Awaited
<1>7. Periods(to.waits - from.waits) = Periods(to.waits) - Periods(from.waits)
  BY <1>5, PeriodsAddUp
<1>8. /\ -Forth <= 2 * (to.time - Periods(to.waits) - Base)
      /\ 2 * (to.time - Periods(to.waits) - Base) <= Back + 2 * MaxLate
      /\ -Forth <= 2 * (from.time - Periods(from.waits) - Base)
      /\ 2 * (from.time - Periods(from.waits) - Base) <= Back + 2 * MaxLate
  BY <1>4 DEF InTime
<1>9. Forth + Back = 2 * jumped
  BY <1>6 DEF Forth, Back
<1>10. RateIsPerPeriod'
  <2> DEFINE off == to.time - from.time - (Periods(to.waits) - Periods(from.waits))
  <2>1. off <= MaxLate + jumped /\ -off <= MaxLate + jumped
    BY <1>5, <1>6, <1>8, <1>9
  <2>2. Index <= to.waits - from.waits /\ to.waits - from.waits <= Index + wakeups
    BY <1>4, <1>5, <1>6
  <2>3. jumped' = jumped /\ wakeups' = wakeups
    BY <1>1 DEF time
  <2> QED
    BY <1>1, <1>3, <1>7, <2>1, <2>2, <2>3 DEF RateIsPerPeriod
<1>11. RateIsRecent'
  <2> SUFFICES ASSUME pc # "over"
               PROVE  elapsed - to.time <= Periods(1 + wakeups) + MaxLate + jumped
    BY <1>1, <1>3 DEF RateIsRecent, time
  <2>1. 2 * (elapsed - deadline) <= Back + 2 * late
    BY <1>2 DEF MemInv, ThreadKnown
  <2>2. Periods(waits) \in Int
    BY <1>6, PeriodsAddUp
  <2>3. waits - to.waits \in Int /\ 1 + wakeups \in Int /\ waits - to.waits <= 1 + wakeups
    BY <1>4, <1>5, <1>6
  <2>4. /\ Periods(waits - to.waits) = Periods(waits) - Periods(to.waits)
        /\ Periods(waits - to.waits) <= Periods(1 + wakeups)
        /\ Periods(1 + wakeups) \in Int
    BY <1>5, <1>6, <2>3, PeriodsAddUp
  <2>5. deadline = Base + Periods(waits)
    BY <1>6, <2>2 DEF Base
  <2> QED
    BY <1>5, <1>6, <1>8, <1>9, <2>1, <2>2, <2>4, <2>5
<1> QED
  BY <1>10, <1>11

\* Every step keeps what is true of the rate that was told.
LEMMA StepRates == ASSUME MemInv, MemNext PROVE RateIsPerPeriod' /\ RateIsRecent'
<1>1. MemTypeOK /\ RateIsPerPeriod /\ RateIsRecent /\ jumped \in Int /\ wakeups \in Int
  BY DEF MemInv, MemTypeOK
<1>2. CASE ReadRing
  BY <1>2, ReadRates
<1>3. CASE TestSize
  BY <1>3 DEF TestSize, RateIsPerPeriod, RateIsRecent
<1>4. ASSUME NEW j \in Jumps, SetClock(j) PROVE RateIsPerPeriod' /\ RateIsRecent'
  <2>1. /\ j \in Nat /\ jumped' = jumped + j /\ wakeups' = wakeups + 0 /\ pc' = pc
        /\ told' = told
    BY <1>1, <1>4, TimeAssumption DEF SetClock, reader
  <2> QED
    BY <1>1, <2>1, RatesStay
<1>5. CASE Wakeup
  <2>1. /\ jumped' = jumped + 0 /\ wakeups' = wakeups + 1 /\ pc # "over"
        /\ told' = told
    BY <1>1, <1>5 DEF Wakeup, ThreadGoes, time, reader
  <2> QED
    BY <1>1, <2>1, RatesStay
<1>6. ASSUME UNCHANGED <<jumped, wakeups, told>>, pc = "over" => pc' = "over"
      PROVE  RateIsPerPeriod' /\ RateIsRecent'
  <2>1. jumped' = jumped + 0 /\ wakeups' = wakeups + 0 /\ told' = told
    BY <1>1, <1>6
  <2> QED
    BY <1>1, <1>6, <2>1, RatesStay
<1>7. CASE \/ Tick \/ SetSleep \/ TestStop \/ GetPagingSinceBoot \/ PagingIsNotKnown
           \/ LockRing \/ PopBack \/ MoveSamples \/ StoreSample \/ Wait \/ TimesOut
           \/ RequestTerminate
  <2>1. UNCHANGED <<jumped, wakeups, told>> /\ (pc = "over" => pc' = "over")
    BY <1>7 DEF Tick, SetSleep, TestStop, GetPagingSinceBoot, PagingIsNotKnown,
       LockRing, PopBack, MoveSamples, StoreSample, Wait, TimesOut, RequestTerminate,
       ThreadGoes, time, reader
  <2> QED
    BY <1>6, <2>1
<1> QED
  BY <1>2, <1>3, <1>4, <1>5, <1>7 DEF MemNext

\* No rate is told and no sample is made at first.
LEMMA MemInitInv == MemInit => MemInv
<1> SUFFICES ASSUME MemInit PROVE MemInv
  OBVIOUS
<1>1. MemTypeOK
  <2>1. late \in 0 .. MaxLate /\ wakeups \in 0 .. MaxWakeups /\ size \in 0 .. MaxSamples
    BY SamplesAssumption, TimeAssumption DEF MemInit
  <2>2. data \in [0 .. MaxSamples - 1 -> Samples] /\ reading \in Samples
    BY DEF MemInit, Samples
  <2>3. told \in Rates \cup {NoRate}
    BY DEF MemInit
  <2>4. stop \in BOOLEAN /\ due \in BOOLEAN /\ recompute \in BOOLEAN
    BY DEF MemInit
  <2>5. /\ elapsed \in Nat /\ clock \in Int /\ jumped \in Nat /\ deadline \in Int
        /\ waits \in Nat
    BY DEF MemInit
  <2>6. pc \in Busy /\ ringLock \in {"nobody", "sampler"} /\ rd \in {"idle", "tested"}
    BY DEF MemInit, Busy
  <2> QED
    BY <2>1, <2>2, <2>3, <2>4, <2>5, <2>6 DEF MemTypeOK
<1>2. ClockKnown /\ ThreadKnown /\ RingKnown
  BY SamplesAssumption DEF MemInit, ClockKnown, Forth, Back, ThreadKnown, HasReading,
     RingKnown
<1>3. SamplesKnown /\ RateIsPerPeriod /\ RateIsRecent
  BY DEF MemInit, SamplesKnown, InRing, RateIsPerPeriod, RateIsRecent
<1> QED
  BY <1>1, <1>2, <1>3 DEF MemInv

\* Every step keeps the inductive invariant.
LEMMA MemStepInv == MemInv /\ [MemNext]_memVars => MemInv'
<1>1. ASSUME MemInv, MemNext PROVE MemInv'
  BY <1>1, StepMemTypes, StepRing, StepThread, StepSamples, StoreSamples, StepRates
     DEF MemInv
<1>2. ASSUME MemInv, UNCHANGED memVars PROVE MemInv'
  <2>1. /\ UNCHANGED <<elapsed, clock, jumped, late, wakeups, pc, stop, due, deadline>>
        /\ UNCHANGED <<recompute, waits, reading, data, size, ringLock, rd, told>>
    BY <1>2 DEF memVars, time, cond, ring, reader
  <2>2. SamplesKnown'
    BY <1>2, <2>1 DEF MemInv, SamplesKnown, InRing, Sample, InTime, Awaited, Base,
       Forth, Back
  <2>3. ThreadKnown'
    BY <1>2, <2>1 DEF MemInv, ThreadKnown, InTime, Base, Forth, Back
  <2>4. MemTypeOK' /\ ClockKnown' /\ RingKnown' /\ RateIsPerPeriod' /\ RateIsRecent'
    BY <1>2, <2>1 DEF MemInv, MemTypeOK, ClockKnown, Forth, Back, RingKnown,
       RateIsPerPeriod, RateIsRecent
  <2> QED
    BY <2>2, <2>3, <2>4 DEF MemInv
<1> QED
  BY <1>1, <1>2

\* Every reachable state of the paging sampler satisfies the inductive invariant.
THEOREM MemoryInvariant == MemSpec => []MemInv
  BY MemInitInv, MemStepInv, PTL DEF MemSpec

\* A rate is a change over as many periods as it is divided by, up to one lateness
\* and what the clock was set by, however long the thread has been sampling.
THEOREM RatesArePerPeriod == MemSpec => []RateIsPerPeriod
<1>1. MemInv => RateIsPerPeriod
  BY DEF MemInv
<1> QED
  BY MemoryInvariant, <1>1, PTL

\* A rate that is told while the thread lives is as recent as the last period.
THEOREM RatesAreRecent == MemSpec => []RateIsRecent
<1>1. MemInv => RateIsRecent
  BY DEF MemInv
<1> QED
  BY MemoryInvariant, <1>1, PTL

-----------------------------------------------------------------------------
(* The threads and their owner.                                            *)

\* No thread is started and no lock is taken at first.
LEMMA InitIInv == Init => IInv
  BY CatchingAssumption DEF Init, IInv, TypeOK, LocksRecorded, Lifecycle, OwnerPCs,
     Resting, SamplerPCs, Who

\* Every step of the owner keeps the invariant.
LEMMA OwnerIInv ==
  ASSUME IInv, NEW s \in Samplers, OwnerStep(s) \/ Call(s) \/ LockCondition(s)
  PROVE  IInv'
<1> USE DEF IInv, OwnerGoes, locks
<1>1. CASE StartThread(s)
  BY <1>1, CatchingAssumption DEF StartThread, TypeOK, LocksRecorded, Lifecycle,
     OwnerPCs, Resting, SamplerPCs, Who
<1>2. CASE BeginRequest(s)
  BY <1>2 DEF BeginRequest, TypeOK, LocksRecorded, Lifecycle, OwnerPCs, Resting,
     SamplerPCs, Who
<1>3. CASE EndRequest(s)
  BY <1>3 DEF EndRequest, TypeOK, LocksRecorded, Lifecycle, OwnerPCs, Resting,
     SamplerPCs, Who
<1>4. CASE CallCleanUp(s)
  BY <1>4 DEF CallCleanUp, TypeOK, LocksRecorded, Lifecycle, OwnerPCs, Resting,
     SamplerPCs, Who
<1>5. CASE LockCondition(s)
  BY <1>5 DEF LockCondition, TypeOK, LocksRecorded, Lifecycle, OwnerPCs, Resting,
     SamplerPCs, Who
<1>6. CASE SetFlag(s)
  BY <1>6 DEF SetFlag, TypeOK, LocksRecorded, Lifecycle, OwnerPCs, Resting,
     SamplerPCs, Who
<1>7. CASE SignalCondition(s)
  BY <1>7 DEF SignalCondition, TypeOK, LocksRecorded, Lifecycle, OwnerPCs,
     Resting, SamplerPCs, Who
<1>8. CASE UnlockCondition(s)
  BY <1>8 DEF UnlockCondition, TypeOK, LocksRecorded, Lifecycle, OwnerPCs,
     Resting, SamplerPCs, Who
<1>9. CASE Join(s)
  BY <1>9 DEF Join, TypeOK, LocksRecorded, Lifecycle, OwnerPCs, Resting,
     SamplerPCs, Who
<1>10. CASE Destroy(s)
  BY <1>10 DEF Destroy, TypeOK, LocksRecorded, Lifecycle, OwnerPCs, Resting,
     SamplerPCs, Who
<1>11. CASE DeleteThread(s)
  BY <1>11 DEF DeleteThread, TypeOK, LocksRecorded, Lifecycle, OwnerPCs, Resting,
     SamplerPCs, Who
<1> QED
  BY <1>1, <1>2, <1>3, <1>4, <1>5, <1>6, <1>7, <1>8, <1>9, <1>10, <1>11
     DEF OwnerStep, Call

\* Every step of a sampler keeps the invariant.
LEMMA SamplerIInv ==
  ASSUME IInv, NEW s \in Samplers,
         SamplerStep(s) \/ Timeout(s) \/ SpuriousWakeup(s)
  PROVE  IInv'
<1> USE DEF IInv, SamplerGoes, SamplerOnly, TakeCondition, DropCondition, locks
<1>1. CASE BeginCondition(s)
  BY <1>1 DEF BeginCondition, TypeOK, LocksRecorded, Lifecycle, SamplerPCs, Who
<1>2. CASE TestFlag(s)
  BY <1>2 DEF TestFlag, TypeOK, LocksRecorded, Lifecycle, SamplerPCs, Who
<1>3. CASE BeginSample(s)
  BY <1>3 DEF BeginSample, TypeOK, LocksRecorded, Lifecycle, SamplerPCs, Who
<1>4. CASE EndSample(s)
  <2>1. CASE SamplerGoes(s, {"sampling"}, "enter")
    <3>1. /\ enumLock' = [enumLock EXCEPT ![s] = "nobody"]
          /\ sp[s] = "sampling" /\ sp' = [sp EXCEPT ![s] = "enter"]
          /\ UNCHANGED <<condMutex, op, flag, tid>>
          /\ update' \in [Samplers -> BOOLEAN]
      BY <1>4, <2>1 DEF EndSample, TypeOK
    <3> QED
      BY <3>1 DEF TypeOK, LocksRecorded, Lifecycle, SamplerPCs, Who
  <2>2. CASE s \notin Catching /\ SamplerGoes(s, {"sampling"}, "throw")
    <3>1. /\ enumLock' = [enumLock EXCEPT ![s] = "nobody"]
          /\ sp[s] = "sampling" /\ sp' = [sp EXCEPT ![s] = "throw"]
          /\ UNCHANGED <<condMutex, op, flag, tid>>
          /\ update' \in [Samplers -> BOOLEAN]
      BY <1>4, <2>2 DEF EndSample, TypeOK
    <3> QED
      BY <2>2, <3>1 DEF TypeOK, LocksRecorded, Lifecycle, SamplerPCs, Who
  <2> QED
    BY <1>4, <2>1, <2>2 DEF EndSample
<1>5. CASE EnterWait(s)
  BY <1>5 DEF EnterWait, TypeOK, LocksRecorded, Lifecycle, SamplerPCs, Who
<1>6. CASE LeaveWait(s)
  BY <1>6 DEF LeaveWait, TypeOK, LocksRecorded, Lifecycle, SamplerPCs, Who
<1>7. CASE EndThread(s)
  BY <1>7 DEF EndThread, TypeOK, LocksRecorded, Lifecycle, SamplerPCs, Who
<1>8. CASE Timeout(s)
  BY <1>8 DEF Timeout, TypeOK, LocksRecorded, Lifecycle, SamplerPCs, Who
<1>9. CASE SpuriousWakeup(s)
  BY <1>9 DEF SpuriousWakeup, TypeOK, LocksRecorded, Lifecycle, SamplerPCs, Who
<1> QED
  BY <1>1, <1>2, <1>3, <1>4, <1>5, <1>6, <1>7, <1>8, <1>9 DEF SamplerStep

\* Every step keeps the inductive invariant.
LEMMA StepIInv == IInv /\ [Next]_vars => IInv'
<1>1. ASSUME IInv, UNCHANGED vars PROVE IInv'
  BY <1>1 DEF vars, locks, IInv, TypeOK, LocksRecorded, Lifecycle
<1> QED
  BY <1>1, OwnerIInv, SamplerIInv DEF Next

\* Every reachable state satisfies the inductive invariant.
THEOREM SamplerInvariant == Spec => []IInv
  BY InitIInv, StepIInv, PTL DEF Spec

\* No sampler touches an enumeration that was cleaned up or is being destroyed.
THEOREM CleanUpIsFinal == Spec => []NoSampleAfterCleanUp
<1>1. IInv => NoSampleAfterCleanUp
  BY DEF IInv, Lifecycle, NoSampleAfterCleanUp
<1> QED
  BY SamplerInvariant, <1>1, PTL

\* The two locks of an enumeration are always taken in one order.
THEOREM LocksAreOrdered == Spec => []LockOrder
<1>1. IInv => LockOrder
  BY DEF IInv, LocksRecorded, LockOrder
<1> QED
  BY SamplerInvariant, <1>1, PTL

\* A sampler that catches its exceptions lives until it is told to end.
THEOREM CatchingSamplersLive == Spec => []CatchingEndsWhenTold
<1>1. IInv => CatchingEndsWhenTold
  BY CatchingAssumption DEF IInv, Lifecycle, CatchingEndsWhenTold
<1> QED
  BY SamplerInvariant, <1>1, PTL

\* After the terminate flag is set no sample begins.
THEOREM RequestIsHeeded == Spec => NoSampleAfterRequest
<1> DEFINE Heeded(s) == flag[s] /\ sp[s] # "sampling" => sp'[s] # "sampling"
<1>1. ASSUME IInv, NEW s \in Samplers,
             OwnerStep(s) \/ Call(s) \/ LockCondition(s)
      PROVE  \A q \in Samplers : Heeded(q)
  BY <1>1 DEF OwnerStep, Call, LockCondition, StartThread, BeginRequest, EndRequest,
     CallCleanUp, SetFlag, SignalCondition, UnlockCondition, Join, Destroy,
     DeleteThread, IInv, TypeOK
<1>2. ASSUME IInv, NEW s \in Samplers,
             SamplerStep(s) \/ Timeout(s) \/ SpuriousWakeup(s)
      PROVE  \A q \in Samplers : Heeded(q)
  BY <1>2 DEF SamplerStep, BeginCondition, TestFlag, BeginSample, EndSample,
     EnterWait, LeaveWait, EndThread, Timeout, SpuriousWakeup, SamplerGoes, IInv,
     TypeOK, Lifecycle
<1>3. IInv /\ [Next]_vars => [\A s \in Samplers : Heeded(s)]_vars
  BY <1>1, <1>2 DEF Next
<1> QED
  BY SamplerInvariant, <1>3, PTL DEF Spec, NoSampleAfterRequest
=============================================================================
