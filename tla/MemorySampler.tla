------------------------------ MODULE MemorySampler ------------------------------
(***************************************************************************)
(* Time and the samplers: the thread of a MemoryInstance, which reads the  *)
(* paging counters once every period and puts them into a DataSampler, and *)
(* the requests that are told a rate computed from the ring of samples.    *)
(* There is no enumeration lock here: the ring's own lock is all there is. *)
(*                                                                         *)
(* The thread sleeps on an SCXCondition.  Its deadline m_ts is a time of   *)
(* the wall clock, taken once by SetSleep and advanced by the period in    *)
(* every Wait, so that a late sample does not delay those after it.  The   *)
(* wall clock may be set while the thread runs, and a wait may end early.  *)
(* A reading of the counter is named by the time at which it was made.     *)
(* The names differ from those of SamplerThread: SamplerProofs extends     *)
(* both.                                                                   *)
(***************************************************************************)
EXTENDS Integers

CONSTANTS MaxSamples,  \* MAX_MEMINSTANCE_DATASAMPER_SAMPLES
          Period,      \* MEMORY_SECONDS_PER_SAMPLE
          MaxLate,     \* bound: how long the thread may be ready to run without running
          Jumps,       \* bound: by how much the clock can be set, forth or back
          MaxJumped,   \* bound: all that the clock is set by
          MaxWakeups,  \* bound: waits that end early
          MaxTime      \* bound: the time that is looked at

ASSUME SamplesAssumption == MaxSamples \in Nat /\ MaxSamples >= 2
ASSUME TimeAssumption == /\ Period \in Nat \ {0} /\ MaxLate \in Nat
                         /\ Jumps \subseteq Nat /\ MaxJumped \in Nat
                         /\ MaxWakeups \in Nat /\ MaxTime \in Nat

VARIABLES elapsed,   \* the time that has really passed
          clock,     \* CLOCK_REALTIME
          jumped,    \* by how much it was set, back and forth
          late,      \* how long the thread has been ready to run
          wakeups,   \* waits that have ended early
          pc,        \* where the thread is
          stop,      \* m_terminateFlag
          due,       \* bUpdate
          deadline,  \* m_ts
          recompute, \* m_bRecomputeSleep
          waits,     \* how often Wait was called
          reading,   \* what GetPagingSinceBoot has returned
          data,      \* the array of the FixedSizeVector
          size,      \* and how much of it is in use
          ringLock,  \* DataSampler::m_lock
          rd,        \* where the request is
          told       \* the rate it was told last

\* The time that n periods last.
Periods(n) == n * Period

time == <<elapsed, clock, jumped, late>>
cond == <<deadline, recompute, waits>>
ring == <<data, size, ringLock>>
reader == <<rd, told>>
memVars == <<time, wakeups, pc, stop, due, cond, reading, ring, reader>>

NoSample == [time |-> -1, waits |-> -1]
NoRate == [n |-> 0]
Busy == {"begin", "test", "sample", "add", "pop", "move", "store", "wait"}

MemInit == /\ elapsed = 0 /\ clock = 0 /\ jumped = 0 /\ late = 0 /\ wakeups = 0
           /\ pc = "begin" /\ stop = FALSE /\ due = TRUE
           /\ deadline = 0 /\ recompute = FALSE /\ waits = 0
           /\ reading = NoSample
           /\ data = [i \in 0 .. MaxSamples - 1 |-> NoSample] /\ size = 0
           /\ ringLock = "nobody"
           /\ rd = "idle" /\ told = NoRate

-----------------------------------------------------------------------------
(* Time.                                                                   *)

\* The thread has something to do.
Ready(t) == pc \in Busy \/ (pc = "waiting" /\ t >= deadline)

\* A thread that is ready runs before MaxLate is over.
Tick == /\ elapsed < MaxTime
        /\ Ready(clock) => late < MaxLate
        /\ elapsed' = elapsed + 1 /\ clock' = clock + 1
        /\ late' = IF Ready(clock) THEN late + 1 ELSE 0
        /\ UNCHANGED <<jumped, wakeups, pc, stop, due, cond, reading, ring, reader>>

SetClock(j) == /\ jumped + j <= MaxJumped
               /\ clock' \in {clock + j, clock - j}
               /\ jumped' = jumped + j
               /\ UNCHANGED <<elapsed, late, wakeups, pc, stop, due, cond, reading,
                              ring, reader>>

-----------------------------------------------------------------------------
(* The thread: the loop of DataAquisitionThreadBody.                       *)

ThreadGoes(from, to) == pc = from /\ pc' = to

\* The time stamp of SetSleep, and the lock of the condition.
SetSleep == /\ ThreadGoes("begin", "test")
            /\ deadline' = clock
            /\ recompute' = TRUE
            /\ UNCHANGED <<time, wakeups, stop, due, waits, reading, ring, reader>>

TestStop == /\ ThreadGoes("test", IF stop THEN "over"
                               ELSE IF due THEN "sample" ELSE "wait")
            /\ UNCHANGED <<time, wakeups, stop, due, cond, reading, ring, reader>>

GetPagingSinceBoot == /\ ThreadGoes("sample", "add")
                      /\ reading' = [time |-> elapsed, waits |-> waits]
                      /\ UNCHANGED <<time, wakeups, stop, due, cond, ring, reader>>

\* The counters cannot be read: the thread ends.
PagingIsNotKnown == /\ ThreadGoes("sample", "over")
                    /\ UNCHANGED <<time, wakeups, stop, due, cond, reading, ring,
                                   reader>>

\* Mutant: a full ring keeps its oldest sample.
LockRing_NoPop == /\ ThreadGoes("add", "move")
                  /\ ringLock = "nobody" /\ ringLock' = "sampler"
                  /\ UNCHANGED <<time, wakeups, stop, due, cond, reading, data, size,
                                 reader>>

\* AddSample: the lock, pop_back, and the two parts of push_front.
LockRing == /\ ThreadGoes("add", IF size = MaxSamples THEN "pop" ELSE "move")
            /\ ringLock = "nobody" /\ ringLock' = "sampler"
            /\ UNCHANGED <<time, wakeups, stop, due, cond, reading, data, size, reader>>

PopBack == /\ ThreadGoes("pop", "move")
           /\ size' = size - 1
           /\ UNCHANGED <<time, wakeups, stop, due, cond, reading, data, ringLock,
                          reader>>

\* A full array is left as it is.
HasRoom == size # MaxSamples

MoveSamples ==
  /\ ThreadGoes("move", "store")
  /\ data' = [i \in DOMAIN data |-> IF HasRoom /\ i \in 1 .. size THEN data[i - 1]
                                    ELSE data[i]]
  /\ UNCHANGED <<time, wakeups, stop, due, cond, reading, size, ringLock, reader>>

StoreSample == /\ ThreadGoes("store", "wait")
               /\ data' = IF HasRoom THEN [data EXCEPT ![0] = reading] ELSE data
               /\ size' = IF HasRoom THEN size + 1 ELSE size
               /\ ringLock' = "nobody"
               /\ due' = FALSE
               /\ reading' = NoSample
               /\ UNCHANGED <<time, wakeups, stop, cond, reader>>

\* Mutant: the next period begins now.
Advanced_FromNow == clock + Period
\* The next wakeup time.
Advanced == deadline + Period

\* The period is added whenever m_bRecomputeSleep is set, which nothing resets.
Wait == /\ ThreadGoes("wait", "waiting")
        /\ deadline' = IF recompute THEN Advanced ELSE deadline
        /\ waits' = waits + 1
        /\ late' = IF clock < deadline' THEN 0 ELSE late
        /\ UNCHANGED <<elapsed, clock, jumped, wakeups, stop, due, recompute, reading,
                       ring, reader>>

TimesOut == /\ ThreadGoes("waiting", "test")
            /\ clock >= deadline
            /\ recompute' = TRUE
            /\ due' = TRUE
            /\ UNCHANGED <<time, wakeups, stop, deadline, waits, reading, ring, reader>>

\* pthread_cond_timedwait may wake up prematurely.
Wakeup == /\ ThreadGoes("waiting", "test")
          /\ wakeups < MaxWakeups
          /\ wakeups' = wakeups + 1
          /\ UNCHANGED <<time, stop, due, cond, reading, ring, reader>>

\* RequestTerminate of CleanUp: all of it while the thread does not have the
\* condition.  A thread that waits is woken.
RequestTerminate == /\ pc \in {"begin", "waiting"} /\ ~stop
                    /\ stop' = TRUE
                    /\ pc' = IF pc = "waiting" THEN "test" ELSE pc
                    /\ UNCHANGED <<time, wakeups, due, cond, reading, ring, reader>>

-----------------------------------------------------------------------------
(* A request: GetPageReads (or GetPageWrites, of a ring of its own), which  *)
(* is GetAverageDelta of the whole ring.                                   *)

RequestGoes(from, to) == rd = from /\ rd' = to

\* Mutant: one sample is taken to be enough.
TestSize_One == /\ RequestGoes("idle", IF size < 1 THEN "idle" ELSE "tested")
                /\ told' = NoRate
                /\ UNCHANGED <<time, wakeups, pc, stop, due, cond, reading, ring>>

\* The size is tested before the lock is taken.
TestSize == /\ RequestGoes("idle", IF size < 2 THEN "idle" ELSE "tested")
            /\ told' = NoRate
            /\ UNCHANGED <<time, wakeups, pc, stop, due, cond, reading, ring>>

\* The distance between the newest sample and the one that is looked at.
Index == IF MaxSamples > size THEN size - 1 ELSE MaxSamples - 1

Rate == [n |-> Index, to |-> data[0].time, from |-> data[Index].time,
         waits |-> data[0].waits - data[Index].waits, at |-> elapsed]

ReadRing == /\ RequestGoes("tested", "idle")
            /\ ringLock = "nobody"
            /\ told' = Rate
            /\ UNCHANGED <<time, wakeups, pc, stop, due, cond, reading, ring>>

-----------------------------------------------------------------------------
MemNext == \/ Tick \/ (\E j \in Jumps : SetClock(j))
           \/ SetSleep \/ TestStop \/ GetPagingSinceBoot \/ PagingIsNotKnown
           \/ LockRing \/ PopBack \/ MoveSamples \/ StoreSample
           \/ Wait \/ TimesOut \/ Wakeup \/ RequestTerminate
           \/ TestSize \/ ReadRing

MemSpec == MemInit /\ [][MemNext]_memVars

-----------------------------------------------------------------------------
Readings == [time : Nat, waits : Nat]
Samples == Readings \cup {NoSample}
Rates == [n : 1 .. MaxSamples - 1, to : Nat, from : Nat, waits : Int, at : Nat]

MemTypeOK == /\ elapsed \in Nat /\ clock \in Int /\ jumped \in Nat
             /\ late \in 0 .. MaxLate /\ wakeups \in 0 .. MaxWakeups
             /\ pc \in Busy \cup {"waiting", "over"}
             /\ stop \in BOOLEAN /\ due \in BOOLEAN
             /\ deadline \in Int /\ recompute \in BOOLEAN /\ waits \in Nat
             /\ reading \in Samples
             /\ data \in [0 .. MaxSamples - 1 -> Samples]
             /\ size \in 0 .. MaxSamples
             /\ ringLock \in {"nobody", "sampler"}
             /\ rd \in {"idle", "tested"}
             /\ told \in Rates \cup {NoRate}

\* A rate is the change over n periods, divided by their length.  The samples it
\* is computed from are indeed n waits of one period apart, except for what the
\* thread was late, the clock was set by, and one period for each wait that
\* ended early; and lateness does not add up, however many samples were late.
RateIsPerPeriod ==
  told # NoRate =>
    LET off == told.to - told.from - Periods(told.waits)
    IN  /\ told.n <= told.waits /\ told.waits <= told.n + wakeups
        /\ off <= MaxLate + jumped /\ -off <= MaxLate + jumped

\* While the thread lives a rate goes up to a sample of the last period.
RateIsRecent ==
  told # NoRate /\ pc # "over" =>
    told.at - told.to <= Periods(1 + wakeups) + MaxLate + jumped

-----------------------------------------------------------------------------
(* What makes the two hold.                                                *)

\* The wall clock when the thread slept first, and twice what the clock was set by
\* forth and back since the thread began.
Base == deadline - Periods(waits)
Forth == jumped + clock - elapsed
Back == jumped - clock + elapsed

ClockKnown == Forth >= 0 /\ Back >= 0

\* A sample was made when the deadline after its waits had come, and not long after.
InTime(s) == LET off == 2 * (s.time - Periods(s.waits) - Base)
             IN  -Forth <= off /\ off <= Back + 2 * MaxLate

HasReading == {"add", "pop", "move", "store"}

\* How the thread's variables go with where it is: a thread that is behind its
\* deadline has been ready for as long, and one that is to sample is not ahead.
ThreadKnown ==
  /\ pc = "begin" => waits = 0 /\ size = 0
  /\ recompute <=> pc # "begin"
  /\ pc \in HasReading \cup {"begin", "sample"} => due
  /\ pc \in {"wait", "waiting"} => ~due
  /\ stop => pc \in {"begin", "test", "over"}
  /\ pc \notin {"begin", "over"} => 2 * (elapsed - deadline) <= Back + 2 * late
  /\ pc \in {"test", "sample"} /\ due => -Forth <= 2 * (elapsed - deadline)
  /\ pc \in HasReading => reading \in Readings /\ reading.waits = waits /\ InTime(reading)

\* The sample with j newer ones.
Sample(j) == data[IF pc = "store" THEN j + 1 ELSE j]
InRing == 0 .. size - 1

\* Whether the wait that brings the next sample has been called.
Awaited == IF pc = "wait" \/ (pc = "test" /\ ~due /\ ~stop) THEN 0 ELSE 1

\* The lock of the ring, and what a request that has tested the size relies on.
RingKnown ==
  /\ ringLock = "sampler" <=> pc \in {"pop", "move", "store"}
  /\ pc = "pop" => size = MaxSamples
  /\ pc \in {"move", "store"} => size < MaxSamples
  /\ rd = "tested" => size >= 1 /\ (pc \notin {"move", "store"} => size >= 2)

\* One wait for each sample, and one for each that ended early.
SamplesKnown ==
  \A j \in InRing :
    /\ Sample(j) \in Readings /\ InTime(Sample(j))
    /\ waits - Sample(j).waits \in j + Awaited .. j + Awaited + wakeups
    /\ Sample(0).waits - Sample(j).waits <= j + wakeups
    /\ \A i \in 0 .. j : Sample(i).waits - Sample(j).waits >= j - i

\* The inductive invariant.
MemInv == /\ MemTypeOK /\ ClockKnown /\ ThreadKnown /\ RingKnown /\ SamplesKnown
          /\ RateIsPerPeriod /\ RateIsRecent
=============================================================================
