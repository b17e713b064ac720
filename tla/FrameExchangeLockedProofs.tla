---------------------- MODULE FrameExchangeLockedProofs ----------------------
(***************************************************************************)
(* Proofs about the futex mutex, for every set of threads, and about the   *)
(* triple buffer under it, for every number of slots from three on and     *)
(* every number of frames: the mutex makes the functions of                *)
(* frame_exchange.h atomic. Progress is a liveness property and stays with *)
(* TLC.                                                                    *)
(***************************************************************************)
EXTENDS FrameExchangeLocked, TLAPS

-----------------------------------------------------------------------------
(* The futex mutex *)

\* Every step keeps the types.
LEMMA NextTypeOK == TypeOK /\ [Next]_vars => TypeOK'
  BY DEF TypeOK, Next, vars, Want, Step, Exchange, FutexWait, Interrupted, Store,
         FutexWake, Asleep, Steps

\* Type correctness.
THEOREM TypeCorrect == Spec => []TypeOK
<1>1. Init => TypeOK
  BY DEF Init, TypeOK, Steps
<1> QED BY <1>1, NextTypeOK, PTL DEF Spec

-----------------------------------------------------------------------------
IInv == TypeOK /\ MutualExclusion

\* MutualExclusion is inductive: the exchange lets a thread in only on a 0.
LEMMA NextMutualExclusion == IInv /\ [Next]_vars => MutualExclusion'
<1> SUFFICES ASSUME IInv, [Next]_vars
             PROVE  MutualExclusion'
  OBVIOUS
<1> USE DEF IInv, TypeOK, MutualExclusion
<1>1. ASSUME NEW t \in Threads, Want(t)
      PROVE  MutualExclusion'
  BY <1>1 DEF Want
<1>2. ASSUME NEW t \in Threads, Exchange(t)
      PROVE  MutualExclusion'
  BY <1>2 DEF Exchange
<1>3. ASSUME NEW t \in Threads, FutexWait(t)
      PROVE  MutualExclusion'
  BY <1>3 DEF FutexWait
<1>4. ASSUME NEW t \in Threads, Interrupted(t)
      PROVE  MutualExclusion'
  BY <1>4 DEF Interrupted
<1>5. ASSUME NEW t \in Threads, Store(t)
      PROVE  MutualExclusion'
  BY <1>5 DEF Store
<1>6. ASSUME NEW t \in Threads, FutexWake(t)
      PROVE  MutualExclusion'
  <2>1. \A u \in Threads : pc'[u] = "inside" <=> pc[u] = "inside"
    BY <1>6 DEF FutexWake, Asleep
  <2>2. state' = state
    BY <1>6 DEF FutexWake
  <2> QED BY <2>1, <2>2
<1>7. CASE UNCHANGED vars
  BY <1>7 DEF vars
<1> QED BY <1>1, <1>2, <1>3, <1>4, <1>5, <1>6, <1>7 DEF Next, Step

(***************************************************************************)
(* No two threads are inside the mutex at once, and its word is 1 exactly  *)
(* while one is.                                                           *)
(***************************************************************************)
THEOREM Exclusion == Spec => []MutualExclusion
<1>1. Init => MutualExclusion
  BY DEF Init, MutualExclusion
<1> QED BY <1>1, NextMutualExclusion, TypeCorrect, PTL DEF Spec, IInv

-----------------------------------------------------------------------------
(***************************************************************************)
(* No wake-up is lost. A thread falls asleep only on a 1, and then a       *)
(* thread is inside; the last one to leave still has its wake to do.       *)
(***************************************************************************)
LEMMA NextSleeperHasWaker ==
  IInv /\ SleeperHasWaker /\ [Next]_vars => SleeperHasWaker'
<1> DEFINE Active(u) == pc[u] \in {"inside", "wake", "exchange", "call"}
<1> SUFFICES ASSUME IInv, SleeperHasWaker, [Next]_vars, Asleep' # {}
             PROVE  \E u \in Threads : Active(u)'
  BY DEF SleeperHasWaker
<1> USE DEF IInv, TypeOK, MutualExclusion, SleeperHasWaker, Asleep
<1>1. ASSUME NEW t \in Threads, Want(t)
      PROVE  Active(t)'
  BY <1>1 DEF Want
<1>2. ASSUME NEW t \in Threads, Exchange(t)
      PROVE  Active(t)'
  BY <1>2 DEF Exchange
<1>3. ASSUME NEW t \in Threads, FutexWait(t)
      PROVE  \E u \in Threads : Active(u)'
  <2>1. CASE state = 1
    <3>1. PICK u \in Threads : pc[u] = "inside"
      BY <2>1
    <3>2. Active(u)'
      BY <1>3, <3>1 DEF FutexWait
    <3> QED BY <3>2
  <2>2. CASE state # 1
    BY <1>3, <2>2 DEF FutexWait
  <2> QED BY <2>1, <2>2
<1>4. ASSUME NEW t \in Threads, Interrupted(t)
      PROVE  Active(t)'
  BY <1>4 DEF Interrupted
<1>5. ASSUME NEW t \in Threads, Store(t)
      PROVE  Active(t)'
  BY <1>5 DEF Store
<1>6. ASSUME NEW t \in Threads, FutexWake(t)
      PROVE  \E u \in Threads : Active(u)'
  <2>1. Asleep # {}
    BY <1>6 DEF FutexWake
  <2>2. PICK s \in Asleep : pc' = [pc EXCEPT ![t] = "out", ![s] = "exchange"]
    BY <1>6, <2>1 DEF FutexWake
  <2>3. Active(s)'
    BY <2>2
  <2> QED BY <2>2, <2>3
<1>7. CASE UNCHANGED vars
  BY <1>7 DEF vars
<1> QED BY <1>1, <1>2, <1>3, <1>4, <1>5, <1>6, <1>7 DEF Next, Step

\* "this is no-lost-wakeup guarantee" (nl_thread.h:34), for the mutex.
THEOREM NoLostWakeup == Spec => []SleeperHasWaker
<1>1. Init => SleeperHasWaker
  BY DEF Init, SleeperHasWaker, Asleep
<1> QED BY <1>1, NextSleeperHasWaker, TypeCorrect, Exclusion, PTL DEF Spec, IInv

\* One thread at a time has the mutex, and no sleeper is left alone.
THEOREM MutexIsSafe == Spec => []MutexSafe
<1>1. MutualExclusion /\ SleeperHasWaker => MutexSafe
  BY DEF MutexSafe
<1> QED BY <1>1, Exclusion, NoLostWakeup, PTL

-----------------------------------------------------------------------------
(* The mutex *)

\* The two threads use the mutex as NlMutex describes it.
LEMMA MutexUsed == [LockedNext]_lockedVars => [Next]_vars
<1> SUFFICES ASSUME LockedNext
             PROVE  [Next]_vars
  BY DEF lockedVars, vars
<1> USE LockedAssumption DEF Next, Step, vars, mutex
<1>1. CASE \E t \in Threads : Call(t) \/ MutexStep(t) \/ Signal(t)
  BY <1>1 DEF Call, MutexStep, Signal, Wait
<1>2. CASE ProducerLocks
  BY <1>2 DEF ProducerLocks, BeginLock, PublishLock, AbortLock, Lock
<1>3. CASE ProducerSection
  BY <1>3 DEF ProducerSection, ScanNext, ScanDone, BeginUnlock, PublishDrop, PublishReady,
              PublishWriting, PublishCount, AbortWriting, WriteUnlock, Unlock
<1>4. CASE FillStart \/ FillEnd
  BY <1>4 DEF FillStart, FillEnd
<1>5. CASE AcquireLock \/ ConsumerSection
  BY <1>5 DEF AcquireLock, Lock, Unlock, ConsumerSection, AcquireLook, AcquireReading,
              AcquireReady, AcquireUnlock
<1> QED BY <1>1, <1>2, <1>3, <1>4, <1>5 DEF LockedNext

MInv == IInv /\ SleeperHasWaker

\* What has been shown of a step of the mutex.
LEMMA NextMInv == MInv /\ [LockedNext]_lockedVars => MInv'
  BY MutexUsed, NextTypeOK, NextMutualExclusion, NextSleeperHasWaker DEF MInv, IInv

LEMMA MutexInvariance == LockedSpec => []MInv
<1>1. LockedInit => MInv
  BY DEF LockedInit, Init, MInv, IInv, TypeOK, Steps, MutualExclusion, SleeperHasWaker, Asleep
<1> QED BY <1>1, NextMInv, PTL DEF LockedSpec

\* The mutex of the frame exchange excludes, and loses no wake-up.
THEOREM ExchangeMutexIsSafe == LockedSpec => []MutexSafe
<1>1. MInv => MutexSafe
  BY DEF MInv, IInv, MutexSafe
<1> QED BY <1>1, MutexInvariance, PTL

-----------------------------------------------------------------------------
(* The discipline *)

ProducerAt == {"idle", "scan", "begun", "fill", "torn", "full", "drop", "offer",
               "release", "count", "abort", "leave"}
ConsumerAt == {"idle", "look", "take", "clear", "leave"}

\* Each thread is inside exactly while it is between lock and unlock.
Inside == /\ ppc \in ProducerAt /\ cpc \in ConsumerAt
          /\ pc[CaptureThread] = "inside" <=> ProducerInside
          /\ pc[RenderLoop] = "inside" <=> ConsumerInside

LEMMA NextInside == IInv /\ Inside /\ [LockedNext]_lockedVars => Inside'
<1> SUFFICES ASSUME IInv, Inside, [LockedNext]_lockedVars
             PROVE  Inside'
  OBVIOUS
<1>0. /\ CaptureThread \in Threads /\ RenderLoop \in Threads
      /\ CaptureThread # RenderLoop
      /\ \A t \in Threads : t = CaptureThread \/ t = RenderLoop
      /\ pc \in [Threads -> Steps]
  BY LockedAssumption DEF IInv, TypeOK
<1> USE DEF Inside, ProducerInside, ConsumerInside, ProducerAt, ConsumerAt
<1>1. ASSUME NEW t \in Threads, Call(t) \/ MutexStep(t) \/ Signal(t)
      PROVE  Inside'
  <2>1. \A u \in Threads : pc'[u] = "inside" <=> pc[u] = "inside"
    BY <1>0, <1>1 DEF Call, MutexStep, Signal, Want, Wait, Exchange, FutexWait,
                      Interrupted, FutexWake, Asleep
  <2>2. UNCHANGED <<ppc, cpc>>
    BY <1>1 DEF Call, MutexStep, Signal, producer, consumer
  <2> QED BY <1>0, <2>1, <2>2
<1>2. CASE ProducerLocks
  BY <1>0, <1>2 DEF ProducerLocks, BeginLock, PublishLock, AbortLock, Lock, Exchange, consumer
<1>3. CASE BeginUnlock \/ WriteUnlock
  BY <1>0, <1>3 DEF BeginUnlock, WriteUnlock, Unlock, Store, consumer
<1>4. CASE \/ ScanNext \/ ScanDone \/ PublishDrop \/ PublishReady
           \/ PublishWriting \/ PublishCount \/ AbortWriting
  BY <1>4 DEF ScanNext, ScanDone, PublishDrop, PublishReady, PublishWriting, PublishCount,
              AbortWriting, mutex, consumer
<1>5. CASE FillStart \/ FillEnd
  BY <1>5 DEF FillStart, FillEnd, mutex, consumer
<1>6. CASE AcquireLock
  BY <1>0, <1>6 DEF AcquireLock, Lock, Exchange, producer
<1>7. CASE AcquireUnlock
  BY <1>0, <1>7 DEF AcquireUnlock, Unlock, Store, producer
<1>8. CASE AcquireLook \/ AcquireReading \/ AcquireReady
  BY <1>8 DEF AcquireLook, AcquireReading, AcquireReady, mutex, producer
<1>9. CASE UNCHANGED lockedVars
  BY <1>9 DEF lockedVars
<1> QED BY <1>1, <1>2, <1>3, <1>4, <1>5, <1>6, <1>7, <1>8, <1>9
        DEF LockedNext, ProducerSection, ConsumerSection

\* The two threads are never between lock and unlock together.
LEMMA Apart == ASSUME IInv, Inside PROVE ~(ProducerInside /\ ConsumerInside)
  BY LockedAssumption DEF IInv, MutualExclusion, Inside

-----------------------------------------------------------------------------
(* The fields *)

Filling == {"begun", "fill", "torn", "full", "drop", "offer", "release", "abort"}

\* What each step of the producer has already done to the fields; the slots it
\* has passed in its scan have a role, and keep it while the mutex is held.
Producing ==
  /\ ppc = "scan" => /\ produced < MaxFrames
                     /\ idx \in 0 .. 2
                     /\ \A j \in 0 .. idx - 1 : j \in {ready, reading}
  /\ writing = IF ppc \in Filling THEN idx ELSE None
  /\ ppc \in {"begun", "fill"} => content[idx] # produced
  /\ ppc = "torn" => content[idx] = Torn
  /\ ppc \in {"full", "drop", "offer"} => content[idx] = produced
  /\ \A s \in Slots : content[s] <= produced

\* What each step of the consumer has.
Consuming ==
  /\ cpc = "take" => got = ready /\ ready # None
  /\ cpc = "clear" => got = reading

LInv == IInv /\ Inside /\ LockedTypeOK /\ Producing /\ Consuming

LEMMA InitLInv == LockedInit => LInv
  BY LockedAssumption
  DEF LockedInit, Init, LInv, IInv, TypeOK, Steps, MutualExclusion, Inside, ProducerAt,
      ConsumerAt, ProducerInside, ConsumerInside, LockedTypeOK, Producing, Consuming,
      Filling, Slots, None, Torn

\* Steps of the mutex leave the fields alone.
LEMMA MutexLInv ==
  ASSUME LInv, NEW t \in Threads, Call(t) \/ MutexStep(t) \/ Signal(t)
  PROVE  (LockedTypeOK /\ Producing /\ Consuming)'
<1>1. UNCHANGED <<fields, pixels, producer, consumer>>
  BY DEF Call, MutexStep, Signal
<1> QED BY <1>1 DEF LInv, LockedTypeOK, Producing, Consuming, fields, pixels, producer,
                    consumer

LEMMA LocksLInv ==
  ASSUME LInv, ProducerLocks
  PROVE  (LockedTypeOK /\ Producing /\ Consuming)'
<1> USE LockedAssumption DEF LInv, LockedTypeOK, Producing, Consuming, Filling, Slots,
        None, Torn, fields, pixels, consumer
<1>1. CASE BeginLock
  BY <1>1 DEF BeginLock
<1>2. CASE PublishLock
  BY <1>2 DEF PublishLock
<1>3. CASE AbortLock
  BY <1>3 DEF AbortLock
<1> QED BY <1>1, <1>2, <1>3 DEF ProducerLocks

\* The scan passes two slots at most: no more have a role.
LEMMA ScanLInv ==
  ASSUME LInv, ScanNext \/ ScanDone \/ BeginUnlock
  PROVE  (LockedTypeOK /\ Producing /\ Consuming)'
<1> USE LockedAssumption DEF LInv, LockedTypeOK, Producing, Consuming, Filling, Slots,
        None, Torn, fields, pixels, consumer, mutex
<1>1. CASE ScanNext
  <2>1. idx \in 0 .. 2 /\ \A j \in 0 .. idx : j \in {ready, reading}
    <3>1. idx \in 0 .. 2 /\ \A j \in 0 .. idx - 1 : j \in {ready, reading}
      BY <1>1 DEF ScanNext
    <3>2. idx \in {ready, reading}
      BY <1>1 DEF ScanNext
    <3> HIDE DEF LInv, LockedTypeOK, Producing, Consuming
    <3>3. \A j \in 0 .. idx : j = idx \/ j \in 0 .. idx - 1
      BY <3>1
    <3> QED BY <3>1, <3>2, <3>3
  <2>2. idx < 2
    <3>1. SUFFICES ASSUME idx = 2 PROVE FALSE
      BY <2>1
    <3>2. 0 \in {ready, reading} /\ 1 \in {ready, reading} /\ 2 \in {ready, reading}
      BY <2>1, <3>1
    <3> QED BY <3>2
  <2>3. idx' \in 0 .. 2 /\ \A j \in 0 .. idx' - 1 : j \in {ready, reading}
    BY <1>1, <2>1, <2>2 DEF ScanNext
  <2>4. UNCHANGED <<ready, reading, writing, published, dropped, content, produced, ppc, cpc, got>>
    BY <1>1 DEF ScanNext
  <2>5. ppc = "scan"
    BY <1>1 DEF ScanNext
  <2>6. LockedTypeOK' /\ Consuming'
    BY <2>3, <2>4
  <2>7. Producing'
    BY <2>3, <2>4, <2>5
  <2> QED BY <2>6, <2>7
<1>2. CASE ScanDone
  <2>1. idx \in Slots /\ content[idx] # produced'
    BY <1>2 DEF ScanDone
  <2>2. produced' \in 0 .. MaxFrames
    BY <1>2 DEF ScanDone
  <2>3. \A s \in Slots : content[s] <= produced'
    BY <1>2 DEF ScanDone
  <2> QED BY <1>2, <2>1, <2>2, <2>3 DEF ScanDone
<1>3. CASE BeginUnlock
  BY <1>3 DEF BeginUnlock
<1> QED BY <1>1, <1>2, <1>3

LEMMA FillLInv ==
  ASSUME LInv, FillStart \/ FillEnd
  PROVE  (LockedTypeOK /\ Producing /\ Consuming)'
<1> USE DEF LInv, LockedTypeOK, Producing, Consuming, Filling, fields, consumer, mutex
<1>1. PICK v \in {Torn, produced} :
        /\ content' = [content EXCEPT ![idx] = v]
        /\ \/ ppc = "fill" /\ ppc' = "torn" /\ v = Torn
           \/ ppc = "torn" /\ ppc' = "full" /\ v = produced
        /\ UNCHANGED <<fields, produced, idx, cpc, got>>
  <2>1. CASE FillStart
    BY <2>1 DEF FillStart
  <2>2. CASE FillEnd
    BY <2>2 DEF FillEnd
  <2> QED BY <2>1, <2>2
<1>2. v \in 0 .. MaxFrames \cup {Torn} /\ v <= produced /\ -1 <= produced
  BY LockedAssumption DEF Torn
<1>3. \A s \in Slots : content'[s] = IF s = idx THEN v ELSE content[s]
  BY <1>1
<1>4. LockedTypeOK' /\ Consuming'
  BY <1>1, <1>2
<1>5. Producing'
  BY <1>1, <1>2, <1>3
<1> QED BY <1>4, <1>5

\* The consumer is not between its lock and its unlock.
LEMMA WriteLInv ==
  ASSUME LInv, \/ PublishDrop \/ PublishReady \/ PublishWriting \/ PublishCount
               \/ AbortWriting \/ WriteUnlock
  PROVE  (LockedTypeOK /\ Producing /\ Consuming)'
<1>1. ~ConsumerInside
  BY Apart DEF LInv, ProducerInside, PublishDrop, PublishReady, PublishWriting,
               PublishCount, AbortWriting, WriteUnlock
<1>2. cpc \notin {"take", "clear"}
  BY <1>1 DEF ConsumerInside
<1> USE <1>2 DEF LInv, LockedTypeOK, Producing, Consuming, Filling, None, fields, pixels,
        consumer, mutex
<1>3. CASE PublishDrop
  BY <1>3 DEF PublishDrop
<1>4. CASE PublishReady
  BY <1>4 DEF PublishReady
<1>5. CASE PublishWriting
  BY <1>5 DEF PublishWriting
<1>6. CASE PublishCount
  BY <1>6 DEF PublishCount
<1>7. CASE AbortWriting
  BY <1>7 DEF AbortWriting
<1>8. CASE WriteUnlock
  BY <1>8 DEF WriteUnlock
<1> QED BY <1>3, <1>4, <1>5, <1>6, <1>7, <1>8

\* The producer is not between its lock and its unlock.
LEMMA AcquireLInv ==
  ASSUME LInv, AcquireLock \/ ConsumerSection
  PROVE  (LockedTypeOK /\ Producing /\ Consuming)'
<1> USE DEF LInv, LockedTypeOK, Producing, Consuming, Slots, None, fields, pixels,
            producer, mutex
<1>1. CASE AcquireLock
  BY <1>1 DEF AcquireLock
<1>2. CASE ConsumerSection
  <2>1. ~ProducerInside
    BY <1>2, Apart DEF ConsumerInside, ConsumerSection, AcquireLook, AcquireReading,
                       AcquireReady, AcquireUnlock
  <2>2. ppc # "scan"
    BY <2>1 DEF ProducerInside
  <2>3. CASE AcquireLook
    <3>1. ready >= 0 <=> ready # None
      BY LockedAssumption
    <3> QED BY <2>3, <3>1 DEF AcquireLook
  <2>4. CASE AcquireReading
    BY <2>2, <2>4 DEF AcquireReading
  <2>5. CASE AcquireReady
    BY <2>2, <2>5 DEF AcquireReady
  <2>6. CASE AcquireUnlock
    BY <2>6 DEF AcquireUnlock
  <2> QED BY <1>2, <2>3, <2>4, <2>5, <2>6 DEF ConsumerSection
<1> QED BY <1>1, <1>2

LEMMA NextLInv == LInv /\ [LockedNext]_lockedVars => LInv'
<1> SUFFICES ASSUME LInv, [LockedNext]_lockedVars
             PROVE  LInv'
  OBVIOUS
<1>1. IInv' /\ Inside'
  BY MutexUsed, NextTypeOK, NextMutualExclusion, NextInside DEF LInv, IInv
<1>2. CASE UNCHANGED lockedVars
  BY <1>2 DEF lockedVars, LInv, IInv, TypeOK, MutualExclusion, Inside, ProducerInside,
              ConsumerInside, LockedTypeOK, Producing, Consuming
<1>3. CASE LockedNext
  BY <1>1, <1>3, MutexLInv, LocksLInv, ScanLInv, FillLInv, WriteLInv, AcquireLInv
  DEF LInv, LockedNext, ProducerSection
<1> QED BY <1>2, <1>3

LEMMA LockedInvariance == LockedSpec => []LInv
  BY InitLInv, NextLInv, PTL DEF LockedSpec

(***************************************************************************)
(* The types, the scan's index among them, and the discipline of the lock: *)
(* fields are only touched under the mutex.                                *)
(***************************************************************************)
THEOREM LockedIsSound == LockedSpec => []LockedSound
<1>1. LInv => LockedSound
  BY Apart DEF LInv, IInv, Inside, LockedSound, LockDiscipline
<1> QED BY <1>1, LockedInvariance, PTL

-----------------------------------------------------------------------------
(* The refinement *)

\* While the scan runs nobody but the scanner changes the roles, so where it
\* stops is the slot FrameExchange chooses.
LEMMA ScanFindsFirstFree ==
  ASSUME LInv, ppc = "scan", idx # ready, idx # reading, cpc # "clear"
  PROVE  Sections!FirstFree = idx
<1> DEFINE P(i) == /\ i \notin {ready, reading}
                   /\ \A j \in 0 .. i - 1 : j \in {ready, reading}
<1>1. idx \in 0 .. 2 /\ P(idx)
  BY DEF LInv, Producing
<1>2. ASSUME NEW i \in 0 .. 2, P(i)
      PROVE  i = idx
  <2>1. ~(i < idx)
    <3>1. SUFFICES ASSUME i < idx PROVE FALSE
      OBVIOUS
    <3>2. i \in 0 .. idx - 1
      BY <1>1, <3>1
    <3> QED BY <1>1, <1>2, <3>2
  <2>2. ~(idx < i)
    <3>1. SUFFICES ASSUME idx < i PROVE FALSE
      OBVIOUS
    <3>2. idx \in 0 .. i - 1
      BY <1>1, <3>1
    <3> QED BY <1>1, <1>2, <3>2
  <2> QED BY <1>1, <2>1, <2>2
<1>3. Sections!FirstFree = CHOOSE i \in 0 .. 2 : P(i)
  BY DEF Sections!FirstFree
<1>4. P(CHOOSE i \in 0 .. 2 : P(i)) /\ (CHOOSE i \in 0 .. 2 : P(i)) \in 0 .. 2
  BY <1>1
<1> HIDE DEF P
<1> QED BY <1>2, <1>3, <1>4

\* The constants of the two modules.
LEMMA SectionsNames == Sections!None = None /\ Sections!Torn = Torn /\ Sections!Slots = Slots
  BY DEF Sections!None, Sections!Torn, Sections!Slots, None, Torn, Slots

LEMMA ProducerRefines ==
  ASSUME LInv, ProducerSection
  PROVE  [Sections!Next]_(Sections!vars)
<1>1. cpc # "clear" /\ cpc' # "clear"
  BY Apart DEF LInv, ProducerInside, ConsumerInside, ProducerSection, ScanNext, ScanDone,
     BeginUnlock, PublishDrop, PublishReady, PublishWriting, PublishCount, AbortWriting,
     WriteUnlock, consumer
<1> USE <1>1, SectionsNames DEF Sections!vars, mutex, fields, pixels, consumer
<1>2. CASE ScanNext
  BY <1>2 DEF ScanNext
<1>3. CASE ScanDone
  <2>1. Sections!FirstFree = idx
    BY <1>3, ScanFindsFirstFree DEF ScanDone
  <2>2. Sections!Begin
    BY <1>3, <2>1 DEF ScanDone, LInv, Producing, Filling, Sections!Begin,
                      Sections!fx_write_begin
  <2> QED BY <2>2 DEF Sections!Next, Sections!Producer
<1>4. CASE BeginUnlock \/ WriteUnlock
  BY <1>4 DEF BeginUnlock, WriteUnlock
<1>5. CASE PublishDrop
  BY <1>5 DEF PublishDrop, LInv, LockedTypeOK
<1>6. CASE PublishReady
  <2>1. writing = idx /\ idx # None /\ content[idx] = produced
    BY <1>6, LockedAssumption
    DEF PublishReady, LInv, LockedTypeOK, Producing, Filling, None, Slots
  <2>2. Sections!Publish
    BY <1>6, <2>1 DEF PublishReady, LInv, LockedTypeOK, Sections!Publish,
                      Sections!fx_write_publish
  <2> QED BY <2>2 DEF Sections!Next, Sections!Producer
<1>7. CASE PublishWriting
  BY <1>7 DEF PublishWriting, None
<1>8. CASE PublishCount
  BY <1>8 DEF PublishCount
<1>9. CASE AbortWriting
  <2>1. writing # None
    BY <1>9, LockedAssumption
    DEF AbortWriting, LInv, LockedTypeOK, Producing, Filling, None, Slots
  <2>2. Sections!Abort
    BY <1>9, <2>1 DEF AbortWriting, Sections!Abort, Sections!fx_write_abort
  <2> QED BY <2>2 DEF Sections!Next, Sections!Producer
<1> QED BY <1>2, <1>3, <1>4, <1>5, <1>6, <1>7, <1>8, <1>9 DEF ProducerSection

LEMMA ConsumerRefines ==
  ASSUME LInv, ConsumerSection
  PROVE  [Sections!Next]_(Sections!vars)
<1>1. ppc \notin {"offer", "release", "count"} /\ ppc' = ppc
  BY Apart DEF LInv, ProducerInside, ConsumerInside, ConsumerSection, AcquireLook,
     AcquireReading, AcquireReady, AcquireUnlock, producer
<1> USE <1>1, SectionsNames DEF Sections!vars, mutex, fields, pixels, producer
<1>2. CASE AcquireLook
  BY <1>2 DEF AcquireLook
<1>3. CASE AcquireReading
  <2>1. got = ready /\ ready \in Slots /\ ready >= 0
    BY <1>3, LockedAssumption DEF AcquireReading, LInv, LockedTypeOK, Consuming, Slots, None
  <2>2. Sections!fx_read_acquire(ready)
    BY <1>3, <2>1 DEF AcquireReading, Sections!fx_read_acquire
  <2>3. Sections!Acquire
    BY <1>3, <2>1, <2>2 DEF AcquireReading, Sections!Acquire
  <2> QED BY <2>3 DEF Sections!Next
<1>4. CASE AcquireReady
  BY <1>4 DEF AcquireReady
<1>5. CASE AcquireUnlock
  BY <1>5 DEF AcquireUnlock
<1> QED BY <1>2, <1>3, <1>4, <1>5 DEF ConsumerSection

\* The copy; over a torn slot its first byte changes nothing.
LEMMA FillRefines ==
  ASSUME LInv, FillStart \/ FillEnd
  PROVE  [Sections!Next]_(Sections!vars)
<1> USE SectionsNames DEF Sections!vars, mutex, fields, consumer
<1>1. writing = idx /\ idx \in Slots /\ idx # None
  BY LockedAssumption DEF FillStart, FillEnd, LInv, LockedTypeOK, Producing, Filling,
                          None, Slots
<1>2. CASE FillStart
  <2>1. CASE content[idx] = Torn
    <3>1. content' = content
      BY <1>2, <2>1, <1>1 DEF FillStart, LInv, LockedTypeOK
    <3> QED BY <1>2, <3>1 DEF FillStart
  <2>2. CASE content[idx] # Torn
    <3>1. Sections!StartFill
      BY <1>1, <1>2, <2>2 DEF FillStart, LInv, Producing, Sections!StartFill,
                              Sections!FillStart
    <3> QED BY <3>1 DEF Sections!Next, Sections!Producer
  <2> QED BY <2>1, <2>2
<1>3. CASE FillEnd
  <2>1. Sections!EndFill
    BY <1>1, <1>3 DEF FillEnd, LInv, Producing, Sections!EndFill, Sections!FillEnd
  <2> QED BY <2>1 DEF Sections!Next, Sections!Producer
<1> QED BY <1>2, <1>3

(***************************************************************************)
(* The critical sections of frame_exchange.h are atomic: with the futex    *)
(* mutex, its sleeps and its wake-ups, the two threads implement           *)
(* FrameExchange, so what is proved there holds at this granularity.       *)
(***************************************************************************)
THEOREM CriticalSectionsAreAtomic == LockedSpec => SectionsAreAtomic
<1>1. LockedInit => Sections!Init
  BY SectionsNames DEF LockedInit, Sections!Init, Sections!fx_init, Sections!Blank
<1>2. LInv /\ [LockedNext]_lockedVars => [Sections!Next]_(Sections!vars)
  <2> SUFFICES ASSUME LInv, [LockedNext]_lockedVars
               PROVE  [Sections!Next]_(Sections!vars)
    OBVIOUS
  <2>1. CASE \E t \in Threads : Call(t) \/ MutexStep(t) \/ Signal(t)
    BY <2>1 DEF Call, MutexStep, Signal, fields, pixels, producer, consumer, Sections!vars
  <2>2. CASE ProducerLocks
    BY <2>2 DEF ProducerLocks, BeginLock, PublishLock, AbortLock, fields, pixels,
                consumer, Sections!vars
  <2>3. CASE AcquireLock
    BY <2>3 DEF AcquireLock, fields, pixels, producer, Sections!vars
  <2>4. CASE UNCHANGED lockedVars
    BY <2>4 DEF lockedVars, Sections!vars
  <2> QED BY <2>1, <2>2, <2>3, <2>4, ProducerRefines, ConsumerRefines, FillRefines
          DEF LockedNext
<1> QED BY <1>1, <1>2, LockedInvariance, PTL
        DEF LockedSpec, SectionsAreAtomic, Sections!Spec
==============================================================================
