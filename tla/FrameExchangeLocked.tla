------------------------- MODULE FrameExchangeLocked -------------------------
(***************************************************************************)
(* include/frame_exchange.h once more, one shared access per step: every   *)
(* function takes the mutex, reads and writes the fields one by one in the *)
(* order of the code, and releases the mutex. FrameExchange, where each    *)
(* function is one step, is what this module implements; without the mutex *)
(* it would not (the consumer could mark a slot the producer is scanning). *)
(*                                                                         *)
(* The mutex is that of NlMutex, its futex word and sleeps included, used  *)
(* by two threads, CaptureThread and RenderLoop. A function begins with    *)
(* the exchange that finds the word 0 and ends with the store of 0; the    *)
(* wake-up call follows.                                                   *)
(***************************************************************************)
EXTENDS NlMutex, Integers

CONSTANTS FX_SLOTS, MaxFrames, CaptureThread, RenderLoop

ASSUME LockedAssumption == /\ FX_SLOTS \in Nat /\ FX_SLOTS >= 3
                           /\ MaxFrames \in Nat
                           /\ CaptureThread # RenderLoop
                           /\ Threads = {CaptureThread, RenderLoop}

VARIABLES
  ready, reading, writing, published, dropped,    \* the fields of frame_exchange_t
  content, produced,                              \* as in FrameExchange
  ppc, idx,                                       \* producer: next step, scan index
  cpc, got                                        \* consumer: next step, slot read

fields == <<ready, reading, writing, published, dropped>>
pixels == <<content, produced>>
producer == <<ppc, idx>>
consumer == <<cpc, got>>
mutex == <<state, pc>>
lockedVars == <<state, pc, ready, reading, writing, published, dropped, content,
                produced, ppc, idx, cpc, got>>

None == -1
Torn == -1
Slots == 0 .. FX_SLOTS - 1

LockedInit ==
  /\ Init
  /\ ready = None /\ reading = None /\ writing = None
  /\ published = 0 /\ dropped = 0
  /\ content = [s \in Slots |-> 0] /\ produced = 0
  /\ ppc = "idle" /\ idx = 0
  /\ cpc = "idle" /\ got = None

\* nl_mutex_lock: the exchange that finds the mutex free, and the steps of a
\* locker that found it held; nl_mutex_unlock: the store.
Lock(t)   == Exchange(t) /\ pc'[t] = "inside"
Unlock(t) == Store(t)
Wait(t)   == \/ Exchange(t) /\ pc'[t] # "inside"
             \/ FutexWait(t)

-----------------------------------------------------------------------------
\* Mutant: the scan starts at 1.
BeginLock_FromOne ==
  /\ ppc = "idle"
  /\ produced < MaxFrames
  /\ Lock(CaptureThread)
  /\ idx' = 1
  /\ ppc' = "scan"
  /\ UNCHANGED <<fields, pixels, consumer>>

\* fx_write_begin: idx = 0, then the while loop, then the assignment.
BeginLock ==
  /\ ppc = "idle"
  /\ produced < MaxFrames
  /\ Lock(CaptureThread)
  /\ idx' = 0
  /\ ppc' = "scan"
  /\ UNCHANGED <<fields, pixels, consumer>>

ScanNext ==
  /\ ppc = "scan"
  /\ idx = ready \/ idx = reading
  /\ idx' = idx + 1
  /\ UNCHANGED <<mutex, fields, pixels, ppc, consumer>>

ScanDone ==
  /\ ppc = "scan"
  /\ idx # ready /\ idx # reading
  /\ writing' = idx
  /\ produced' = produced + 1
  /\ ppc' = "begun"
  /\ UNCHANGED <<mutex, ready, reading, published, dropped, content, idx, consumer>>

BeginUnlock ==
  /\ ppc = "begun"
  /\ Unlock(CaptureThread)
  /\ ppc' = "fill"
  /\ UNCHANGED <<fields, pixels, idx, consumer>>

\* The copy into the slot the call returned (the local idx), outside the lock.
FillStart ==
  /\ ppc = "fill" /\ pc[CaptureThread] = "out"
  /\ content' = [content EXCEPT ![idx] = Torn]
  /\ ppc' = "torn"
  /\ UNCHANGED <<mutex, fields, produced, idx, consumer>>

FillEnd ==
  /\ ppc = "torn" /\ pc[CaptureThread] = "out"
  /\ content' = [content EXCEPT ![idx] = produced]
  /\ ppc' = "full"
  /\ UNCHANGED <<mutex, fields, produced, idx, consumer>>

-----------------------------------------------------------------------------
\* fx_write_publish
PublishLock ==
  /\ ppc = "full"
  /\ Lock(CaptureThread)
  /\ ppc' = "drop"
  /\ UNCHANGED <<fields, pixels, idx, consumer>>

PublishDrop ==
  /\ ppc = "drop"
  /\ dropped' = IF ready >= 0 THEN dropped + 1 ELSE dropped
  /\ ppc' = "offer"
  /\ UNCHANGED <<mutex, ready, reading, writing, published, pixels, idx, consumer>>

PublishReady ==
  /\ ppc = "offer"
  /\ ready' = writing
  /\ ppc' = "release"
  /\ UNCHANGED <<mutex, reading, writing, published, dropped, pixels, idx, consumer>>

PublishWriting ==
  /\ ppc = "release"
  /\ writing' = None
  /\ ppc' = "count"
  /\ UNCHANGED <<mutex, ready, reading, published, dropped, pixels, idx, consumer>>

PublishCount ==
  /\ ppc = "count"
  /\ published' = published + 1
  /\ ppc' = "leave"
  /\ UNCHANGED <<mutex, ready, reading, writing, dropped, pixels, idx, consumer>>

\* fx_write_abort: before, in the middle of, or after the copy.
AbortLock ==
  /\ ppc \in {"fill", "torn", "full"}
  /\ Lock(CaptureThread)
  /\ ppc' = "abort"
  /\ UNCHANGED <<fields, pixels, idx, consumer>>

AbortWriting ==
  /\ ppc = "abort"
  /\ writing' = None
  /\ ppc' = "leave"
  /\ UNCHANGED <<mutex, ready, reading, published, dropped, pixels, idx, consumer>>

WriteUnlock ==
  /\ ppc = "leave"
  /\ Unlock(CaptureThread)
  /\ ppc' = "idle"
  /\ UNCHANGED <<fields, pixels, idx, consumer>>

-----------------------------------------------------------------------------
\* Mutant: an acquire waits for the mutex but does not take it.
AcquireLock_NotTaken ==
  /\ cpc = "idle"
  /\ pc[RenderLoop] = "exchange" /\ state = 0
  /\ cpc' = "look"
  /\ UNCHANGED <<mutex, fields, pixels, producer, got>>

\* fx_read_acquire
AcquireLock ==
  /\ cpc = "idle"
  /\ Lock(RenderLoop)
  /\ cpc' = "look"
  /\ UNCHANGED <<fields, pixels, producer, got>>

AcquireLook ==
  /\ cpc = "look"
  /\ got' = ready
  /\ cpc' = IF ready >= 0 THEN "take" ELSE "leave"
  /\ UNCHANGED <<mutex, fields, pixels, producer>>

AcquireReading ==
  /\ cpc = "take"
  /\ reading' = got
  /\ cpc' = "clear"
  /\ UNCHANGED <<mutex, ready, writing, published, dropped, pixels, producer, got>>

AcquireReady ==
  /\ cpc = "clear"
  /\ ready' = None
  /\ cpc' = "leave"
  /\ UNCHANGED <<mutex, reading, writing, published, dropped, pixels, producer, got>>

AcquireUnlock ==
  /\ cpc = "leave"
  /\ Unlock(RenderLoop)
  /\ cpc' = "idle"
  /\ UNCHANGED <<fields, pixels, producer, got>>

-----------------------------------------------------------------------------
\* A thread calls one of the functions.
Call(t) ==
  /\ t = CaptureThread => \/ ppc \in {"fill", "torn", "full"}
                          \/ ppc = "idle" /\ produced < MaxFrames
  /\ Want(t)
  /\ UNCHANGED <<fields, pixels, producer, consumer>>

\* The rest of nl_mutex_lock and nl_mutex_unlock.
MutexStep(t) ==
  /\ Wait(t) \/ FutexWake(t)
  /\ UNCHANGED <<fields, pixels, producer, consumer>>

Signal(t) ==
  /\ Interrupted(t)
  /\ UNCHANGED <<fields, pixels, producer, consumer>>

\* Between the lock and the unlock of a function.
ProducerSection ==
  \/ ScanNext \/ ScanDone \/ BeginUnlock
  \/ PublishDrop \/ PublishReady \/ PublishWriting \/ PublishCount
  \/ AbortWriting \/ WriteUnlock

ConsumerSection ==
  AcquireLook \/ AcquireReading \/ AcquireReady \/ AcquireUnlock

ProducerLocks == BeginLock \/ PublishLock \/ AbortLock

LockedNext ==
  \/ \E t \in Threads : Call(t) \/ MutexStep(t) \/ Signal(t)
  \/ ProducerLocks \/ ProducerSection \/ FillStart \/ FillEnd
  \/ AcquireLock \/ ConsumerSection

(***************************************************************************)
(* As in NlMutex: the kernel runs the thread that is inside a function of  *)
(* the header, waiting for its mutex or waking. Nobody has to call one.    *)
(***************************************************************************)
LockedFairness ==
  /\ \A t \in Threads : WF_lockedVars(MutexStep(t))
  /\ WF_lockedVars(ProducerLocks) /\ WF_lockedVars(ProducerSection)
  /\ WF_lockedVars(AcquireLock) /\ WF_lockedVars(ConsumerSection)

LockedSpec == LockedInit /\ [][LockedNext]_lockedVars /\ LockedFairness

-----------------------------------------------------------------------------
ProducerInside == ppc \in {"scan", "begun", "drop", "offer", "release", "count",
                           "abort", "leave"}
ConsumerInside == cpc \in {"look", "take", "clear", "leave"}

\* The values the fields and the two threads' local variables can have.
LockedTypeOK ==
  /\ ready \in Slots \cup {None}
  /\ reading \in Slots \cup {None}
  /\ writing \in Slots \cup {None}
  /\ published \in Nat
  /\ dropped \in Nat
  /\ content \in [Slots -> 0 .. MaxFrames \cup {Torn}]
  /\ produced \in 0 .. MaxFrames
  /\ ppc \in {"idle", "scan", "begun", "fill", "torn", "full", "drop", "offer",
              "release", "count", "abort", "leave"}
  /\ idx \in Slots
  /\ cpc \in {"idle", "look", "take", "clear", "leave"}
  /\ got \in Slots \cup {None}

(***************************************************************************)
(* A field of the exchange is only touched by the thread that holds the    *)
(* mutex: each thread is between the lock and the unlock of a function     *)
(* exactly while NlMutex has it inside, so the two never are together.     *)
(***************************************************************************)
LockDiscipline ==
  /\ pc[CaptureThread] = "inside" <=> ProducerInside
  /\ pc[RenderLoop] = "inside" <=> ConsumerInside
  /\ ~(ProducerInside /\ ConsumerInside)

(***************************************************************************)
(* Each function takes effect at one of its writes: fx_write_publish when  *)
(* it sets `ready`, fx_read_acquire when it sets `reading`, the other two  *)
(* when they set `writing`. The fields that lag behind that write, or run  *)
(* ahead of it, are corrected here.                                        *)
(***************************************************************************)
Sections == INSTANCE FrameExchange WITH
  ready     <- IF cpc = "clear" THEN None ELSE ready,
  writing   <- IF ppc = "release" THEN None ELSE writing,
  published <- IF ppc \in {"release", "count"} THEN published + 1 ELSE published,
  dropped   <- IF ppc = "offer" /\ ready >= 0 THEN dropped - 1 ELSE dropped

(***************************************************************************)
(* The critical sections of frame_exchange.h are atomic: every step of the *)
(* two threads is a step of FrameExchange or none. With it everything      *)
(* FrameExchange guarantees holds of the code at this granularity.         *)
(***************************************************************************)
SectionsAreAtomic == Sections!Spec

(***************************************************************************)
(* The types, the scan's index among them, and the discipline of the lock. *)
(***************************************************************************)
LockedSound ==
  /\ TypeOK /\ LockedTypeOK
  /\ LockDiscipline
=============================================================================
