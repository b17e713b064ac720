---------------------------- MODULE CameraProofs ----------------------------
(***************************************************************************)
(* CaptureSound and CameraSound for all modes, buffers and cameras, and    *)
(* every sequence of failures and re-openings.                             *)
(***************************************************************************)
EXTENDS Camera, TLAPS

\* Where the stream runs, and where the program works on a frame.
Running == {"priority", "top", "first", "drain", "swap", "check", "use", "cleanup"}
Holding == {"drain", "swap", "check"}

\* Just the buffers counted are mapped; which those are follows the program.
MemoryOK ==
  /\ mapped = 0 .. nbufs - 1
  /\ nbufs <= want
  /\ pc \in {"open", "format", "request", "closed"} => nbufs = 0
  /\ pc = "map" => nbufs < want
  /\ pc = "queue" => nbufs > 0

\* The device is open and streams just where the program believes it, and the
\* priority it changed is written down.
DeviceOK ==
  /\ open <=> pc \notin {"open", "closed"}
  /\ streaming <=> pc \in Running
  /\ ~streaming => outgoing = <<>> /\ \A i \in Buffers : owner[i] # "app"
  /\ gone \/ priority = 1 \/ (saved = 1 /\ pc \in Running \ {"priority"})

\* The locals that hold a buffer.
LocalsOK ==
  /\ buf # None <=> pc \in Holding
  /\ newer # None <=> pc = "swap"
  /\ held # None <=> pc = "use"
  /\ pc = "swap" => newer # buf
  /\ held < nbufs

\* A buffer in a local is the program's; without failures there are no others.
OwnedOK ==
  /\ buf # None => owner[buf] = "app"
  /\ newer # None => owner[newer] = "app"
  /\ held # None => owner[held] = "app"
  /\ gone \/ \A i \in Buffers : owner[i] = "app" => i \in {buf, newer, held}

\* What can be dequeued is filled, and is there once.
OutgoingOK ==
  /\ \A k \in 1 .. Len(outgoing) : owner[outgoing[k]] = "done"
  /\ \A j, k \in 1 .. Len(outgoing) : outgoing[j] = outgoing[k] => j = k

CInv == TypeOK /\ MemoryOK /\ DeviceOK /\ LocalsOK /\ OwnedOK /\ OutgoingOK

LEMMA CInvSuffices == CInv => CaptureSound
<1> SUFFICES ASSUME CInv PROVE CaptureSound
  OBVIOUS
<1>1. /\ nbufs \in Int /\ held \in Buffers \cup {None} /\ buf \in Buffers \cup {None}
      /\ newer \in Buffers \cup {None} /\ MaxCount \in Nat /\ outgoing \in Seq(Buffers)
      /\ \A i \in Buffers : i \in Nat /\ i # None
  BY CaptureAssumption DEF CInv, TypeOK, Buffers, None
<1>2. ReadsOwnBuffer
  BY <1>1 DEF CInv, MemoryOK, LocalsOK, OwnedOK, OutgoingOK, ReadsOwnBuffer
<1>3. BuffersAccounted
  BY <1>1 DEF CInv, OwnedOK, BuffersAccounted
<1>4. ClosedIsClean
  BY DEF CInv, MemoryOK, DeviceOK, ClosedIsClean, Running
<1> QED BY <1>2, <1>3, <1>4 DEF CInv, CaptureSound, BuffersSound

LEMMA InitCInv == Init => CInv
<1> SUFFICES ASSUME Init PROVE CInv
  OBVIOUS
<1>1. TypeOK
  <2>1. NoFrame \in [n : 0 .. MaxFrames, error : BOOLEAN, used : Sizes \cup {0}]
    BY CaptureAssumption DEF NoFrame
  <2>2. frame \in [Buffers -> [n : 0 .. MaxFrames, error : BOOLEAN, used : Sizes \cup {0}]]
    BY <2>1 DEF Init
  <2>3. owner \in [Buffers -> {"none", "driver", "done", "app"}]
    BY DEF Init
  <2>4. outgoing \in Seq(Buffers)
    BY DEF Init
  <2>5. {open, streaming, gone} \subseteq BOOLEAN
    BY DEF Init
  <2> QED BY <2>2, <2>3, <2>4, <2>5, CaptureAssumption DEF Init, TypeOK, Steps, None
<1>2. want \in Int /\ want = 0
  BY CaptureAssumption DEF Init, want
<1>3. MemoryOK
  BY <1>2 DEF Init, MemoryOK
<1> QED BY <1>1, <1>3 DEF Init, CInv, DeviceOK, LocalsOK, OwnedOK, OutgoingOK, Running, Holding, None

\* The types, field by field.
LEMMA Types ==
  ASSUME CInv
  PROVE  /\ pc \in Steps /\ count \in 0 .. MaxCount /\ nbufs \in 0 .. NBUFS
         /\ mapped \subseteq Buffers
         /\ owner \in [Buffers -> {"none", "driver", "done", "app"}]
         /\ outgoing \in Seq(Buffers)
         /\ frame \in [Buffers -> [n : 0 .. MaxFrames, error : BOOLEAN, used : Sizes \cup {0}]]
         /\ produced \in 0 .. MaxFrames
         /\ buf \in Buffers \cup {None} /\ newer \in Buffers \cup {None}
         /\ held \in Buffers \cup {None}
         /\ bytesperline \in Lines \cup {0, RowBytes} /\ stride \in Lines \cup {0, RowBytes}
         /\ width2 \in {0, RowBytes}
         /\ open \in BOOLEAN /\ streaming \in BOOLEAN /\ gone \in BOOLEAN
         /\ priority \in {0, 1} /\ saved \in {0, 1}
         /\ NBUFS \in Nat /\ NBUFS > 0 /\ MaxCount \in Nat /\ MaxCount > 0
         /\ None = -1 /\ \A i \in Buffers : i \in Nat
         /\ want \in Nat /\ want <= count /\ want <= NBUFS
  BY CaptureAssumption DEF CInv, TypeOK, Buffers, None, want

-----------------------------------------------------------------------------
(* Intervals and sequences *)

LEMMA OneMore ==
  ASSUME NEW n \in Nat
  PROVE  (0 .. n - 1) \cup {n} = 0 .. n
  OBVIOUS

LEMMA SeqFacts ==
  ASSUME NEW S, NEW s \in Seq(S)
  PROVE  Len(s) \in Nat /\ \A k \in 1 .. Len(s) : s[k] \in S
  OBVIOUS

LEMMA AppendFacts ==
  ASSUME NEW S, NEW s \in Seq(S), NEW e \in S
  PROVE  LET t == Append(s, e) IN
         /\ t \in Seq(S) /\ Len(t) = Len(s) + 1
         /\ \A k \in 1 .. Len(s) : t[k] = s[k]
         /\ t[Len(s) + 1] = e
         /\ \A k \in 1 .. Len(t) : k \in 1 .. Len(s) \/ k = Len(s) + 1
  OBVIOUS

LEMMA TailFacts ==
  ASSUME NEW S, NEW s \in Seq(S), s # <<>>
  PROVE  LET t == Tail(s) IN
         /\ t \in Seq(S)
         /\ Head(s) = s[1] /\ Head(s) \in S /\ 1 \in 1 .. Len(s)
         /\ \A k \in 1 .. Len(t) : k + 1 \in 1 .. Len(s) /\ k + 1 # 1 /\ t[k] = s[k + 1]
<1> DEFINE t == Tail(s)
<1>1. Len(s) \in Nat /\ Len(s) > 0
  BY SeqFacts
<1>2. t \in Seq(S) /\ Len(t) = Len(s) - 1
  BY <1>1
<1>3. Head(s) = s[1] /\ 1 \in 1 .. Len(s)
  BY <1>1
<1>4. \A k \in 1 .. Len(s) - 1 : t[k] = s[k + 1]
  BY <1>1
<1> HIDE DEF t
<1>5. \A k \in 1 .. Len(t) : k + 1 \in 1 .. Len(s) /\ k + 1 # 1 /\ t[k] = s[k + 1]
  BY <1>1, <1>2, <1>4
<1>6. Head(s) \in S
  BY <1>3, SeqFacts
<1> QED BY <1>2, <1>3, <1>5, <1>6 DEF t

-----------------------------------------------------------------------------
(* Opening *)

LEMMA OpenOK == ASSUME CInv, Open PROVE CInv'
<1> USE Types DEF CInv
<1>1. TypeOK'
  BY DEF Open, Step, Works, TypeOK, Steps, driver, memory, format, locals
<1> QED BY <1>1 DEF Open, Step, Works, MemoryOK, DeviceOK, LocalsOK, OwnedOK, OutgoingOK, Running,
          Holding, driver, memory, format, locals, want

LEMMA SetFormatOK == ASSUME CInv, SetFormat PROVE CInv'
<1> USE Types DEF CInv
<1>1. TypeOK'
  BY DEF SetFormat, Step, Works, TypeOK, Steps, driver, memory, device, locals
<1> QED BY <1>1 DEF SetFormat, Step, Works, MemoryOK, DeviceOK, LocalsOK, OwnedOK, OutgoingOK, Running,
          Holding, driver, memory, device, locals, want

LEMMA RequestOK == ASSUME CInv, RequestBuffers PROVE CInv'
<1> USE Types DEF CInv
<1>1. TypeOK'
  <2>1. pc' \in Steps /\ count' \in 0 .. MaxCount
    BY DEF RequestBuffers, Step, Steps
  <2>2. UNCHANGED <<memory, owner, outgoing, frame, produced, format, locals, device>> /\ gone' = gone
    BY DEF RequestBuffers, Works
  <2> QED BY <2>1, <2>2 DEF TypeOK, memory, device, locals, format
<1>2. MemoryOK'
  BY DEF RequestBuffers, Step, MemoryOK, memory, want
<1> QED BY <1>1, <1>2 DEF RequestBuffers, Step, Works, DeviceOK, LocalsOK, OwnedOK, OutgoingOK, Running,
          Holding, memory, device, locals, format

LEMMA MapOK == ASSUME CInv, MapBuffer PROVE CInv'
<1>1. /\ pc = "map" /\ pc' = "queue" /\ mapped' = mapped \cup {nbufs} /\ nbufs' = nbufs + 1
      /\ ~gone /\ gone' = gone
      /\ UNCHANGED <<driver, format, locals, device>>
  BY DEF MapBuffer, Step, Works
<1>2. /\ nbufs \in Nat /\ nbufs < want /\ mapped = 0 .. nbufs - 1
      /\ held \in Int /\ held < nbufs /\ want \in Nat /\ want <= count /\ want <= NBUFS
      /\ count \in Nat /\ count <= MaxCount /\ NBUFS \in Nat /\ MaxCount \in Nat
  BY <1>1, Types DEF CInv, MemoryOK, LocalsOK
<1>3. mapped' = 0 .. nbufs' - 1
  BY <1>1, <1>2, OneMore
<1>4. nbufs' \in 0 .. NBUFS /\ nbufs \in Buffers /\ nbufs' <= want /\ held < nbufs'
  BY <1>1, <1>2 DEF Buffers
<1>5. want' = want
  BY <1>1 DEF driver, want
<1>6. MemoryOK'
  BY <1>1, <1>2, <1>3, <1>4, <1>5 DEF MemoryOK
<1>7. TypeOK'
  <2>1. mapped' \subseteq Buffers /\ pc' \in Steps
    BY <1>1, <1>4 DEF CInv, TypeOK, Steps
  <2> QED BY <1>1, <1>4, <2>1 DEF CInv, TypeOK, driver, device, locals, format
<1>8. LocalsOK'
  BY <1>1, <1>4 DEF CInv, LocalsOK, locals, Holding
<1> QED BY <1>1, <1>6, <1>7, <1>8 DEF CInv, DeviceOK, OwnedOK, OutgoingOK, Running,
          driver, device, locals, format

LEMMA QueueBufferOK == ASSUME CInv, QueueBuffer PROVE CInv'
<1> USE Types DEF CInv
<1>1. nbufs - 1 \in Buffers /\ owner' = [owner EXCEPT ![nbufs - 1] = "driver"]
  BY DEF QueueBuffer, Queue, Step, MemoryOK, Buffers
<1>2. TypeOK'
  BY <1>1 DEF QueueBuffer, Step, Works, TypeOK, Steps, memory, device, locals, format
<1>3. MemoryOK'
  BY DEF QueueBuffer, Step, MemoryOK, memory, want
<1> QED BY <1>1, <1>2, <1>3 DEF QueueBuffer, Step, Works, DeviceOK, LocalsOK, OwnedOK, OutgoingOK, Running,
          Holding, memory, device, locals, format

LEMMA StreamOnOK == ASSUME CInv, StreamOn PROVE CInv'
<1> USE Types DEF CInv
<1>1. TypeOK'
  BY DEF StreamOn, Step, Works, TypeOK, Steps, driver, memory, locals, format
<1> QED BY <1>1 DEF StreamOn, Step, Works, MemoryOK, DeviceOK, LocalsOK, OwnedOK, OutgoingOK, Running,
          Holding, driver, memory, locals, format, want

LEMMA ClearPriorityOK == ASSUME CInv, ClearPriority PROVE CInv'
<1>1. /\ pc = "priority" /\ pc' = "top"
      /\ \/ saved' = priority /\ priority' = 0
         \/ saved' = saved /\ priority' = priority
      /\ UNCHANGED <<driver, memory, format, locals, open, streaming, gone>>
  BY DEF ClearPriority, Step
<1>2. TypeOK'
  <2>1. priority' \in {0, 1} /\ saved' \in {0, 1} /\ pc' \in Steps
    BY <1>1, Types DEF Steps
  <2> QED BY <1>1, <2>1 DEF CInv, TypeOK, driver, memory, locals, format
<1>3. priority = 0 \/ priority = 1
  BY Types
<1> QED BY <1>1, <1>2, <1>3 DEF CInv, MemoryOK, DeviceOK, LocalsOK, OwnedOK, OutgoingOK, Running,
          Holding, driver, memory, locals, format, want

\* After Close nothing is left of the buffers.
LEMMA CloseOK ==
  ASSUME CInv, pc \notin {"drain", "swap", "check", "use"}, Close, unmap_all,
         UNCHANGED <<count, frame, produced, format, locals, gone>>,
         priority' \in {0, 1}, saved' \in {0, 1}, gone \/ priority' = 1
  PROVE  CInv'
<1> USE Types DEF CInv
<1>1. nbufs' = 0 /\ mapped' = {} /\ owner' = [i \in Buffers |-> "none"] /\ outgoing' = <<>>
  BY DEF unmap_all, Close, MemoryOK
<1>2. TypeOK'
  <2>1. /\ pc' \in Steps /\ nbufs' \in 0 .. NBUFS /\ mapped' \subseteq Buffers
        /\ owner' \in [Buffers -> {"none", "driver", "done", "app"}]
        /\ outgoing' \in Seq(Buffers)
    BY <1>1 DEF Close, Steps
  <2>2. {open', streaming', gone'} \subseteq BOOLEAN
    BY DEF Close
  <2> QED BY <2>1, <2>2 DEF TypeOK, locals, format
<1>3. MemoryOK'
  BY <1>1 DEF MemoryOK, Close, want
<1>4. buf' = None /\ newer' = None /\ held' = None
  BY DEF LocalsOK, Holding, locals
<1> QED BY <1>1, <1>2, <1>3, <1>4 DEF Close, DeviceOK, LocalsOK, OwnedOK, OutgoingOK, Running, Holding

LEMMA InitFailOK == ASSUME CInv, init_fail PROVE CInv'
<1>1. priority' = priority /\ saved' = saved /\ (gone \/ priority = 1)
  BY DEF init_fail, CInv, DeviceOK, Running
<1> QED BY <1>1, CloseOK, Types DEF init_fail

LEMMA CleanupOK == ASSUME CInv, webcam_cleanup PROVE CInv'
<1>1. /\ saved' = saved /\ saved \in {0, 1} /\ priority \in {0, 1}
      /\ priority' = IF saved # 0 /\ ~gone THEN saved ELSE priority
      /\ gone \/ priority = 1 \/ saved = 1
  BY Types DEF webcam_cleanup, CInv, DeviceOK
<1>2. priority' \in {0, 1} /\ (gone \/ priority' = 1)
  BY <1>1
<1> QED BY <1>1, <1>2, CloseOK DEF webcam_cleanup

-----------------------------------------------------------------------------
(* The driver *)

LEMMA FillOK ==
  ASSUME CInv, NEW i \in Buffers, owner[i] \in {"none", "driver"}, Fill(i)
  PROVE  CInv'
<1> USE DEF CInv
<1>1. /\ owner' = [owner EXCEPT ![i] = "done"]
      /\ outgoing' = Append(outgoing, i)
      /\ UNCHANGED <<pc, count, memory, format, locals, device, gone>>
      /\ streaming
      /\ outgoing \in Seq(Buffers) /\ owner \in [Buffers -> {"none", "driver", "done", "app"}]
  BY Types DEF Fill
<1>2. /\ outgoing' \in Seq(Buffers)
      /\ \A k \in 1 .. Len(outgoing) : outgoing'[k] = outgoing[k]
      /\ outgoing'[Len(outgoing) + 1] = i
      /\ \A k \in 1 .. Len(outgoing') : k \in 1 .. Len(outgoing) \/ k = Len(outgoing) + 1
  BY <1>1, AppendFacts
<1>3. \A k \in 1 .. Len(outgoing) : outgoing[k] \in Buffers /\ outgoing[k] # i
  BY <1>1, SeqFacts DEF OutgoingOK
<1>4. OutgoingOK'
  <2>1. owner'[i] = "done" /\ \A j \in Buffers : j # i => owner'[j] = owner[j]
    BY <1>1
  <2>2. \A k \in 1 .. Len(outgoing) : owner'[outgoing[k]] = "done"
    BY <1>3, <2>1 DEF OutgoingOK
  <2>3. \A k \in 1 .. Len(outgoing') : owner'[outgoing'[k]] = "done"
    BY <1>2, <2>1, <2>2
  <2>4. \A j, k \in 1 .. Len(outgoing') : outgoing'[j] = outgoing'[k] => j = k
    <3> SUFFICES ASSUME NEW j \in 1 .. Len(outgoing'), NEW k \in 1 .. Len(outgoing'),
                        outgoing'[j] = outgoing'[k]
                 PROVE  j = k
      OBVIOUS
    <3>1. CASE j \in 1 .. Len(outgoing) /\ k \in 1 .. Len(outgoing)
      <4>1. outgoing[j] = outgoing[k]
        BY <1>2, <3>1
      <4> QED BY <3>1, <4>1 DEF OutgoingOK
    <3>2. CASE j \in 1 .. Len(outgoing) /\ k = Len(outgoing) + 1
      BY <1>2, <1>3, <3>2
    <3>3. CASE j = Len(outgoing) + 1 /\ k \in 1 .. Len(outgoing)
      BY <1>2, <1>3, <3>3
    <3> QED BY <1>2, <3>1, <3>2, <3>3
  <2> QED BY <2>3, <2>4 DEF OutgoingOK
<1>5. TypeOK'
  <2>1. owner' \in [Buffers -> {"none", "driver", "done", "app"}]
    BY <1>1
  <2>2. produced' \in 0 .. MaxFrames
    <3>1. produced' = produced + 1 /\ produced < MaxFrames /\ produced \in Nat /\ MaxFrames \in Nat
      BY Types, CaptureAssumption DEF Fill
    <3> QED BY <3>1
  <2>3. PICK e \in BOOLEAN, u \in Sizes :
          frame' = [frame EXCEPT ![i] = [n |-> produced', error |-> e, used |-> u]]
    BY DEF Fill
  <2>4. [n |-> produced', error |-> e, used |-> u]
          \in [n : 0 .. MaxFrames, error : BOOLEAN, used : Sizes \cup {0}]
    BY <2>2
  <2>5. frame' \in [Buffers -> [n : 0 .. MaxFrames, error : BOOLEAN, used : Sizes \cup {0}]]
    BY <2>3, <2>4, Types
  <2> QED BY <1>1, <1>2, <2>1, <2>2, <2>5 DEF TypeOK, memory, format, locals, device
<1>6. MemoryOK' /\ DeviceOK' /\ LocalsOK'
  BY <1>1 DEF MemoryOK, DeviceOK, LocalsOK, Running, Holding, memory, format, locals, device, want
<1>7. OwnedOK'
  BY <1>1, Types DEF OwnedOK, locals
<1> QED BY <1>4, <1>5, <1>6, <1>7

LEMMA EnvironmentOK == ASSUME CInv, Environment PROVE CInv'
<1>1. CASE FillQueued
  <2>1. PICK i \in Buffers : owner[i] = "driver" /\ Fill(i)
    BY <1>1 DEF FillQueued
  <2> QED BY <2>1, FillOK
<1>2. CASE FillStray
  <2>1. PICK i \in nbufs .. count - 1 : owner[i] = "none" /\ Fill(i)
    BY <1>2 DEF FillStray
  <2>2. i \in Buffers
    BY Types DEF Buffers
  <2> QED BY <2>1, <2>2, FillOK
<1>3. CASE Unplug
  <2>1. gone' = TRUE /\ UNCHANGED <<pc, driver, memory, format, locals, device>>
    BY <1>3 DEF Unplug
  <2>2. TypeOK'
    BY <2>1 DEF CInv, TypeOK, driver, memory, format, locals, device
  <2> QED BY <2>1, <2>2 DEF CInv, MemoryOK, DeviceOK, LocalsOK, OwnedOK, OutgoingOK, Running, Holding,
          driver, memory, format, locals, device, want
<1> QED BY <1>1, <1>2, <1>3 DEF Environment

-----------------------------------------------------------------------------
(* Capturing *)

LEMMA DequeueOK ==
  ASSUME CInv, Dequeue, pc # "closed"
  PROVE  /\ Head(outgoing) \in Buffers
         /\ owner[Head(outgoing)] = "done"
         /\ owner' = [owner EXCEPT ![Head(outgoing)] = "app"]
         /\ outgoing' \in Seq(Buffers)
         /\ OutgoingOK'
<1>1. /\ outgoing # <<>> /\ outgoing' = Tail(outgoing) /\ outgoing \in Seq(Buffers)
      /\ owner' = [owner EXCEPT ![Head(outgoing)] = "app"]
      /\ owner \in [Buffers -> {"none", "driver", "done", "app"}]
  BY Types DEF Dequeue
<1>2. /\ Head(outgoing) = outgoing[1] /\ Head(outgoing) \in Buffers
      /\ outgoing' \in Seq(Buffers) /\ 1 \in 1 .. Len(outgoing)
      /\ \A k \in 1 .. Len(outgoing') :
           k + 1 \in 1 .. Len(outgoing) /\ k + 1 # 1 /\ outgoing'[k] = outgoing[k + 1]
  BY <1>1, TailFacts
<1>3. \A k \in 1 .. Len(outgoing') :
        /\ outgoing'[k] # outgoing[1] /\ outgoing'[k] \in Buffers
        /\ owner[outgoing'[k]] = "done"
  BY <1>1, <1>2, SeqFacts DEF CInv, OutgoingOK
<1>4. \A k \in 1 .. Len(outgoing') : owner'[outgoing'[k]] = "done"
  BY <1>1, <1>2, <1>3
<1>5. \A j, k \in 1 .. Len(outgoing') : outgoing'[j] = outgoing'[k] => j = k
  <2> SUFFICES ASSUME NEW j \in 1 .. Len(outgoing'), NEW k \in 1 .. Len(outgoing'),
                      outgoing'[j] = outgoing'[k]
               PROVE  j = k
    OBVIOUS
  <2>1. j + 1 = k + 1
    BY <1>2 DEF CInv, OutgoingOK
  <2>2. j \in Int /\ k \in Int
    OBVIOUS
  <2> QED BY <2>1, <2>2
<1> QED BY <1>1, <1>2, <1>4, <1>5 DEF CInv, OutgoingOK

(***************************************************************************)
(* A buffer of the program's goes back to the driver, or to nobody when    *)
(* the camera is gone: what can be dequeued is not touched.                *)
(***************************************************************************)
LEMMA GivenBackOK ==
  ASSUME CInv, NEW i \in Buffers, owner[i] = "app",
         IF gone THEN UNCHANGED owner ELSE Queue(i),
         UNCHANGED outgoing
  PROVE  /\ owner' \in [Buffers -> {"none", "driver", "done", "app"}]
         /\ \A j \in Buffers : j # i => owner'[j] = owner[j]
         /\ gone \/ owner'[i] = "driver"
         /\ OutgoingOK'
<1> USE Types DEF CInv
<1>1. owner' = owner \/ (~gone /\ owner' = [owner EXCEPT ![i] = "driver"])
  BY DEF Queue
<1>2. owner' \in [Buffers -> {"none", "driver", "done", "app"}]
  BY <1>1
<1>3. \A k \in 1 .. Len(outgoing) : outgoing[k] \in Buffers /\ outgoing[k] # i
  BY SeqFacts DEF OutgoingOK
<1>4. \A j \in Buffers : j # i => owner'[j] = owner[j]
  BY <1>1
<1>5. OutgoingOK'
  BY <1>3, <1>4 DEF OutgoingOK
<1>6. gone \/ owner'[i] = "driver"
  BY DEF Queue
<1> QED BY <1>2, <1>4, <1>5, <1>6

LEMMA StayOK ==
  ASSUME CInv, UNCHANGED <<driver, memory, format, locals, device, gone>>,
         \/ pc = "top" /\ pc' \in {"first", "cleanup"}
         \/ pc = "first" /\ pc' = "cleanup"
         \/ pc = "drain" /\ pc' = "check"
  PROVE  CInv'
<1> USE Types DEF CInv
<1>1. TypeOK'
  <2>1. pc' \in Steps
    BY DEF Steps
  <2> QED BY <2>1 DEF TypeOK, driver, memory, format, locals, device
<1> QED BY <1>1 DEF MemoryOK, DeviceOK, LocalsOK, OwnedOK, OutgoingOK, Running, Holding,
          driver, memory, format, locals, device, want

LEMMA FirstFrameOK == ASSUME CInv, FirstFrame PROVE CInv'
<1> USE Types DEF CInv
<1>1. /\ pc = "first" /\ pc' = "drain" /\ ~gone /\ gone' = gone
      /\ Dequeue /\ buf' = Head(outgoing)
      /\ UNCHANGED <<memory, format, newer, held, device, count, frame, produced>>
  BY DEF FirstFrame, Step, Works, Dequeue
<1>2. /\ Head(outgoing) \in Buffers /\ owner' = [owner EXCEPT ![Head(outgoing)] = "app"]
      /\ outgoing' \in Seq(Buffers) /\ OutgoingOK' /\ owner[Head(outgoing)] = "done"
  BY <1>1, DequeueOK
<1>3. /\ buf' \in Buffers /\ buf' # None /\ pc' \in Steps
      /\ owner' \in [Buffers -> {"none", "driver", "done", "app"}]
  <2>1. buf' \in Buffers /\ buf' # None
    BY <1>1, <1>2
  <2>2. pc' \in Steps
    BY <1>1 DEF Steps
  <2>3. owner' \in [Buffers -> {"none", "driver", "done", "app"}]
    BY <1>2
  <2> QED BY <2>1, <2>2, <2>3
<1>4. TypeOK'
  BY <1>1, <1>2, <1>3 DEF TypeOK, memory, format, device
<1>5. MemoryOK' /\ DeviceOK' /\ LocalsOK'
  BY <1>1, <1>3 DEF MemoryOK, DeviceOK, LocalsOK, Running, Holding, memory, format, device, want
<1>6. OwnedOK'
  BY <1>1, <1>2, <1>3 DEF OwnedOK, LocalsOK, Holding
<1> QED BY <1>2, <1>4, <1>5, <1>6

LEMMA NewerOK == ASSUME CInv, Newer PROVE CInv'
<1> USE Types DEF CInv
<1>1. /\ pc = "drain" /\ pc' = "swap" /\ ~gone /\ gone' = gone
      /\ Dequeue /\ newer' = Head(outgoing)
      /\ UNCHANGED <<memory, format, buf, held, device, count, frame, produced>>
  BY DEF Newer, Step, Works, Dequeue
<1>2. /\ Head(outgoing) \in Buffers /\ owner' = [owner EXCEPT ![Head(outgoing)] = "app"]
      /\ outgoing' \in Seq(Buffers) /\ OutgoingOK' /\ owner[Head(outgoing)] = "done"
  BY <1>1, DequeueOK
<1>3. /\ newer' \in Buffers /\ newer' # None /\ pc' \in Steps
      /\ owner' \in [Buffers -> {"none", "driver", "done", "app"}]
      /\ buf # None /\ owner[buf] = "app" /\ newer' # buf /\ newer = None /\ held = None
  <2>1. newer' \in Buffers /\ newer' # None /\ pc' \in Steps
    BY <1>1, <1>2 DEF Steps
  <2>2. owner' \in [Buffers -> {"none", "driver", "done", "app"}]
    BY <1>2
  <2>3. buf # None /\ owner[buf] = "app" /\ newer = None /\ held = None
    BY <1>1 DEF LocalsOK, OwnedOK, Holding
  <2>4. newer' # buf
    BY <1>1, <1>2, <2>3
  <2> QED BY <2>1, <2>2, <2>3, <2>4
<1>4. TypeOK'
  BY <1>1, <1>2, <1>3 DEF TypeOK, memory, format, device
<1>5. MemoryOK' /\ DeviceOK' /\ LocalsOK'
  BY <1>1, <1>3 DEF MemoryOK, DeviceOK, LocalsOK, Running, Holding, memory, format, device, want
<1>6. OwnedOK'
  BY <1>1, <1>2, <1>3 DEF OwnedOK
<1> QED BY <1>2, <1>4, <1>5, <1>6

LEMMA SwapOK == ASSUME CInv, Swap PROVE CInv'
<1> USE Types DEF CInv
<1>1. /\ pc = "swap" /\ pc' = "drain" /\ buf' = newer /\ newer' = None
      /\ IF gone THEN UNCHANGED owner ELSE Queue(buf)
      /\ UNCHANGED <<memory, count, outgoing, frame, produced, format, held, device, gone>>
  BY DEF Swap, Step
<1>2. /\ buf \in Buffers /\ newer \in Buffers /\ newer # buf /\ newer # None /\ held = None
      /\ owner[buf] = "app" /\ owner[newer] = "app" /\ pc' \in Steps
  BY <1>1 DEF LocalsOK, OwnedOK, Holding, Steps
<1>3. /\ owner' \in [Buffers -> {"none", "driver", "done", "app"}]
      /\ \A j \in Buffers : j # buf => owner'[j] = owner[j]
      /\ gone \/ owner'[buf] = "driver"
      /\ OutgoingOK'
  BY <1>1, <1>2, GivenBackOK
<1>4. TypeOK'
  BY <1>1, <1>2, <1>3 DEF TypeOK, memory, format, device
<1>5. MemoryOK' /\ DeviceOK' /\ LocalsOK'
  BY <1>1, <1>2 DEF MemoryOK, DeviceOK, LocalsOK, Running, Holding, memory, format, device, want
<1>6. OwnedOK'
  BY <1>1, <1>2, <1>3 DEF OwnedOK
<1> QED BY <1>3, <1>4, <1>5, <1>6

LEMMA DiscardOK ==
  ASSUME CInv, Discard, pc = "check", pc' \in {"cleanup", "top"}
  PROVE  CInv'
<1> USE Types DEF CInv
<1>1. /\ buf' = None
      /\ IF gone THEN UNCHANGED owner ELSE Queue(buf)
      /\ UNCHANGED <<memory, count, outgoing, frame, produced, format, newer, held, device, gone>>
  BY DEF Discard
<1>2. /\ buf \in Buffers /\ newer = None /\ held = None /\ owner[buf] = "app" /\ pc' \in Steps
  BY DEF LocalsOK, OwnedOK, Holding, Steps
<1>3. /\ owner' \in [Buffers -> {"none", "driver", "done", "app"}]
      /\ \A j \in Buffers : j # buf => owner'[j] = owner[j]
      /\ gone \/ owner'[buf] = "driver"
      /\ OutgoingOK'
  BY <1>1, <1>2, GivenBackOK
<1>4. TypeOK'
  BY <1>1, <1>2, <1>3 DEF TypeOK, memory, format, device
<1>5. MemoryOK' /\ DeviceOK' /\ LocalsOK'
  BY <1>1, <1>2 DEF MemoryOK, DeviceOK, LocalsOK, Running, Holding, memory, format, device, want
<1>6. OwnedOK'
  BY <1>1, <1>2, <1>3 DEF OwnedOK
<1> QED BY <1>3, <1>4, <1>5, <1>6

LEMMA DeliverOK == ASSUME CInv, Deliver PROVE CInv'
<1> USE Types DEF CInv
<1>1. /\ pc = "check" /\ pc' = "use" /\ buf < nbufs /\ held' = buf /\ buf' = None
      /\ UNCHANGED <<driver, memory, format, newer, device, gone>>
  BY DEF Deliver, Step
<1>2. /\ buf \in Buffers /\ newer = None /\ held = None /\ owner[buf] = "app" /\ pc' \in Steps
  BY <1>1 DEF LocalsOK, OwnedOK, Holding, Steps
<1>3. TypeOK'
  BY <1>1, <1>2 DEF TypeOK, driver, memory, format, device
<1>4. MemoryOK' /\ DeviceOK' /\ LocalsOK'
  BY <1>1, <1>2 DEF MemoryOK, DeviceOK, LocalsOK, Running, Holding, driver, memory, format, device, want
<1>5. OwnedOK' /\ OutgoingOK'
  BY <1>1, <1>2 DEF OwnedOK, OutgoingOK, driver
<1> QED BY <1>3, <1>4, <1>5

LEMMA RequeueOK == ASSUME CInv, Requeue PROVE CInv'
<1> USE Types DEF CInv
<1>1. /\ pc = "use" /\ pc' \in {"cleanup", "top"} /\ held' = None
      /\ IF gone THEN UNCHANGED owner ELSE Queue(held)
      /\ UNCHANGED <<memory, count, outgoing, frame, produced, format, buf, newer, device, gone>>
  BY DEF Requeue, Step
<1>2. /\ held \in Buffers /\ newer = None /\ buf = None /\ owner[held] = "app" /\ pc' \in Steps
  BY <1>1 DEF LocalsOK, OwnedOK, Holding, Steps
<1>3. /\ owner' \in [Buffers -> {"none", "driver", "done", "app"}]
      /\ \A j \in Buffers : j # held => owner'[j] = owner[j]
      /\ gone \/ owner'[held] = "driver"
      /\ OutgoingOK'
  BY <1>1, <1>2, GivenBackOK
<1>4. TypeOK'
  BY <1>1, <1>2, <1>3 DEF TypeOK, memory, format, device
<1>5. MemoryOK' /\ DeviceOK' /\ LocalsOK'
  BY <1>1, <1>2 DEF MemoryOK, DeviceOK, LocalsOK, Running, Holding, memory, format, device, want
<1>6. OwnedOK'
  BY <1>1, <1>2, <1>3 DEF OwnedOK
<1> QED BY <1>3, <1>4, <1>5, <1>6

LEMMA CapturingOK == ASSUME CInv, Capturing PROVE CInv'
<1>1. WaitFrame \/ FirstFails \/ Drained => CInv'
  BY StayOK DEF WaitFrame, FirstFails, Drained, Step
<1>2. BadIndex \/ DropCorrupt => CInv'
  BY DiscardOK DEF BadIndex, DropCorrupt, Step
<1> QED BY <1>1, <1>2, FirstFrameOK, NewerOK, SwapOK, DeliverOK, RequeueOK DEF Capturing

LEMMA NextOK == ASSUME CInv, [Next]_vars PROVE CInv'
<1>1. CASE Opening
  BY <1>1, OpenOK, SetFormatOK, RequestOK, MapOK, QueueBufferOK, StreamOnOK, ClearPriorityOK,
     InitFailOK DEF Opening
<1>2. CASE Quit
  BY <1>2, StayOK DEF Quit, Step
<1>3. CASE UNCHANGED vars
  BY <1>3 DEF vars, CInv, TypeOK, MemoryOK, DeviceOK, LocalsOK, OwnedOK, OutgoingOK, want
<1>4. CASE Closed
  BY <1>3, <1>4 DEF Closed
<1> QED BY <1>1, <1>2, <1>3, <1>4, CapturingOK, CleanupOK, EnvironmentOK DEF Next

-----------------------------------------------------------------------------
(* Re-openings *)

LEMMA ReopenOK == ASSUME CInv, Reopen \/ OpenGone PROVE CInv'
<1> USE Types DEF CInv
<1>1. CASE Reopen
  <2>1. /\ pc = "closed" /\ pc' = "open" /\ saved' = 0
        /\ bytesperline' = 0 /\ width2' = 0 /\ stride' = 0
        /\ UNCHANGED <<driver, memory, locals, open, streaming, priority, gone>>
    BY <1>1 DEF Reopen, Step
  <2>2. TypeOK'
    BY <2>1 DEF TypeOK, Steps, driver, memory, locals
  <2> QED BY <2>1, <2>2 DEF MemoryOK, DeviceOK, LocalsOK, OwnedOK, OutgoingOK, Running, Holding,
            driver, memory, locals, want
<1>2. CASE OpenGone
  <2>1. /\ pc = "open" /\ pc' = "closed"
        /\ UNCHANGED <<driver, memory, format, locals, device, gone>>
    BY <1>2 DEF OpenGone, Step
  <2>2. TypeOK'
    BY <2>1 DEF TypeOK, Steps, driver, memory, format, locals, device
  <2> QED BY <2>1, <2>2 DEF MemoryOK, DeviceOK, LocalsOK, OwnedOK, OutgoingOK, Running, Holding,
            driver, memory, format, locals, device, want
<1> QED BY <1>1, <1>2

\* New buffers are allocated while the camera waits.
AllocAtTop == task = "alloc" => pc = "top"

LEMMA CameraStepOK ==
  ASSUME CInv, AllocAtTop, [CameraNext]_cameraVars
  PROVE  CInv' /\ AllocAtTop'
<1>1. CASE Capture
  BY <1>1, NextOK DEF Capture, AllocAtTop
<1>2. CASE Reinit
  <2>1. CASE pc = "top"
    BY <1>2, <2>1, StayOK DEF Reinit, AllocAtTop
  <2>2. CASE pc # "top"
    <3>1. UNCHANGED vars
      BY <1>2, <2>2 DEF Reinit, vars, driver, memory, format, locals, device
    <3> QED BY <1>2, <3>1, NextOK DEF Reinit, AllocAtTop
  <2> QED BY <2>1, <2>2
<1>3. CASE NoRoom
  BY <1>3, StayOK DEF NoRoom, AllocAtTop
<1>4. CASE Reopen \/ OpenGone
  <2>1. AllocAtTop'
    BY <1>4 DEF Reopen, OpenGone, Step, session, AllocAtTop
  <2> QED BY <1>4, <2>1, ReopenOK
<1>5. CASE InitFailed \/ FreeOld \/ Allocated \/ Undone \/ Turn \/ AutoExposure
  <2>1. UNCHANGED vars
    BY <1>5 DEF InitFailed, FreeOld, Allocated, Undone, Turn, AutoExposure
  <2>2. AllocAtTop'
    BY <1>5 DEF InitFailed, FreeOld, Allocated, Undone, Turn, AutoExposure, AllocAtTop, vars
  <2> QED BY <2>1, <2>2, NextOK
<1>6. CASE UNCHANGED cameraVars
  BY <1>6, NextOK DEF cameraVars, session, vars, AllocAtTop
<1> QED BY <1>1, <1>2, <1>3, <1>4, <1>5, <1>6 DEF CameraNext, Reopening

(***************************************************************************)
(* Frames come from buffers the program has, none is lost and what is      *)
(* closed is clean, for every number of buffers, frames and re-openings.   *)
(***************************************************************************)
THEOREM CaptureIsSound == CameraSpec => []CaptureSound
<1>1. CameraInit => CInv /\ AllocAtTop
  BY InitCInv DEF CameraInit, AllocAtTop
<1>2. CInv /\ AllocAtTop /\ [CameraNext]_cameraVars => CInv' /\ AllocAtTop'
  BY CameraStepOK
<1> QED BY <1>1, <1>2, CInvSuffices, PTL DEF CameraSpec

-----------------------------------------------------------------------------
(* Pixels and controls *)

OpeningSteps == {"open", "format", "request", "map", "queue", "streamon", "priority"}
ChosenSteps == {"request", "map", "queue", "streamon", "priority", "top"}
FrameSteps == {"first", "drain", "swap", "check", "use"}

\* What is shown is what the user has set, once there is such a thing, and what
\* the camera uses when it leaves that to the program.
SetOK ==
  told # None => /\ hw_exposure = told /\ told \in Ranges[mode].lo .. Ranges[mode].hi
                 /\ ~refused => control = told /\ ~auto

\* The automatic was tried before anything is told: it is off, or the camera refused.
Tried == (disabled => ~auto \/ refused) /\ (told # None => disabled)

\* What is true at each task of the program.
TaskOK ==
  /\ task \in {"opening", "alloc", "run", "closing", "undo", "failed"}
  /\ task = "opening" => /\ pc \in OpeningSteps \cup {"top", "closed"} /\ told = None
                         /\ pc \in ChosenSteps => mode \in Modes
  /\ task = "alloc" => pc = "top" /\ gray = 0 /\ told = None /\ mode \in Modes
  /\ task = "run" => /\ pc \in FrameSteps \cup {"top", "cleanup", "closed"}
                     /\ gray = mode /\ mode \in Modes /\ SetOK
  /\ task = "closing" => pc \in {"cleanup", "closed"}
  /\ task = "undo" => pc \in {"cleanup", "closed"} /\ Need(mode) > ARENA
  /\ task = "failed" => pc = "closed" /\ mode = 0

KInv == rgb = RgbSize(gray) /\ TaskOK

\* Where a step of the capture can lead.
LEMMA Moves ==
  ASSUME CInv, Next
  PROVE  /\ pc \in OpeningSteps =>
              /\ pc' \in OpeningSteps \cup {"top", "closed"}
              /\ pc' \in ChosenSteps => pc \in ChosenSteps \/ (pc = "format" /\ pc' = "request")
         /\ pc = "top" => pc' \in {"top", "first", "cleanup"}
         /\ pc \in FrameSteps => pc' \in FrameSteps \cup {"top", "cleanup"}
         /\ pc = "cleanup" => pc' \in {"cleanup", "closed"}
         /\ pc = "closed" => pc' = "closed"
<1> USE DEF OpeningSteps, ChosenSteps, FrameSteps
<1>1. CASE Opening
  BY <1>1 DEF Opening, Open, SetFormat, RequestBuffers, MapBuffer, QueueBuffer, StreamOn,
              ClearPriority, init_fail, Close, Step
<1>2. CASE Capturing
  BY <1>2 DEF Capturing, WaitFrame, FirstFrame, FirstFails, Newer, Swap, Drained, BadIndex,
              DropCorrupt, Deliver, Requeue, Step
<1>3. CASE Quit \/ webcam_cleanup
  BY <1>3 DEF Quit, webcam_cleanup, Close, Step
<1>4. CASE Environment \/ Closed
  <2>1. pc' = pc
    BY <1>4 DEF Environment, FillQueued, FillStray, Fill, Unplug, Closed, vars
  <2> QED BY <2>1
<1> QED BY <1>1, <1>2, <1>3, <1>4 DEF Next

LEMMA InRangeOK ==
  ASSUME NEW m \in Modes, NEW v \in Int
  PROVE  InRange(v, m) \in Ranges[m].lo .. Ranges[m].hi
<1>1. Ranges[m].lo \in Nat /\ Ranges[m].hi \in Nat /\ Ranges[m].lo <= Ranges[m].hi
  BY CameraAssumption
<1> QED BY <1>1 DEF InRange

\* A turn of a control tries to switch the automatic off, if that was not tried.
LEMMA TurnTries ==
  ASSUME Tried, Turn
  PROVE  /\ disabled' = TRUE /\ (~refused' => ~auto' /\ (told # None => ~refused))
         /\ (auto' => refused')
<1>1. AutoOff
  <2>1. \A d : Adjust(d) => AutoOff
    BY DEF Adjust
  <2> QED BY <2>1 DEF Turn
<1>2. CASE disabled
  BY <1>1, <1>2 DEF AutoOff, Tried
<1>3. CASE ~disabled
  <2>1. PICK done \in BOOLEAN : auto' = (auto /\ ~done) /\ refused' = ~done
    BY <1>1, <1>3 DEF AutoOff
  <2>2. told = None
    BY <1>3 DEF Tried
  <2> QED BY Zenon, <1>1, <2>1, <2>2 DEF AutoOff
<1> QED BY <1>2, <1>3

\* It leaves the control unknown, or as it is shown and told.
LEMMA TurnOK ==
  ASSUME KInv, Turn, control \in Int, Tried
  PROVE  KInv'
<1>1. /\ task = "run" /\ mode \in Modes /\ SetOK
      /\ UNCHANGED <<vars, task, mode, pixels>>
  BY DEF Turn, KInv, TaskOK
<1>2. /\ pc' = pc /\ gray' = gray /\ rgb' = rgb /\ mode' = mode /\ task' = task
  BY <1>1 DEF vars, pixels
<1>3. ~refused' => ~auto' /\ (told # None => ~refused)
  BY Zenon, TurnTries
<1>4. SetOK'
  <2>1. CASE gone
    <3>1. UNCHANGED <<control, hw_exposure, told>>
      BY <2>1 DEF Turn
    <3> QED BY <1>1, <1>2, <1>3, <3>1 DEF SetOK
  <2>2. CASE ~gone
    <3>1. PICK d \in {Delta, -Delta} : Adjust(d)
      BY <2>2 DEF Turn
    <3>2. PICK known \in BOOLEAN :
            LET cur == IF known THEN control ELSE Ranges[mode].lo
                next == InRange(cur + d, mode)
            IN  \/ AutoOff /\ control' = next /\ hw_exposure' = next /\ told' = next
                \/ AutoOff /\ UNCHANGED <<control, hw_exposure, told>>
      BY <3>1, Zenon DEF Adjust
    <3>3. Ranges[mode].lo \in Int /\ d \in Int
      BY <1>1, CameraAssumption
    <3>4. \/ \E n \in Ranges[mode].lo .. Ranges[mode].hi :
                control' = n /\ hw_exposure' = n /\ told' = n
          \/ UNCHANGED <<control, hw_exposure, told>>
      <4>1. \A v \in Int : InRange(v, mode) \in Ranges[mode].lo .. Ranges[mode].hi
        BY <1>1, InRangeOK
      <4>2. control + d \in Int /\ Ranges[mode].lo + d \in Int
        BY <3>3
      <4> QED BY <3>2, <4>1, <4>2
    <3> QED BY <1>1, <1>2, <1>3, <3>4 DEF SetOK
  <2> QED BY <2>1, <2>2
<1> QED BY <1>1, <1>2, <1>4 DEF KInv, TaskOK

LEMMA CaptureTaskOK == ASSUME CInv, KInv, Capture PROVE KInv'
<1>1. /\ Next /\ UNCHANGED <<task, pixels, knobs>>
      /\ pc = "top" /\ pc' # pc => task = "run"
      /\ IF pc = "format" /\ pc' = "request" THEN mode' \in Modes ELSE mode' = mode
  BY DEF Capture
<1>2. /\ task' = task /\ gray' = gray /\ rgb' = rgb /\ control' = control /\ auto' = auto
      /\ hw_exposure' = hw_exposure /\ told' = told /\ refused' = refused
  BY <1>1 DEF pixels, knobs
<1>3. task # "opening" => mode' = mode
  BY <1>1 DEF KInv, TaskOK, FrameSteps
<1>4. task = "run" => SetOK'
  BY <1>2, <1>3 DEF KInv, TaskOK, SetOK
<1>5. CASE task = "opening"
  BY <1>1, <1>2, <1>5, Moves DEF KInv, TaskOK, OpeningSteps, ChosenSteps
<1>6. CASE task # "opening"
  BY <1>1, <1>2, <1>3, <1>4, <1>6, Moves DEF KInv, TaskOK, Need, FrameSteps
<1> QED BY <1>5, <1>6

LEMMA ReopeningTaskOK == ASSUME CInv, KInv, Reopening PROVE KInv'
<1> USE DEF KInv
<1>1. CASE Reopen
  <2>1. /\ task' = "opening" /\ pc' = "open" /\ told' = None /\ gray' = gray /\ rgb' = rgb
    BY <1>1 DEF Reopen, Step, pixels
  <2> QED BY <2>1 DEF TaskOK, OpeningSteps, ChosenSteps
<1>2. CASE OpenGone
  <2>1. pc = "open" /\ pc' = "closed" /\ UNCHANGED session
    BY <1>2 DEF OpenGone, Step
  <2>2. task = "opening"
    BY <2>1 DEF TaskOK, FrameSteps
  <2> QED BY <2>1, <2>2 DEF TaskOK, ChosenSteps, session, pixels, knobs
<1>3. CASE InitFailed
  BY <1>3 DEF InitFailed, TaskOK, vars, pixels
<1>4. CASE FreeOld
  <2>1. task' = "alloc" /\ pc' = "top" /\ gray' = 0 /\ rgb' = 0 /\ mode' = mode /\ told' = told
    BY <1>4 DEF FreeOld, vars, knobs
  <2>2. mode \in Modes /\ told = None
    BY <1>4 DEF FreeOld, TaskOK, ChosenSteps
  <2>3. RgbSize(0) = 0
    BY DEF RgbSize
  <2> QED BY <2>1, <2>2, <2>3 DEF TaskOK
<1>5. CASE Allocated
  <2>1. /\ task' = "run" /\ pc' = "top" /\ mode \in Modes /\ mode' = mode
        /\ gray' = mode /\ rgb' = RgbSize(mode) /\ told' = None
    BY <1>5 DEF Allocated, TaskOK, vars
  <2> QED BY <2>1 DEF TaskOK, SetOK
<1>6. CASE NoRoom
  <2>1. /\ task' = "undo" /\ pc' = "cleanup" /\ gray' = 0 /\ rgb' = 0 /\ mode' = mode
        /\ gray + rgb + Need(mode) > ARENA /\ gray = 0 /\ mode \in Nat
    BY <1>6, CameraAssumption DEF NoRoom, TaskOK
  <2>2. rgb = 0 /\ RgbSize(0) = 0
    BY <2>1 DEF RgbSize
  <2>3. Need(mode) \in Nat
    BY <2>1 DEF Need, RgbSize
  <2>4. Need(mode) > ARENA /\ Need(mode)' = Need(mode)
    BY <2>1, <2>2, <2>3 DEF Need
  <2> QED BY <2>1, <2>2, <2>4 DEF TaskOK
<1>7. CASE Undone
  BY <1>7 DEF Undone, TaskOK, vars, pixels
<1> QED BY <1>1, <1>2, <1>3, <1>4, <1>5, <1>6, <1>7 DEF Reopening

\* The control has a value whenever there is one to turn.
ControlOK == control \in Int

LEMMA ControlStays == ASSUME KInv, ControlOK, [CameraNext]_cameraVars PROVE ControlOK'
<1>1. CASE Turn
  <2>1. mode \in Modes /\ Delta \in Nat /\ Ranges[mode].lo \in Int
    <3>1. mode \in Modes
      BY <1>1 DEF Turn, KInv, TaskOK
    <3> QED BY <3>1, CameraAssumption
  <2>2. \A v \in Int : InRange(v, mode) \in Int
    BY <2>1, InRangeOK, CameraAssumption
  <2>3. \A d \in Int : Adjust(d) => control' \in Int
    BY <2>1, <2>2 DEF Adjust, ControlOK
  <2> QED BY <1>1, <2>1, <2>3 DEF Turn, ControlOK
<1>2. CASE Allocated
  <2>1. mode \in Modes /\ control' = InRange(control, mode)
    BY <1>2 DEF Allocated, KInv, TaskOK
  <2> QED BY <2>1, InRangeOK, CameraAssumption DEF ControlOK
<1>3. CASE AutoExposure
  BY <1>3, CameraAssumption DEF AutoExposure, KInv, TaskOK, ControlOK
<1>4. CASE Capture \/ Reinit \/ (Reopening /\ ~Allocated) \/ UNCHANGED cameraVars
  <2>1. control' = control
    BY <1>4 DEF Capture, Reinit, Reopening, Reopen, OpenGone, InitFailed, FreeOld, NoRoom, Undone,
                cameraVars, session, knobs
  <2> QED BY <2>1 DEF ControlOK
<1> QED BY <1>1, <1>2, <1>3, <1>4 DEF CameraNext

LEMMA TriedStays == ASSUME KInv, Tried, [CameraNext]_cameraVars PROVE Tried'
<1>1. CASE Turn
  BY <1>1, TurnTries DEF Tried
<1>2. CASE Reopen
  BY <1>2 DEF Reopen, Tried
<1>3. CASE Capture \/ Reinit \/ (Reopening /\ ~Reopen) \/ AutoExposure \/ UNCHANGED cameraVars
  <2>1. disabled' = disabled /\ auto' = auto /\ refused' = refused /\ told' = told
    BY <1>3 DEF Capture, Reinit, Reopening, OpenGone, InitFailed, FreeOld, Allocated, NoRoom, Undone,
                AutoExposure, cameraVars, session, knobs
  <2> QED BY <2>1 DEF Tried
<1> QED BY <1>1, <1>2, <1>3 DEF CameraNext

LEMMA TaskStepOK ==
  ASSUME CInv, KInv, ControlOK, Tried, [CameraNext]_cameraVars
  PROVE  KInv'
<1>1. CASE Reinit
  <2>1. /\ task' = "closing" /\ pc' \in {"cleanup", "closed"} /\ gray' = gray /\ rgb' = rgb
    BY <1>1 DEF Reinit, pixels
  <2> QED BY <2>1 DEF KInv, TaskOK
<1>2. CASE AutoExposure
  <2>1. /\ auto /\ UNCHANGED <<pc, task, mode, gray, rgb, auto, hw_exposure, told, refused>>
        /\ task = "run"
    BY <1>2 DEF AutoExposure, vars, pixels
  <2>2. told # None => refused
    BY <2>1 DEF KInv, TaskOK, SetOK
  <2> QED BY <2>1, <2>2 DEF KInv, TaskOK, SetOK
<1>3. CASE UNCHANGED cameraVars
  BY <1>3 DEF cameraVars, session, vars, pixels, knobs, KInv, TaskOK, SetOK, Need
<1> QED BY <1>1, <1>2, <1>3, CaptureTaskOK, ReopeningTaskOK, TurnOK DEF CameraNext, ControlOK

LEMMA KInvSuffices == CInv /\ KInv => CameraSound
<1> SUFFICES ASSUME CInv, KInv PROVE CameraSound
  OBVIOUS
<1>1. pc = "closed" => ~open /\ mapped = {}
  BY DEF CInv, DeviceOK, MemoryOK
<1> QED BY <1>1 DEF KInv, TaskOK, SetOK, CameraSound, BuffersFit, FailureIsClean, RefusedDoesNotFit, ShownIsSet

(***************************************************************************)
(* The buffers fit the mode, a failure leaves both or neither, what fits   *)
(* is not refused and what is shown is what the camera was told, and what  *)
(* it uses unless it refused to leave the exposure to the program: for     *)
(* every set of modes, size of the arena and ranges of the controls.       *)
(***************************************************************************)
THEOREM CameraIsSound == CameraSpec => []CameraSound
<1>1. CameraInit => CInv /\ AllocAtTop /\ KInv /\ ControlOK /\ Tried
  BY InitCInv DEF CameraInit, Init, AllocAtTop, KInv, TaskOK, ControlOK, Tried, OpeningSteps, ChosenSteps, RgbSize
<1>2. CInv /\ AllocAtTop /\ KInv /\ ControlOK /\ Tried /\ [CameraNext]_cameraVars
        => CInv' /\ AllocAtTop' /\ KInv' /\ ControlOK' /\ Tried'
  BY CameraStepOK, TaskStepOK, ControlStays, TriedStays
<1> QED BY <1>1, <1>2, KInvSuffices, PTL DEF CameraSpec
=============================================================================
