----------------------- MODULE TextureHandles_proofs -----------------------
(***************************************************************************)
(* Proofs about the ring of textures, for a ring of any length, any number *)
(* of pictures, and any way of sending textures to the server.             *)
(***************************************************************************)
EXTENDS TextureHandles, TLAPS, SequenceTheorems, FiniteSetTheorems

\* No texture is in two places.
NoneShared ==
    /\ \A s, t \in Ring : texture[s] = texture[t] => s = t
    /\ \A s \in Ring : texture[s] \notin {TempBuffer, ReadBuffer}
    /\ TempBuffer # ReadBuffer

\* A slot whose copy the GPU has still to do is taken, is queued once, has the
\* texture of the copy, and its fence is clear.
CopiesPending ==
    /\ \A i, j \in DOMAIN gpu : gpu[i].slot = gpu[j].slot => i = j
    /\ \A i \in DOMAIN gpu :
          /\ gpu[i].texture = texture[gpu[i].slot]
          /\ ~bAvailable[gpu[i].slot]
          /\ ~fence[gpu[i].slot]

\* The jobs of the poller but the one whose slot it has given back.
Unfinished == {i \in DOMAIN PollJobs : ~(poller = "sending" /\ i = index)}

\* The slot of a job is taken until its callback gives it back, and has no
\* other job before that.
JobsPending ==
    /\ \A i \in Unfinished : ~bAvailable[PollJobs[i]]
    /\ \A i \in DOMAIN JobsToAdd : ~bAvailable[JobsToAdd[i]]
    /\ \A i, j \in Unfinished : PollJobs[i] = PollJobs[j] => i = j
    /\ \A i, j \in DOMAIN JobsToAdd : JobsToAdd[i] = JobsToAdd[j] => i = j
    /\ \A i \in Unfinished, j \in DOMAIN JobsToAdd : PollJobs[i] # JobsToAdd[j]
    /\ render.at = "enqueueing" =>
          /\ ~bAvailable[render.slot]
          /\ \A i \in Unfinished : PollJobs[i] # render.slot
          /\ \A i \in DOMAIN JobsToAdd : JobsToAdd[i] # render.slot

\* A callback works for a job, and until it gives the slot back, its fence is
\* set.
InCallback ==
    /\ poller \in {"swapping", "releasing", "sending"} => index \in DOMAIN PollJobs
    /\ poller \in {"swapping", "releasing"} => fence[PollJobs[index]]

RingInv ==
    CaptureTypeOK /\ NoneShared /\ CopiesPending /\ JobsPending /\ InCallback
-----------------------------------------------------------------------------
LEMMA RemoveAtProperties ==
    ASSUME NEW S, NEW q \in Seq(S), NEW i \in DOMAIN q
    PROVE  /\ RemoveAt(q, i) \in Seq(S)
           /\ Len(RemoveAt(q, i)) = Len(q) - 1
           /\ \A j \in 1 .. Len(q) - 1 : RemoveAt(q, i)[j] = IF j < i THEN q[j] ELSE q[j + 1]
<1>. DEFINE front == SubSeq(q, 1, i - 1)  back == SubSeq(q, i + 1, Len(q))
<1>1. Len(q) \in Nat /\ i \in 1 .. Len(q) /\ DOMAIN q = 1 .. Len(q)
  BY LenProperties
<1>2. \A j \in 1 .. Len(q) : q[j] \in S
  BY <1>1, ElementOfSeq
<1>3. /\ front \in Seq(S) /\ Len(front) = i - 1
      /\ \A j \in 1 .. i - 1 : front[j] = q[j]
  BY <1>1, <1>2, SubSeqProperties
<1>4. /\ back \in Seq(S) /\ Len(back) = Len(q) - i
      /\ \A j \in 1 .. Len(q) - i : back[j] = q[i + j]
  <2>1. /\ i + 1 \in Int /\ \A j \in i + 1 .. Len(q) : q[j] \in S
        /\ Len(q) \in Int
    BY <1>1, <1>2
  <2>2. /\ back \in Seq(S)
        /\ Len(back) = IF i + 1 <= Len(q) THEN Len(q) - (i + 1) + 1 ELSE 0
        /\ \A j \in 1 .. Len(q) - (i + 1) + 1 : back[j] = q[i + 1 + j - 1]
    BY <2>1, SubSeqProperties
  <2>. HIDE DEF back
  <2>3. Len(back) = Len(q) - i
    BY <1>1, <2>2
  <2>4. ASSUME NEW j \in 1 .. Len(q) - i PROVE back[j] = q[i + j]
    <3>1. j \in 1 .. Len(q) - (i + 1) + 1 /\ i + 1 + j - 1 = i + j
      BY <1>1
    <3>2. QED
      BY <2>2, <3>1
  <2>5. QED
    BY <2>2, <2>3, <2>4
<1>. HIDE DEF front, back
<1>5. /\ front \o back \in Seq(S)
      /\ Len(front \o back) = Len(front) + Len(back)
      /\ \A j \in 1 .. Len(front) + Len(back) :
            (front \o back)[j] = IF j <= Len(front) THEN front[j] ELSE back[j - Len(front)]
  BY <1>3, <1>4, ConcatProperties
<1>6. \A j \in 1 .. Len(q) - 1 : (front \o back)[j] = IF j < i THEN q[j] ELSE q[j + 1]
  <2>. TAKE j \in 1 .. Len(q) - 1
  <2>1. /\ Len(front) = i - 1 /\ Len(front) + Len(back) = Len(q) - 1
        /\ (front \o back)[j] = IF j <= Len(front) THEN front[j] ELSE back[j - Len(front)]
    BY <1>1, <1>3, <1>4, <1>5, SMTT(20)
  <2>2. CASE j < i
    BY <1>1, <1>3, <2>1, <2>2
  <2>3. CASE ~(j < i)
    <3>1. j - Len(front) \in 1 .. Len(q) - i /\ i + (j - Len(front)) = j + 1 /\ ~(j <= Len(front))
      BY <1>1, <2>1, <2>3, SMTT(20)
    <3>2. back[j - Len(front)] = q[i + (j - Len(front))]
      BY <1>4, <3>1
    <3>3. QED
      BY <2>1, <2>3, <3>1, <3>2
  <2>4. QED
    BY <2>2, <2>3
<1>7. Len(front \o back) = Len(q) - 1
  BY <1>1, <1>3, <1>4, <1>5
<1>8. QED
  BY <1>5, <1>6, <1>7 DEF RemoveAt, front, back

LEMMA Queues ==
    ASSUME CaptureTypeOK
    PROVE  /\ Len(PollJobs) \in Nat /\ DOMAIN PollJobs = 1 .. Len(PollJobs)
           /\ \A i \in DOMAIN PollJobs : PollJobs[i] \in Ring
           /\ PollJobs \in Seq(Ring) /\ index \in 0 .. Len(PollJobs)
           /\ Len(JobsToAdd) \in Nat /\ DOMAIN JobsToAdd = 1 .. Len(JobsToAdd)
           /\ \A i \in DOMAIN JobsToAdd : JobsToAdd[i] \in Ring
           /\ Len(gpu) \in Nat /\ DOMAIN gpu = 1 .. Len(gpu)
           /\ \A i \in DOMAIN gpu : gpu[i] \in Copies /\ gpu[i].slot \in Ring
<1>1. PollJobs \in Seq(Ring) /\ JobsToAdd \in Seq(Ring) /\ gpu \in Seq(Copies)
      /\ index \in 0 .. Len(PollJobs)
  BY DEF CaptureTypeOK
<1>2. \A c \in Copies : c.slot \in Ring
  BY DEF Copies
<1>3. QED
  BY <1>1, <1>2, LenProperties, ElementOfSeq

LEMMA InitRing == CaptureInit => RingInv
<1>. SUFFICES ASSUME CaptureInit PROVE RingInv
  OBVIOUS
<1>. USE CaptureAssumption DEF CaptureInit
<1>1. CaptureTypeOK
  <2>1. /\ texture \in [Ring -> Textures] /\ bAvailable \in [Ring -> BOOLEAN]
        /\ fence \in [Ring -> BOOLEAN] /\ TempBuffer \in Textures /\ ReadBuffer \in Textures
    BY DEF Ring, Textures
  <2>2. WriteParity \in Ring /\ render \in [at : RenderPlaces, slot : Ring]
    BY DEF Ring, RenderPlaces
  <2>3. gpu \in Seq(Copies) /\ JobsToAdd \in Seq(Ring) /\ PollJobs \in Seq(Ring)
        /\ index \in 0 .. Len(PollJobs)
    BY EmptySeq
  <2>4. QED
    BY <2>1, <2>2, <2>3 DEF CaptureTypeOK, PollerPlaces
<1>2. NoneShared
  BY DEF NoneShared, Ring
<1>3. CopiesPending /\ JobsPending /\ InCallback
  BY DEF CopiesPending, JobsPending, InCallback, Unfinished
<1>4. QED
  BY <1>1, <1>2, <1>3 DEF RingInv

-----------------------------------------------------------------------------
\* A picture is copied into a slot that is free, or lost.
LEMMA RenderStep ==
    ASSUME RingInv, OnBackBufferReady_RenderThread
    PROVE  RingInv'
<1>. DEFINE s == WriteParity
<1>. USE DEF RingInv
<1>1. /\ s \in Ring /\ texture \in [Ring -> Textures] /\ bAvailable \in [Ring -> BOOLEAN]
      /\ fence \in [Ring -> BOOLEAN] /\ gpu \in Seq(Copies) /\ frame' \in 0 .. MaxFrames
      /\ texture' = texture /\ TempBuffer' = TempBuffer /\ ReadBuffer' = ReadBuffer
      /\ PollJobs' = PollJobs /\ index' = index /\ poller' = poller
      /\ JobsToAdd' = JobsToAdd
  BY CaptureAssumption DEF CaptureTypeOK, OnBackBufferReady_RenderThread, pollerVars, jobVars
<1>2. WriteParity' \in Ring
  BY <1>1, CaptureAssumption DEF OnBackBufferReady_RenderThread, Ring
<1>3. NoneShared'
  BY <1>1 DEF NoneShared
<1>4. CASE ~MayWrite(s)
  <2>1. bAvailable' = bAvailable /\ fence' = fence /\ gpu' = gpu /\ render' = render
    BY <1>4 DEF OnBackBufferReady_RenderThread
  <2>2. CaptureTypeOK'
    BY <1>1, <1>2, <2>1 DEF CaptureTypeOK, OnBackBufferReady_RenderThread, lifeVars, jobVars
  <2>3. QED
    BY <1>1, <1>3, <2>1, <2>2 DEF CopiesPending, JobsPending, InCallback, Unfinished
<1>5. CASE MayWrite(s)
  <2>. DEFINE c == [slot |-> s, texture |-> texture[s]]
  <2>1. /\ bAvailable[s] /\ bAvailable' = [bAvailable EXCEPT ![s] = FALSE]
        /\ fence' = [fence EXCEPT ![s] = FALSE] /\ gpu' = Append(gpu, c)
        /\ render' = [at |-> "enqueueing", slot |-> s]
    BY <1>5 DEF OnBackBufferReady_RenderThread, MayWrite
  <2>2. c \in Copies
    BY <1>1 DEF Copies
  <2>3. CaptureTypeOK'
    <3>1. gpu' \in Seq(Copies)
      BY <1>1, <2>1, <2>2, AppendProperties
    <3>2. QED
      BY <1>1, <1>2, <2>1, <3>1 DEF CaptureTypeOK, OnBackBufferReady_RenderThread, lifeVars,
         jobVars, RenderPlaces
  <2>4. CopiesPending'
    <3>1. /\ DOMAIN gpu = 1 .. Len(gpu) /\ Len(gpu) \in Nat
          /\ DOMAIN gpu' = 1 .. Len(gpu) + 1
          /\ \A i \in 1 .. Len(gpu) : gpu'[i] = gpu[i] /\ gpu[i].slot \in Ring
          /\ gpu'[Len(gpu) + 1] = c
      <4>. HIDE DEF c
      <4>1. QED
        BY <1>1, <2>1, <2>2, Queues, AppendProperties, LenProperties
    <3>2. \A i \in 1 .. Len(gpu) : gpu[i].slot # s
      BY <2>1, <3>1 DEF CopiesPending
    <3>3. \A i, j \in DOMAIN gpu' : gpu'[i].slot = gpu'[j].slot => i = j
      BY <3>1, <3>2 DEF CopiesPending
    <3>4. \A i \in DOMAIN gpu' : /\ gpu'[i].texture = texture'[gpu'[i].slot]
                                 /\ ~bAvailable'[gpu'[i].slot] /\ ~fence'[gpu'[i].slot]
      BY <1>1, <2>1, <3>1, <3>2 DEF CopiesPending
    <3>5. QED
      BY <3>3, <3>4 DEF CopiesPending
  <2>5. JobsPending'
    <3>1. \A i \in DOMAIN PollJobs : PollJobs[i] \in Ring
      BY Queues
    <3>2. \A i \in DOMAIN JobsToAdd : JobsToAdd[i] \in Ring
      BY Queues
    <3>3. QED
      BY <1>1, <2>1, <3>1, <3>2 DEF JobsPending, Unfinished
  <2>6. InCallback'
    <3>1. poller \in {"swapping", "releasing"} => PollJobs[index] # s
      BY <2>1 DEF InCallback, JobsPending, Unfinished
    <3>2. QED
      BY <1>1, <2>1, <3>1, Queues DEF InCallback
  <2>7. QED
    BY <1>3, <2>3, <2>4, <2>5, <2>6
<1>6. QED
  BY <1>4, <1>5

\* The render thread hands the job to the poller.
LEMMA AddFenceJobStep ==
    ASSUME RingInv, AddFenceJob
    PROVE  RingInv'
<1>. USE DEF RingInv
<1>1. /\ render.at = "enqueueing" /\ render.slot \in Ring
      /\ JobsToAdd \in Seq(Ring) /\ JobsToAdd' = Append(JobsToAdd, render.slot)
      /\ render' = [at |-> "triggering", slot |-> render.slot]
      /\ UNCHANGED <<texture, bAvailable, TempBuffer, ReadBuffer, WriteParity, frame, gpu, fence,
                      JobAddedEvent, poller, PollJobs, index, bEnabled, bIsRunning, destructor>>
  BY DEF AddFenceJob, CaptureTypeOK, ringVars, gpuVars, pollerVars, lifeVars
<1>2. /\ JobsToAdd' \in Seq(Ring)
      /\ DOMAIN JobsToAdd = 1 .. Len(JobsToAdd) /\ Len(JobsToAdd) \in Nat
      /\ DOMAIN JobsToAdd' = 1 .. Len(JobsToAdd) + 1
      /\ \A i \in 1 .. Len(JobsToAdd) : JobsToAdd'[i] = JobsToAdd[i]
      /\ JobsToAdd'[Len(JobsToAdd) + 1] = render.slot
  BY <1>1, AppendProperties, LenProperties
<1>3. CaptureTypeOK'
  BY <1>1, <1>2 DEF CaptureTypeOK, RenderPlaces
<1>4. NoneShared' /\ CopiesPending' /\ InCallback'
  BY <1>1 DEF NoneShared, CopiesPending, InCallback
<1>5. JobsPending'
  <2>1. Unfinished' = Unfinished
    BY <1>1 DEF Unfinished
  <2>2. /\ \A i \in DOMAIN JobsToAdd' : ~bAvailable[JobsToAdd'[i]]
        /\ \A i, j \in DOMAIN JobsToAdd' : JobsToAdd'[i] = JobsToAdd'[j] => i = j
        /\ \A i \in Unfinished, j \in DOMAIN JobsToAdd' : PollJobs[i] # JobsToAdd'[j]
    BY <1>1, <1>2 DEF JobsPending
  <2>3. QED
    BY <1>1, <2>1, <2>2 DEF JobsPending
<1>6. QED
  BY <1>3, <1>4, <1>5

\* A copy is done, and only that one.
LEMMA GPUCopiesStep ==
    ASSUME RingInv, GPUCopies
    PROVE  RingInv'
<1>. DEFINE s == Head(gpu).slot
<1>. USE DEF RingInv
<1>1. /\ gpu \in Seq(Copies) /\ gpu # <<>> /\ gpu' = Tail(gpu)
      /\ fence \in [Ring -> BOOLEAN] /\ fence' = [fence EXCEPT ![s] = TRUE]
      /\ UNCHANGED <<texture, bAvailable, TempBuffer, ReadBuffer, WriteParity, render, frame,
                      JobAddedEvent, JobsToAdd, poller, PollJobs, index, bEnabled, bIsRunning,
                      destructor>>
  BY DEF GPUCopies, CaptureTypeOK, ringVars, renderVars, jobVars, pollerVars, lifeVars
<1>2. /\ gpu' \in Seq(Copies) /\ Len(gpu) \in Nat \ {0}
      /\ DOMAIN gpu = 1 .. Len(gpu) /\ DOMAIN gpu' = 1 .. Len(gpu) - 1
      /\ \A i \in DOMAIN gpu' : gpu'[i] = gpu[i + 1] /\ i + 1 \in DOMAIN gpu
      /\ s = gpu[1].slot /\ 1 \in DOMAIN gpu
  BY <1>1, HeadTailProperties, LenProperties
<1>3. \A i \in DOMAIN gpu : gpu[i].slot \in Ring
  BY Queues
<1>4. CaptureTypeOK'
  BY <1>1, <1>2 DEF CaptureTypeOK
<1>5. CopiesPending'
  <2>1. \A i \in DOMAIN gpu' : gpu[i + 1].slot # s
    BY <1>2 DEF CopiesPending
  <2>2. \A i, j \in DOMAIN gpu' : gpu'[i].slot = gpu'[j].slot => i = j
    BY <1>2 DEF CopiesPending
  <2>3. \A i \in DOMAIN gpu' : /\ gpu'[i].texture = texture[gpu'[i].slot]
                               /\ ~bAvailable[gpu'[i].slot] /\ ~fence'[gpu'[i].slot]
    BY <1>1, <1>2, <1>3, <2>1 DEF CopiesPending
  <2>4. QED
    BY <1>1, <2>2, <2>3 DEF CopiesPending
<1>6. NoneShared' /\ JobsPending'
  BY <1>1 DEF NoneShared, JobsPending, Unfinished
<1>7. InCallback'
  BY <1>1, Queues DEF InCallback
<1>8. QED
  BY <1>4, <1>5, <1>6, <1>7

\* A job that was submitted is polled from now on.
LEMMA AddNewJobStep ==
    ASSUME RingInv, AddNewJob
    PROVE  RingInv'
<1>. USE DEF RingInv
<1>1. /\ poller = "adding" /\ JobsToAdd \in Seq(Ring) /\ JobsToAdd # <<>>
      /\ PollJobs \in Seq(Ring) /\ PollJobs' = Append(PollJobs, Head(JobsToAdd))
      /\ JobsToAdd' = Tail(JobsToAdd)
      /\ UNCHANGED <<texture, bAvailable, TempBuffer, ReadBuffer, WriteParity, render, frame, gpu,
                      fence, JobAddedEvent, poller, index, bEnabled, bIsRunning, destructor>>
  BY DEF AddNewJob, CaptureTypeOK, ringVars, renderVars, gpuVars, lifeVars
<1>2. /\ JobsToAdd' \in Seq(Ring) /\ Len(JobsToAdd) \in Nat \ {0}
      /\ DOMAIN JobsToAdd = 1 .. Len(JobsToAdd) /\ DOMAIN JobsToAdd' = 1 .. Len(JobsToAdd) - 1
      /\ \A i \in DOMAIN JobsToAdd' : JobsToAdd'[i] = JobsToAdd[i + 1] /\ i + 1 \in DOMAIN JobsToAdd
      /\ Head(JobsToAdd) = JobsToAdd[1] /\ 1 \in DOMAIN JobsToAdd /\ Head(JobsToAdd) \in Ring
  BY <1>1, HeadTailProperties, LenProperties
<1>3. /\ PollJobs' \in Seq(Ring) /\ Len(PollJobs) \in Nat
      /\ DOMAIN PollJobs = 1 .. Len(PollJobs) /\ DOMAIN PollJobs' = 1 .. Len(PollJobs) + 1
      /\ Len(PollJobs') = Len(PollJobs) + 1
      /\ \A i \in 1 .. Len(PollJobs) : PollJobs'[i] = PollJobs[i]
      /\ PollJobs'[Len(PollJobs) + 1] = JobsToAdd[1]
  <2>1. PollJobs' = Append(PollJobs, JobsToAdd[1]) /\ JobsToAdd[1] \in Ring /\ PollJobs \in Seq(Ring)
    BY <1>1, <1>2
  <2>2. QED
    BY <2>1, AppendProperties, LenProperties
<1>4. CaptureTypeOK'
  <2>1. index \in 0 .. Len(PollJobs')
    <3>1. index \in 0 .. Len(PollJobs)
      BY DEF CaptureTypeOK
    <3>2. QED
      BY <1>3, <3>1
  <2>2. PollJobs' \in Seq(Ring) /\ JobsToAdd' \in Seq(Ring)
    BY <1>2, <1>3
  <2>3. QED
    BY <1>1, <2>1, <2>2 DEF CaptureTypeOK
<1>5. NoneShared' /\ CopiesPending' /\ InCallback'
  BY <1>1 DEF NoneShared, CopiesPending, InCallback
<1>6. JobsPending'
  <2>1. Unfinished = DOMAIN PollJobs /\ Unfinished' = DOMAIN PollJobs'
    BY <1>1 DEF Unfinished
  <2>2. /\ \A i \in DOMAIN PollJobs' : ~bAvailable[PollJobs'[i]]
        /\ \A i \in DOMAIN JobsToAdd' : ~bAvailable[JobsToAdd'[i]]
    BY <1>2, <1>3, <2>1 DEF JobsPending
  <2>3. /\ \A i, j \in DOMAIN PollJobs' : PollJobs'[i] = PollJobs'[j] => i = j
        /\ \A i, j \in DOMAIN JobsToAdd' : JobsToAdd'[i] = JobsToAdd'[j] => i = j
    <3>1. \A i \in DOMAIN PollJobs : PollJobs[i] # JobsToAdd[1]
      BY <1>2, <2>1 DEF JobsPending
    <3>2. \A i, j \in DOMAIN PollJobs' : PollJobs'[i] = PollJobs'[j] => i = j
      BY <1>3, <2>1, <3>1 DEF JobsPending
    <3>3. \A i, j \in DOMAIN JobsToAdd' : JobsToAdd'[i] = JobsToAdd'[j] => i = j
      <4>. SUFFICES ASSUME NEW i \in DOMAIN JobsToAdd', NEW j \in DOMAIN JobsToAdd',
                           JobsToAdd'[i] = JobsToAdd'[j]
                    PROVE  i = j
        OBVIOUS
      <4>1. JobsToAdd[i + 1] = JobsToAdd[j + 1] /\ i + 1 \in DOMAIN JobsToAdd /\ j + 1 \in DOMAIN JobsToAdd
        BY <1>2
      <4>2. i + 1 = j + 1
        BY <4>1 DEF JobsPending
      <4>3. QED
        BY <1>2, <4>2
    <3>4. QED
      BY <3>2, <3>3
  <2>4. \A i \in DOMAIN PollJobs', j \in DOMAIN JobsToAdd' : PollJobs'[i] # JobsToAdd'[j]
    BY <1>2, <1>3, <2>1, SMTT(20) DEF JobsPending
  <2>5. render.at = "enqueueing" => /\ \A i \in DOMAIN PollJobs' : PollJobs'[i] # render.slot
                                    /\ \A i \in DOMAIN JobsToAdd' : JobsToAdd'[i] # render.slot
    BY <1>2, <1>3, <2>1, SMTT(20) DEF JobsPending
  <2>6. QED
    BY <1>1, <2>1, <2>2, <2>3, <2>4, <2>5 DEF JobsPending
<1>7. QED
  BY <1>4, <1>5, <1>6

\* The job at index goes: one that is dropped, or one whose slot was given
\* back already. The jobs left are those that were unfinished.
LEMMA JobGone ==
    ASSUME RingInv, index > 0, poller \in {"polling", "sending"},
           PollJobs' = RemoveAt(PollJobs, index), index' = index - 1, poller' = "polling",
           JobsToAdd' = JobsToAdd, bAvailable' = bAvailable, render' = render
    PROVE  /\ PollJobs' \in Seq(Ring) /\ index' \in 0 .. Len(PollJobs')
           /\ JobsPending'
<1>. DEFINE old(i) == IF i < index THEN i ELSE i + 1
<1>1. /\ PollJobs \in Seq(Ring) /\ index \in DOMAIN PollJobs
      /\ DOMAIN PollJobs = 1 .. Len(PollJobs) /\ Len(PollJobs) \in Nat /\ index \in Nat
  BY Queues DEF RingInv
<1>2. /\ PollJobs' \in Seq(Ring) /\ Len(PollJobs') = Len(PollJobs) - 1
      /\ \A j \in 1 .. Len(PollJobs) - 1 :
            PollJobs'[j] = IF j < index THEN PollJobs[j] ELSE PollJobs[j + 1]
  BY <1>1, RemoveAtProperties
<1>3. DOMAIN PollJobs' = 1 .. Len(PollJobs) - 1
  BY <1>2, LenProperties
<1>4. \A i \in DOMAIN PollJobs' : /\ PollJobs'[i] = PollJobs[old(i)]
                                  /\ old(i) \in DOMAIN PollJobs \ {index}
  BY <1>1, <1>2, <1>3
<1>5. \A i, j \in DOMAIN PollJobs' : old(i) = old(j) => i = j
  BY <1>1, <1>3
<1>. HIDE DEF old
<1>6. /\ \A i \in DOMAIN PollJobs' : old(i) \in Unfinished
      /\ Unfinished' = DOMAIN PollJobs'
  BY <1>4 DEF Unfinished
<1>7. JobsPending'
  BY <1>4, <1>5, <1>6 DEF RingInv, JobsPending
<1>8. index' \in 0 .. Len(PollJobs')
  BY <1>1, <1>2
<1>9. QED
  BY <1>2, <1>7, <1>8

LEMMA DropJobStep ==
    ASSUME RingInv, DropJob
    PROVE  RingInv'
<1>1. PollJobs' \in Seq(Ring) /\ index' \in 0 .. Len(PollJobs') /\ JobsPending'
  BY JobGone DEF DropJob, ringVars, renderVars, jobVars
<1>2. CaptureTypeOK'
  BY <1>1 DEF RingInv, CaptureTypeOK, DropJob, ringVars, renderVars, gpuVars, jobVars, lifeVars
<1>3. NoneShared' /\ CopiesPending' /\ InCallback'
  BY DEF RingInv, NoneShared, CopiesPending, InCallback, DropJob, ringVars, gpuVars
<1>4. QED
  BY <1>1, <1>2, <1>3 DEF RingInv

\* ReadBuffer and TempBuffer change places.
LEMMA SendReadBufferStep ==
    ASSUME RingInv, SendReadBuffer
    PROVE  RingInv'
<1>1. index \in DOMAIN PollJobs /\ index > 0
  BY Queues DEF RingInv, InCallback, SendReadBuffer
<1>2. PollJobs' \in Seq(Ring) /\ index' \in 0 .. Len(PollJobs') /\ JobsPending'
  BY <1>1, JobGone DEF SendReadBuffer, renderVars, jobVars
<1>3. CaptureTypeOK'
  BY <1>2 DEF RingInv, CaptureTypeOK, SendReadBuffer, renderVars, gpuVars, jobVars, lifeVars,
     PollerPlaces
<1>4. NoneShared' /\ CopiesPending' /\ InCallback'
  BY DEF RingInv, NoneShared, CopiesPending, InCallback, SendReadBuffer, gpuVars
<1>5. QED
  BY <1>2, <1>3, <1>4 DEF RingInv

\* The texture of a slot without a pending copy and TempBuffer change places.
LEMMA SwapTempBufferStep ==
    ASSUME RingInv, SwapTempBuffer
    PROVE  RingInv'
<1>. DEFINE s == PollJobs[index]
<1>. USE DEF RingInv
<1>1. /\ poller = "swapping" /\ poller' = "releasing" /\ TempBuffer' = texture[s]
      /\ texture' = [texture EXCEPT ![s] = TempBuffer]
      /\ UNCHANGED <<bAvailable, ReadBuffer, WriteParity, render, frame, gpu, fence, JobAddedEvent,
                      JobsToAdd, PollJobs, index, bEnabled, bIsRunning, destructor>>
  BY DEF SwapTempBuffer, renderVars, gpuVars, jobVars, lifeVars
<1>2. s \in Ring /\ fence[s] /\ index \in DOMAIN PollJobs
  BY <1>1, Queues DEF InCallback
<1>3. texture \in [Ring -> Textures] /\ TempBuffer \in Textures
  BY DEF CaptureTypeOK
<1>. HIDE DEF s
<1>4. CaptureTypeOK'
  BY <1>1, <1>2, <1>3 DEF CaptureTypeOK, PollerPlaces
<1>5. NoneShared'
  BY <1>1, <1>2, <1>3 DEF NoneShared
<1>6. CopiesPending'
  BY <1>1, <1>2, <1>3, Queues DEF CopiesPending
<1>7. JobsPending' /\ InCallback'
  BY <1>1, <1>2 DEF JobsPending, InCallback, Unfinished, s
<1>8. QED
  BY <1>4, <1>5, <1>6, <1>7

\* The slot is given back; no other job holds it, and no copy into it is left.
LEMMA ReleaseSlotStep ==
    ASSUME RingInv, ReleaseSlot
    PROVE  RingInv'
<1>. DEFINE s == PollJobs[index]
<1>. USE DEF RingInv
<1>1. /\ poller = "releasing" /\ poller' = "sending"
      /\ fence' = [fence EXCEPT ![s] = FALSE] /\ bAvailable' = [bAvailable EXCEPT ![s] = TRUE]
      /\ UNCHANGED <<texture, TempBuffer, ReadBuffer, WriteParity, render, frame, gpu, JobAddedEvent,
                      JobsToAdd, PollJobs, index, bEnabled, bIsRunning, destructor>>
  BY DEF ReleaseSlot, renderVars, jobVars, lifeVars
<1>2. s \in Ring /\ fence[s] /\ index \in DOMAIN PollJobs
  BY <1>1, Queues DEF InCallback
<1>3. fence \in [Ring -> BOOLEAN] /\ bAvailable \in [Ring -> BOOLEAN]
  BY DEF CaptureTypeOK
<1>4. CaptureTypeOK'
  BY <1>1, <1>2, <1>3 DEF CaptureTypeOK, PollerPlaces
<1>5. NoneShared' /\ InCallback'
  BY <1>1, <1>2 DEF NoneShared, InCallback
<1>6. CopiesPending'
  BY <1>1, <1>2, <1>3, Queues DEF CopiesPending
<1>7. JobsPending'
  <2>1. Unfinished = DOMAIN PollJobs /\ Unfinished' = DOMAIN PollJobs \ {index}
    BY <1>1 DEF Unfinished
  <2>2. /\ \A i \in Unfinished' : PollJobs[i] # s
        /\ \A i \in DOMAIN JobsToAdd : JobsToAdd[i] # s
        /\ render.at = "enqueueing" => render.slot # s
    BY <1>2, <2>1 DEF JobsPending
  <2>3. QED
    BY <1>1, <1>2, <1>3, <2>1, <2>2, Queues DEF JobsPending, CaptureTypeOK
<1>8. QED
  BY <1>4, <1>5, <1>6, <1>7

\* Steps that move a thread and leave ring, copies and jobs alone.
LEMMA OtherStep ==
    ASSUME RingInv,
           \/ TriggerJobAdded \/ StartPoller \/ TestIsRunning \/ AllJobsAdded \/ PollJob
           \/ EndOfPass \/ WakeUp \/ Destructor
    PROVE  RingInv'
<1>. USE DEF RingInv, ringVars, renderVars, gpuVars, jobVars, pollerVars, lifeVars
<1>1. UNCHANGED <<texture, bAvailable, TempBuffer, ReadBuffer, gpu, fence, JobsToAdd, PollJobs>>
  BY DEF TriggerJobAdded, StartPoller, TestIsRunning, AllJobsAdded, PollJob, EndOfPass, WakeUp,
     Destructor, Disable, DestroyBuffers, StopPoller
<1>2. NoneShared' /\ CopiesPending'
  BY <1>1 DEF NoneShared, CopiesPending
<1>3. CASE TriggerJobAdded \/ Destructor
  BY <1>1, <1>2, <1>3, ZenonT(40)
  DEF TriggerJobAdded, Destructor, Disable, DestroyBuffers, StopPoller,
     CaptureTypeOK, RenderPlaces, JobsPending, InCallback, Unfinished
<1>4. CASE StartPoller \/ TestIsRunning \/ EndOfPass \/ WakeUp
  <2>1. CaptureTypeOK'
    BY <1>1, <1>4 DEF StartPoller, TestIsRunning, EndOfPass, WakeUp, CaptureTypeOK, PollerPlaces
  <2>2. JobsPending'
    BY <1>1, <1>4 DEF StartPoller, TestIsRunning, EndOfPass, WakeUp, JobsPending, Unfinished
  <2>3. InCallback'
    BY <1>1, <1>4 DEF StartPoller, TestIsRunning, EndOfPass, WakeUp, InCallback
  <2>4. QED
    BY <1>2, <2>1, <2>2, <2>3
<1>5. CASE AllJobsAdded
  <2>1. index' \in 0 .. Len(PollJobs')
    BY <1>1, <1>5, Queues DEF AllJobsAdded
  <2>2. CaptureTypeOK'
    BY <1>1, <1>5, <2>1 DEF AllJobsAdded, CaptureTypeOK, PollerPlaces
  <2>3. QED
    BY <1>1, <1>2, <1>5, <2>2 DEF AllJobsAdded, JobsPending, InCallback, Unfinished
<1>6. CASE PollJob
  <2>1. index \in DOMAIN PollJobs /\ index \in Nat \ {0}
    BY <1>6, Queues DEF PollJob
  <2>2. index' \in 0 .. Len(PollJobs')
    BY <1>1, <1>6, <2>1, Queues DEF PollJob
  <2>3. CaptureTypeOK'
    BY <1>1, <1>6, <2>2 DEF PollJob, CaptureTypeOK, PollerPlaces
  <2>4. QED
    BY <1>1, <1>2, <1>6, <2>1, <2>3 DEF PollJob, JobsPending, InCallback, Unfinished
<1>7. QED
  BY <1>3, <1>4, <1>5, <1>6

LEMMA CaptureStep == RingInv /\ [CaptureNext]_captureVars => RingInv'
<1>. SUFFICES ASSUME RingInv, [CaptureNext]_captureVars PROVE RingInv'
  OBVIOUS
<1>1. CASE UNCHANGED captureVars
  BY <1>1, ZenonT(40)
  DEF captureVars, ringVars, renderVars, gpuVars, jobVars, pollerVars, lifeVars, RingInv, CaptureTypeOK,
      NoneShared, CopiesPending, JobsPending, InCallback, Unfinished
<1>2. CASE CaptureNext
  BY <1>2, RenderStep, AddFenceJobStep, GPUCopiesStep, AddNewJobStep, DropJobStep,
     SendReadBufferStep, SwapTempBufferStep, ReleaseSlotStep, OtherStep
     DEF CaptureNext, CaptureOnly, Poller
<1>3. QED
  BY <1>1, <1>2

-----------------------------------------------------------------------------
\* The ring by itself: its types, and who holds which slot and texture.
THEOREM RingInvariant == CaptureSpec => []RingInv
  BY InitRing, CaptureStep, PTL DEF CaptureSpec

\* However its textures are sent, the capture does what it does by itself.
THEOREM ImplementsCapture == Spec => CaptureSpec
<1>1. Init => CaptureInit
  BY DEF Init
<1>2. [Next]_vars => [CaptureNext]_captureVars
  BY DEF Next, Send, vars, CaptureNext
<1>3. QED
  BY <1>1, <1>2, PTL DEF Spec, CaptureSpec

\* No texture that was sent last, or before that, or is about to be, is the
\* target of a copy that the GPU has still to do.
THEOREM ReadAccessSafe == Spec => []TexturesSafe
<1>1. RingInv => TexturesSafe
  <2>. SUFFICES ASSUME RingInv, NEW i \in 1 .. Len(gpu)
                PROVE  /\ gpu[i].texture \notin {ReadBuffer, TempBuffer}
                       /\ poller = "swapping" => gpu[i].texture # texture[PollJobs[index]]
    BY DEF TexturesSafe
  <2>1. /\ i \in DOMAIN gpu /\ gpu[i].slot \in Ring
        /\ gpu[i].texture = texture[gpu[i].slot] /\ ~fence[gpu[i].slot]
    BY Queues DEF RingInv, CopiesPending
  <2>2. poller = "swapping" => PollJobs[index] \in Ring /\ PollJobs[index] # gpu[i].slot
    BY <2>1, Queues DEF RingInv, InCallback
  <2>3. QED
    BY <2>1, <2>2 DEF RingInv, NoneShared
<1>2. QED
  BY <1>1, RingInvariant, ImplementsCapture, PTL

-----------------------------------------------------------------------------
(* What is sent and what the server has of it. *)

\* Every texture that was sent, or is on its way to that, is another picture.
Presented ==
    Suffix + Len(PollJobs) + Len(JobsToAdd) + (IF render.at = "enqueueing" THEN 1 ELSE 0) <= frame

\* Only with Vulkan anything is in the socket or comes out of it.
OwnInterface ==
    IF RHIName = "Vulkan" THEN receiver.at = "reading"
    ELSE /\ wire = <<>> /\ TextureCaches = <<>> /\ LastTexture = 0
         /\ descriptors = [fd \in Fds |-> 0]

\* Textures arrive in the order in which they were sent: those in the socket are
\* newer than those that the server has, and older than those to come.
ArriveInOrder ==
    RHIName = "Vulkan" =>
        /\ shown <= published.number /\ published.number <= Suffix
        /\ \A i \in DOMAIN wire : published.number < wire[i] /\ wire[i] <= Suffix
        /\ \A i, j \in DOMAIN wire : i < j => wire[i] < wire[j]
        /\ \A fd \in Fds : descriptors[fd] <= published.number

\* A descriptor that can still be encoded names no texture or one that is not
\* older than the last one shown, and of the two that wait the second is not
\* older than the first. The number of a closed one may have been given to a
\* later texture, which is then the newest of all.
QueueInOrder ==
    /\ Len(TextureCaches) <= 2
    /\ \A i \in DOMAIN TextureCaches :
          LET named == descriptors[TextureCaches[i]] IN named = 0 \/ shown <= named
    /\ \A i, j \in DOMAIN TextureCaches :
          i < j => LET named == descriptors[TextureCaches[j]] IN
                   named = 0 \/ descriptors[TextureCaches[i]] <= named
    /\ TextureCaches = <<>> /\ LastTexture # 0 =>
          LET named == descriptors[LastTexture] IN named = 0 \/ shown <= named

HandlesInv ==
    HandlesTypeOK /\ Presented /\ OwnInterface /\ ArriveInOrder /\ QueueInOrder

-----------------------------------------------------------------------------
LEMMA InitHandles == Init => HandlesInv
<1>. SUFFICES ASSUME CaptureInit, HandlesInit PROVE HandlesInv
  BY DEF Init
<1>1. NoTexture \in Sendings /\ 0 \in Numbers
  BY CaptureAssumption DEF NoTexture, Sendings, Numbers
<1>2. HandlesTypeOK
  <2>1. caches \in Seq(Numbers) /\ wire \in Seq(Numbers) /\ TextureCaches \in Seq(Fds)
    BY EmptySeq DEF HandlesInit
  <2>2. QED
    BY <1>1, <2>1 DEF HandlesInit, HandlesTypeOK
<1>3. Presented
  <2>1. Suffix = 0 /\ frame = 0 /\ PollJobs = <<>> /\ JobsToAdd = <<>> /\ render.at # "enqueueing"
    BY DEF CaptureInit, HandlesInit
  <2>2. Len(PollJobs) = 0 /\ Len(JobsToAdd) = 0
    BY <2>1
  <2>3. QED
    BY <2>1, <2>2 DEF Presented
<1>4. OwnInterface /\ ArriveInOrder /\ QueueInOrder
  BY DEF HandlesInit, OwnInterface, ArriveInOrder, QueueInOrder, NoTexture
<1>5. QED
  BY <1>2, <1>3, <1>4 DEF HandlesInv

LEMMA Counts ==
    ASSUME RingInv, HandlesTypeOK
    PROVE  /\ Suffix \in Nat /\ frame \in Nat /\ frame <= MaxFrames /\ MaxFrames \in Nat
           /\ Len(PollJobs) \in Nat /\ Len(JobsToAdd) \in Nat
           /\ PollJobs \in Seq(Ring) /\ JobsToAdd \in Seq(Ring)
<1>1. CaptureTypeOK
  BY DEF RingInv
<1>2. frame \in 0 .. MaxFrames /\ PollJobs \in Seq(Ring) /\ JobsToAdd \in Seq(Ring)
  BY <1>1 DEF CaptureTypeOK
<1>3. Suffix \in 0 .. MaxFrames
  BY DEF HandlesTypeOK, Numbers
<1>4. QED
  BY <1>2, <1>3, CaptureAssumption, LenProperties

\* A picture is counted once, wherever its job is.
LEMMA CaptureKeepsPresented ==
    ASSUME RingInv, HandlesTypeOK, Presented, CaptureOnly, UNCHANGED handleVars
    PROVE  Presented'
<1>1. /\ Suffix' = Suffix /\ Suffix \in Nat /\ frame \in Nat
      /\ Len(PollJobs) \in Nat /\ Len(JobsToAdd) \in Nat
      /\ PollJobs \in Seq(Ring) /\ JobsToAdd \in Seq(Ring) /\ render \in [at : RenderPlaces, slot : Ring]
  BY Counts DEF RingInv, CaptureTypeOK, handleVars, senderVars
<1>2. CASE OnBackBufferReady_RenderThread
  <2>1. /\ render.at = "idle" /\ frame' = frame + 1 /\ PollJobs' = PollJobs /\ JobsToAdd' = JobsToAdd
    BY <1>2 DEF OnBackBufferReady_RenderThread, pollerVars, jobVars
  <2>2. QED
    BY <1>1, <2>1 DEF Presented
<1>3. CASE AddFenceJob
  <2>1. /\ render.at = "enqueueing" /\ render'.at = "triggering" /\ frame' = frame /\ PollJobs' = PollJobs
        /\ JobsToAdd' = Append(JobsToAdd, render.slot) /\ render.slot \in Ring
    BY <1>1, <1>3 DEF AddFenceJob, pollerVars
  <2>2. Len(JobsToAdd') = Len(JobsToAdd) + 1
    BY <1>1, <2>1, AppendProperties
  <2>3. QED
    BY <1>1, <2>1, <2>2 DEF Presented
<1>4. CASE AddNewJob
  <2>1. /\ render' = render /\ frame' = frame /\ JobsToAdd # <<>> /\ JobsToAdd' = Tail(JobsToAdd)
        /\ PollJobs' = Append(PollJobs, Head(JobsToAdd))
    BY <1>4 DEF AddNewJob, renderVars
  <2>2. Head(JobsToAdd) \in Ring /\ Len(JobsToAdd') = Len(JobsToAdd) - 1
    BY <1>1, <2>1, HeadTailProperties
  <2>3. Len(PollJobs') = Len(PollJobs) + 1
    BY <1>1, <2>1, <2>2, AppendProperties
  <2>4. QED
    BY <1>1, <2>1, <2>2, <2>3 DEF Presented
<1>5. CASE DropJob
  <2>1. /\ render' = render /\ frame' = frame /\ JobsToAdd' = JobsToAdd
        /\ PollJobs' = RemoveAt(PollJobs, index) /\ index > 0
    BY <1>5 DEF DropJob, renderVars, jobVars
  <2>2. index \in DOMAIN PollJobs
    BY <2>1, Queues DEF RingInv
  <2>3. Len(PollJobs') = Len(PollJobs) - 1
    BY <1>1, <2>1, <2>2, RemoveAtProperties
  <2>4. QED
    BY <1>1, <2>1, <2>3 DEF Presented
<1>6. CASE \/ TriggerJobAdded \/ GPUCopies \/ StartPoller \/ TestIsRunning \/ AllJobsAdded \/ PollJob
           \/ SwapTempBuffer \/ ReleaseSlot \/ EndOfPass \/ WakeUp \/ Destructor
  <2>1. /\ frame' = frame /\ PollJobs' = PollJobs /\ JobsToAdd' = JobsToAdd
        /\ render'.at = "enqueueing" => render.at = "enqueueing"
    <3>1. CASE TriggerJobAdded \/ Destructor \/ GPUCopies
      BY <1>1, <3>1 DEF TriggerJobAdded, Destructor, Disable, DestroyBuffers, StopPoller, GPUCopies,
         pollerVars, jobVars, renderVars
    <3>2. CASE \/ StartPoller \/ TestIsRunning \/ AllJobsAdded \/ PollJob \/ SwapTempBuffer
               \/ ReleaseSlot \/ EndOfPass \/ WakeUp
      BY <3>2 DEF StartPoller, TestIsRunning, AllJobsAdded, PollJob, SwapTempBuffer, ReleaseSlot,
         EndOfPass, WakeUp, jobVars, renderVars
    <3>3. QED
      BY <1>6, <3>1, <3>2
  <2>2. QED
    BY <1>1, <2>1 DEF Presented
<1>7. QED
  BY <1>2, <1>3, <1>4, <1>5, <1>6 DEF CaptureOnly, Poller

\* What the server has depends on the variables of the sending alone.
LEMMA HandlesUnchanged ==
    ASSUME HandlesInv, UNCHANGED handleVars
    PROVE  HandlesTypeOK' /\ OwnInterface' /\ ArriveInOrder' /\ QueueInOrder'
<1>1. UNCHANGED <<RHIName, Suffix, lastSent, caches, slot, receiver, published, listener, client, wire,
                  descriptors, ToCloseCaches, TextureCaches, LastTexture, shown>>
  BY DEF handleVars, senderVars, memoryVars, socketVars, serverVars
<1>2. HandlesTypeOK'
  BY <1>1 DEF HandlesInv, HandlesTypeOK
<1>3. OwnInterface' /\ ArriveInOrder' /\ QueueInOrder'
  BY <1>1 DEF HandlesInv, OwnInterface, ArriveInOrder, QueueInOrder
<1>4. QED
  BY <1>2, <1>3

\* The picture of a job that is done is sent, under the next number.
LEMMA SendKeepsHandles ==
    ASSUME RingInv, HandlesInv, Send
    PROVE  HandlesInv'
<1>. DEFINE n == Suffix + 1
            sending == [number |-> n, texture |-> TempBuffer]
<1>. USE DEF HandlesInv
<1>1. /\ frame' = frame /\ render' = render /\ JobsToAdd' = JobsToAdd
      /\ PollJobs' = RemoveAt(PollJobs, index) /\ index \in DOMAIN PollJobs
      /\ ReadBuffer' = TempBuffer
  BY Queues DEF Send, SendReadBuffer, RingInv, InCallback, renderVars, jobVars
<1>2. /\ frame \in Nat /\ frame <= MaxFrames /\ Len(JobsToAdd) \in Nat /\ Len(PollJobs) \in Nat \ {0}
      /\ Suffix \in Nat /\ TempBuffer \in Textures /\ MaxFrames \in Nat /\ PollJobs \in Seq(Ring)
  <2>1. TempBuffer \in Textures
    BY DEF RingInv, CaptureTypeOK
  <2>2. HandlesTypeOK /\ PollJobs # <<>>
    BY <1>1
  <2>3. QED
    BY <2>1, <2>2, Counts, EmptySeq
<1>3. Suffix' = n
  BY DEF Send, SendTextureHandleToShareMemory
<1>4. Presented' /\ n \in Numbers
  <2>1. Len(PollJobs') = Len(PollJobs) - 1
    BY <1>1, <1>2, RemoveAtProperties
  <2>2. Presented'
    BY <1>1, <1>2, <1>3, <2>1 DEF Presented
  <2>3. n <= frame
    BY <1>1, <1>2, <2>1 DEF Presented
  <2>4. QED
    BY <1>2, <2>2, <2>3 DEF Numbers
<1>5. sending \in Sendings
  BY <1>2, <1>4 DEF Sendings
<1>6. Cached(n) \in Seq(Numbers)
  <2>1. caches \in Seq(Numbers) /\ Len(caches) \in Nat
    BY LenProperties DEF HandlesTypeOK
  <2>2. Len(caches) >= MaxCache => Tail(caches) \in Seq(Numbers)
    <3>1. Len(caches) >= MaxCache => caches # <<>>
      BY HandlesAssumption
    <3>2. QED
      BY <2>1, <3>1, HeadTailProperties
  <2>3. QED
    BY <1>4, <2>1, <2>2, AppendProperties DEF Cached
<1>7. UNCHANGED <<RHIName, receiver, published, listener, client, descriptors, ToCloseCaches,
                  TextureCaches, LastTexture, shown>>
  BY DEF Send, serverVars
<1>8. /\ caches' \in {caches, Cached(n)} /\ slot' \in {slot, sending} /\ lastSent' \in {lastSent, sending}
      /\ wire' = wire \/ (RHIName = "Vulkan" /\ wire' = Append(wire, n))
  BY <1>1 DEF Send, SendTextureHandleToShareMemory, WriteD3D11
<1>9. /\ Len(wire) \in Nat /\ DOMAIN wire = 1 .. Len(wire) /\ wire \in Seq(Numbers)
      /\ \A i \in DOMAIN wire : wire[i] \in Nat
  <2>1. wire \in Seq(Numbers)
    BY DEF HandlesTypeOK
  <2>2. \A i \in DOMAIN wire : wire[i] \in Numbers
    BY <2>1, ElementOfSeq, LenProperties
  <2>3. QED
    BY <2>1, <2>2, LenProperties DEF Numbers
<1>10. wire' = Append(wire, n) => /\ wire' \in Seq(Numbers) /\ DOMAIN wire' = 1 .. Len(wire) + 1
                                  /\ \A i \in DOMAIN wire : wire'[i] = wire[i]
                                  /\ wire'[Len(wire) + 1] = n
  <2>. HIDE DEF n
  <2>1. QED
    BY <1>4, <1>9, AppendProperties, LenProperties
<1>11. HandlesTypeOK'
  BY <1>3, <1>4, <1>5, <1>6, <1>7, <1>8, <1>9, <1>10 DEF HandlesTypeOK
<1>12. OwnInterface'
  BY <1>7, <1>8 DEF OwnInterface
<1>13. ArriveInOrder'
  <2>. SUFFICES ASSUME RHIName = "Vulkan" PROVE ArriveInOrder'
    BY <1>7 DEF ArriveInOrder
  <2>1. published.number \in Nat
    BY DEF HandlesTypeOK, Sendings, Numbers
  <2>2. /\ shown <= published.number /\ published.number <= n
        /\ \A fd \in Fds : descriptors[fd] <= published.number
        /\ \A i \in DOMAIN wire : published.number < wire[i] /\ wire[i] < n
    BY <1>2, <1>9, <2>1 DEF ArriveInOrder
  <2>3. CASE wire' = wire
    BY <1>2, <1>3, <1>7, <1>9, <2>1, <2>2, <2>3 DEF ArriveInOrder
  <2>4. CASE wire' = Append(wire, n)
    <3>1. \A i \in DOMAIN wire' : published.number < wire'[i] /\ wire'[i] <= n
      <4>1. published.number < n
        BY <1>2, <2>1 DEF ArriveInOrder
      <4>2. QED
        BY <1>2, <1>9, <1>10, <2>1, <2>2, <2>4, <4>1
    <3>2. \A i, j \in DOMAIN wire' : i < j => wire'[i] < wire'[j]
      BY <1>2, <1>9, <1>10, <2>2, <2>4 DEF ArriveInOrder
    <3>3. QED
      BY <1>3, <1>7, <2>2, <3>1, <3>2 DEF ArriveInOrder
  <2>5. QED
    BY <1>8, <2>3, <2>4
<1>14. QueueInOrder'
  BY <1>7 DEF QueueInOrder
<1>15. QED
  BY <1>4, <1>11, <1>12, <1>13, <1>14

-----------------------------------------------------------------------------
\* Any set of numbers that has one has a least one: the strict subsets of a
\* finite set are well-founded, and n is the size of what lies below it.
LEMMA LeastNumber ==
    ASSUME NEW S, S \subseteq Nat, S # {}
    PROVE  \E n \in S : \A m \in S : n <= m
<1>. DEFINE upTo(n) == S \cap (0 .. n)
            R == StrictSubsetOrdering(Nat)
<1>1. \A n \in S : upTo(n) \in FiniteSubsetsOf(Nat)
  <2>1. ASSUME NEW n \in S PROVE IsFiniteSet(0 .. n)
    BY FS_Interval
  <2>2. ASSUME NEW n \in S PROVE IsFiniteSet(upTo(n))
    BY <2>1, FS_Intersection
  <2>3. QED
    BY <2>2 DEF FiniteSubsetsOf
<1>. DEFINE T == {upTo(n) : n \in S}
<1>2. IsWellFoundedOn(R, FiniteSubsetsOf(Nat))
  BY FS_StrictSubsetOrderingWellFounded
<1>3. PICK t \in T : \A u \in T : ~(<<u, t>> \in R)
  <2>. HIDE DEF upTo, R
  <2>1. T \subseteq FiniteSubsetsOf(Nat) /\ T # {}
    BY <1>1
  <2>. HIDE DEF T
  <2>2. QED
    BY <1>2, <2>1, WFMin, Zenon
<1>4. PICK n \in S : t = upTo(n)
  OBVIOUS
<1>5. ASSUME NEW m \in S, m < n PROVE FALSE
  <2>1. upTo(m) \subseteq upTo(n) /\ upTo(m) # upTo(n) /\ upTo(m) \in SUBSET Nat /\ upTo(n) \in SUBSET Nat
    BY <1>5
  <2>2. <<upTo(m), upTo(n)>> \in R
    <3>. HIDE DEF upTo
    <3>1. QED
      BY <2>1 DEF StrictSubsetOrdering
  <2>3. QED
    BY <1>3, <1>4, <2>2
<1>6. QED
  BY <1>5

LEMMA MinProperties == ASSUME NEW S, S \subseteq Nat, S # {} PROVE Min(S) \in S
<1>1. \E n \in S : \A m \in S : n <= m
  BY LeastNumber
<1>2. QED
  BY <1>1, Zenon DEF Min

\* The shared memory is read, and what was read published.
LEMMA ReadSlotKeepsHandles ==
    ASSUME HandlesInv, ReadSlot, UNCHANGED captureVars
    PROVE  HandlesInv'
<1>. USE DEF HandlesInv
<1>1. UNCHANGED <<RHIName, Suffix, lastSent, caches, slot, published, listener, client, wire, descriptors,
                  ToCloseCaches, TextureCaches, LastTexture, shown, PollJobs, JobsToAdd, render, frame>>
  BY DEF ReadSlot, senderVars, socketVars, serverVars, captureVars, pollerVars, jobVars, renderVars
<1>2. RHIName # "Vulkan" /\ receiver' = [receiver EXCEPT !.at = "opening", !.read = slot]
  BY DEF ReadSlot
<1>3. HandlesTypeOK'
  BY <1>1, <1>2 DEF HandlesTypeOK
<1>4. Presented' /\ OwnInterface' /\ ArriveInOrder' /\ QueueInOrder'
  BY <1>1, <1>2 DEF Presented, OwnInterface, ArriveInOrder, QueueInOrder
<1>5. QED
  BY <1>3, <1>4

LEMMA OpenKeepsHandles ==
    ASSUME HandlesInv, OpenAndPublish, UNCHANGED captureVars
    PROVE  HandlesInv'
<1>. USE DEF HandlesInv
<1>1. UNCHANGED <<RHIName, Suffix, lastSent, caches, slot, listener, client, wire, descriptors,
                  ToCloseCaches, TextureCaches, LastTexture, shown, PollJobs, JobsToAdd, render, frame>>
  BY DEF OpenAndPublish, senderVars, socketVars, serverVars, captureVars, pollerVars, jobVars, renderVars
<1>2. RHIName # "Vulkan"
  BY DEF OpenAndPublish, OwnInterface
<1>3. /\ published' \in {published, receiver.read, NoTexture}
      /\ \/ receiver' = [receiver EXCEPT !.at = "reading"]
         \/ receiver' = [receiver EXCEPT !.at = "reading", !.handle = receiver.read]
  BY DEF OpenAndPublish, HandlesTypeOK
<1>4. HandlesTypeOK'
  <2>1. NoTexture \in Sendings
    BY CaptureAssumption DEF NoTexture, Sendings, Numbers
  <2>2. receiver \in [at : {"reading", "opening"}, read : Sendings, handle : Sendings]
        /\ published \in Sendings
    BY DEF HandlesTypeOK
  <2>3. published' \in Sendings
        /\ receiver' \in [at : {"reading", "opening"}, read : Sendings, handle : Sendings]
    BY <1>3, <2>1, <2>2
  <2>4. QED
    BY <1>1, <2>3 DEF HandlesTypeOK
<1>5. Presented' /\ OwnInterface' /\ ArriveInOrder' /\ QueueInOrder'
  BY <1>1, <1>2 DEF Presented, OwnInterface, ArriveInOrder, QueueInOrder
<1>6. QED
  BY <1>4, <1>5

LEMMA ConnectingKeepsHandles ==
    ASSUME HandlesInv, Connecting, UNCHANGED captureVars
    PROVE  HandlesInv'
<1>. USE DEF HandlesInv
<1>1. UNCHANGED <<RHIName, Suffix, lastSent, caches, slot, receiver, published, wire, descriptors,
                  ToCloseCaches, TextureCaches, LastTexture, shown, PollJobs, JobsToAdd, render, frame>>
  BY DEF Connecting, Listen, Connect, Accept, senderVars, memoryVars, serverVars, captureVars, pollerVars,
     jobVars, renderVars
<1>2. /\ listener' \in {"starting", "listening", "elsewhere"}
      /\ client' \in {"starting", "connecting", "accepted", "failed"}
  BY DEF Connecting, Listen, Connect, Accept, HandlesTypeOK
<1>3. HandlesTypeOK'
  BY <1>1, <1>2 DEF HandlesTypeOK
<1>4. Presented' /\ OwnInterface' /\ ArriveInOrder' /\ QueueInOrder'
  BY <1>1 DEF Presented, OwnInterface, ArriveInOrder, QueueInOrder
<1>5. QED
  BY <1>3, <1>4

\* A descriptor that is closed names no texture any more.
LEMMA CloseAllKeepsHandles ==
    ASSUME HandlesInv, CloseAll, UNCHANGED captureVars
    PROVE  HandlesInv'
<1>. USE DEF HandlesInv
<1>1. UNCHANGED <<RHIName, Suffix, lastSent, caches, slot, receiver, published, listener, client, wire,
                  TextureCaches, LastTexture, shown, PollJobs, JobsToAdd, render, frame>>
  BY DEF CloseAll, senderVars, memoryVars, socketVars, captureVars, pollerVars, jobVars, renderVars
<1>2. /\ descriptors' \in [Fds -> Numbers] /\ ToCloseCaches' = {}
      /\ \A fd \in Fds : descriptors'[fd] \in {0, descriptors[fd]}
  <2>1. descriptors \in [Fds -> Numbers] /\ 0 \in Numbers
    BY CaptureAssumption DEF HandlesTypeOK, Numbers
  <2>2. QED
    BY <2>1 DEF CloseAll, CloseDescriptors
<1>3. HandlesTypeOK'
  BY <1>1, <1>2 DEF HandlesTypeOK
<1>4. Presented'
  BY <1>1 DEF Presented
<1>5. OwnInterface'
  <2>1. RHIName # "Vulkan" => descriptors' = [fd \in Fds |-> 0]
    BY <1>2 DEF OwnInterface
  <2>2. QED
    BY <1>1, <2>1 DEF OwnInterface
<1>6. published.number \in Nat /\ \A fd \in Fds : descriptors[fd] \in Nat
  BY DEF HandlesTypeOK, Sendings, Numbers
<1>7. ArriveInOrder'
  <2>1. RHIName = "Vulkan" => \A fd \in Fds : descriptors'[fd] <= published.number
    BY <1>2, <1>6 DEF ArriveInOrder
  <2>2. QED
    BY <1>1, <2>1 DEF ArriveInOrder
<1>8. QueueInOrder'
  <2>1. \A i \in DOMAIN TextureCaches : TextureCaches[i] \in Fds
    BY ElementOfSeq, LenProperties DEF HandlesTypeOK
  <2>2. \A i, j \in DOMAIN TextureCaches :
            i < j => \/ descriptors'[TextureCaches[j]] = 0
                     \/ descriptors'[TextureCaches[i]] <= descriptors'[TextureCaches[j]]
    BY <1>2, <1>6, <2>1 DEF QueueInOrder
  <2>3. QED
    BY <1>1, <1>2, <2>1, <2>2 DEF QueueInOrder, HandlesTypeOK
<1>9. QED
  BY <1>3, <1>4, <1>5, <1>7, <1>8

\* The texture that arrives is newer than every other, and only one waits
\* before it.
LEMMA ReceiveKeepsHandles ==
    ASSUME HandlesInv, ReceiveDescriptor, UNCHANGED captureVars
    PROVE  HandlesInv'
<1>. DEFINE fd == Min({f \in Fds : descriptors[f] = 0})
            n == Head(wire)
            kept == IF Len(TextureCaches) >= MaxQueue THEN Tail(TextureCaches) ELSE TextureCaches
<1>. USE DEF HandlesInv
<1>1. UNCHANGED <<RHIName, Suffix, lastSent, caches, slot, receiver, listener, client,
                  LastTexture, shown, PollJobs, JobsToAdd, render, frame>>
  BY DEF ReceiveDescriptor, senderVars, memoryVars, captureVars, pollerVars, jobVars, renderVars
<1>2. /\ wire # <<>> /\ wire' = Tail(wire) /\ published' = [number |-> n, texture |-> -1]
      /\ descriptors' = [descriptors EXCEPT ![fd] = n] /\ ToCloseCaches' = ToCloseCaches \cup {fd}
      /\ TextureCaches' = Append(kept, fd)
  BY DEF ReceiveDescriptor, Noted
<1>3. fd \in Fds
  <2>. DEFINE free == {f \in Fds : descriptors[f] = 0}
  <2>1. free # {}
    BY DEF ReceiveDescriptor
  <2>2. free \subseteq Nat
    BY DEF Fds
  <2>3. Min(free) \in free
    <3>. HIDE DEF free
    <3>1. QED
      BY <2>1, <2>2, MinProperties
  <2>4. QED
    BY <2>3
<1>. HIDE DEF fd
<1>4. /\ descriptors \in [Fds -> Numbers] /\ published.number \in Nat /\ shown \in Nat
      /\ wire \in Seq(Numbers) /\ TextureCaches \in Seq(Fds) /\ Suffix \in Nat
  BY DEF HandlesTypeOK, Sendings, Numbers
<1>5. /\ n = wire[1] /\ n \in Numbers /\ 1 \in DOMAIN wire
      /\ DOMAIN wire' = 1 .. Len(wire) - 1 /\ wire' \in Seq(Numbers) /\ Len(wire) \in Nat
      /\ \A i \in 1 .. Len(wire) - 1 : wire'[i] = wire[i + 1] /\ i + 1 \in DOMAIN wire
      /\ \A i \in DOMAIN wire : wire[i] \in Numbers
  BY <1>2, <1>4, HeadTailProperties, LenProperties, ElementOfSeq
<1>6. RHIName = "Vulkan" /\ receiver.at = "reading"
  BY <1>2 DEF OwnInterface
<1>7. /\ published.number < n /\ n <= Suffix /\ shown <= n /\ n \in Nat
      /\ \A f \in Fds : descriptors[f] <= n /\ descriptors[f] \in Nat
  <2>1. published.number < n /\ n <= Suffix /\ n \in Nat
    BY <1>5, <1>6 DEF ArriveInOrder, Numbers
  <2>2. shown <= published.number /\ \A f \in Fds : descriptors[f] <= published.number
    BY <1>6 DEF ArriveInOrder
  <2>3. \A f \in Fds : descriptors[f] \in Nat
    BY <1>4 DEF Numbers
  <2>4. QED
    BY <1>4, <2>1, <2>2, <2>3
<1>8. /\ kept \in Seq(Fds) /\ Len(kept) \in 0 .. 1
      /\ \A i \in DOMAIN kept : \E j \in DOMAIN TextureCaches : kept[i] = TextureCaches[j]
  <2>1. Len(TextureCaches) \in Nat /\ Len(TextureCaches) <= 2
        /\ DOMAIN TextureCaches = 1 .. Len(TextureCaches)
    BY <1>4, LenProperties DEF QueueInOrder
  <2>2. CASE Len(TextureCaches) >= MaxQueue
    <3>1. TextureCaches # <<>> /\ kept = Tail(TextureCaches)
      BY <2>2, HandlesAssumption
    <3>2. /\ kept \in Seq(Fds) /\ Len(kept) = Len(TextureCaches) - 1
          /\ \A i \in 1 .. Len(TextureCaches) - 1 : kept[i] = TextureCaches[i + 1]
      BY <1>4, <3>1, HeadTailProperties
    <3>3. DOMAIN kept = 1 .. Len(TextureCaches) - 1
      BY <3>2, LenProperties
    <3>4. Len(TextureCaches) # 0
      BY <1>4, <3>1, EmptySeq
    <3>. HIDE DEF kept
    <3>5. QED
      BY <2>1, <3>2, <3>3, <3>4
  <2>3. CASE ~(Len(TextureCaches) >= MaxQueue)
    BY <1>4, <2>1, <2>3, HandlesAssumption
  <2>4. QED
    BY <2>2, <2>3
<1>. HIDE DEF kept, n
<1>9. /\ TextureCaches' \in Seq(Fds) /\ DOMAIN TextureCaches' = 1 .. Len(kept) + 1
      /\ Len(TextureCaches') = Len(kept) + 1
      /\ DOMAIN kept = 1 .. Len(kept)
      /\ \A i \in 1 .. Len(kept) : TextureCaches'[i] = kept[i]
      /\ TextureCaches'[Len(kept) + 1] = fd
  BY <1>2, <1>3, <1>8, AppendProperties, LenProperties
<1>10. HandlesTypeOK'
  <2>1. published' \in Sendings
    BY <1>2, <1>5 DEF Sendings
  <2>2. descriptors' \in [Fds -> Numbers] /\ ToCloseCaches' \subseteq Fds
    BY <1>2, <1>3, <1>4, <1>5 DEF HandlesTypeOK
  <2>3. QED
    BY <1>1, <1>5, <1>9, <2>1, <2>2 DEF HandlesTypeOK
<1>11. Presented' /\ OwnInterface'
  BY <1>1, <1>6 DEF Presented, OwnInterface
<1>12. ArriveInOrder'
  <2>1. \A i \in DOMAIN wire' : n < wire'[i] /\ wire'[i] <= Suffix
    BY <1>5, <1>6 DEF ArriveInOrder
  <2>2. \A i, j \in DOMAIN wire' : i < j => wire'[i] < wire'[j]
    BY <1>5, <1>6 DEF ArriveInOrder
  <2>3. \A f \in Fds : descriptors'[f] <= n
    BY <1>2, <1>4, <1>7
  <2>4. published'.number = n
    BY <1>2
  <2>5. QED
    BY <1>1, <1>7, <2>1, <2>2, <2>3, <2>4 DEF ArriveInOrder
<1>13. QueueInOrder'
  <2>1. descriptors'[fd] = n /\ \A f \in Fds : descriptors'[f] <= n
    BY <1>2, <1>3, <1>4, <1>7
  <2>2. \A i \in DOMAIN kept : \/ descriptors'[kept[i]] = 0
                              \/ shown <= descriptors'[kept[i]]
    <3>. TAKE i \in DOMAIN kept
    <3>1. PICK j \in DOMAIN TextureCaches : kept[i] = TextureCaches[j]
      BY <1>8
    <3>2. descriptors[kept[i]] = 0 \/ shown <= descriptors[kept[i]]
      BY <3>1 DEF QueueInOrder
    <3>3. kept[i] \in Fds
      BY <1>8, ElementOfSeq, LenProperties
    <3>4. QED
      BY <1>2, <1>4, <1>7, <2>1, <3>2, <3>3
  <2>3. \A i \in DOMAIN kept : kept[i] \in Fds
    BY <1>8, ElementOfSeq, LenProperties
  <2>4. TextureCaches' # <<>>
    BY <1>8, <1>9, EmptySeq
  <2>5. \A i \in DOMAIN TextureCaches' : \/ descriptors'[TextureCaches'[i]] = 0
                                        \/ shown <= descriptors'[TextureCaches'[i]]
    BY <1>7, <1>8, <1>9, <2>1, <2>2
  <2>6. \A i, j \in DOMAIN TextureCaches' :
            i < j => descriptors'[TextureCaches'[i]] <= descriptors'[TextureCaches'[j]]
    BY <1>8, <1>9, <2>1, <2>3
  <2>7. QED
    BY <1>1, <1>8, <1>9, <2>4, <2>5, <2>6 DEF QueueInOrder
<1>14. QED
  BY <1>10, <1>11, <1>12, <1>13

\* Importing a descriptor closes it.
LEMMA ConvertProperties ==
    ASSUME HandlesInv, NEW fd \in Fds, Convert(fd)
    PROVE  /\ descriptors' \in [Fds -> Numbers] /\ shown' \in Numbers
           /\ \A f \in Fds : descriptors'[f] \in {0, descriptors[f]}
           /\ \/ descriptors' = descriptors /\ shown' = shown
              \/ descriptors[fd] # 0 /\ shown' = descriptors[fd] /\ descriptors'[fd] = 0
<1>1. descriptors \in [Fds -> Numbers] /\ shown \in Numbers /\ 0 \in Numbers
  BY CaptureAssumption DEF HandlesInv, HandlesTypeOK, Numbers
<1>2. QED
  BY <1>1 DEF Convert

\* The descriptors are older than what is published, before and after.
LEMMA ConvertKeepsOrder ==
    ASSUME HandlesInv, NEW fd \in Fds, Convert(fd), RHIName = "Vulkan",
           UNCHANGED <<RHIName, Suffix, published, wire>>
    PROVE  ArriveInOrder'
<1>1. /\ published.number \in Nat /\ \A f \in Fds : descriptors[f] \in Nat
  BY DEF HandlesInv, HandlesTypeOK, Sendings, Numbers
<1>2. \A f \in Fds : descriptors[f] <= published.number
  BY DEF HandlesInv, ArriveInOrder
<1>3. \A f \in Fds : descriptors'[f] <= published.number
  BY <1>1, <1>2, ConvertProperties
<1>4. shown' <= published.number
  BY <1>2, ConvertProperties DEF HandlesInv, ArriveInOrder
<1>5. QED
  BY <1>3, <1>4 DEF HandlesInv, ArriveInOrder

\* The second of the two in the queue is not older than the first.
LEMMA EncodeNextKeepsHandles ==
    ASSUME HandlesInv, EncodeNext, UNCHANGED captureVars
    PROVE  HandlesInv' /\ shown' >= shown
<1>. DEFINE fd == Head(TextureCaches)
<1>. USE DEF HandlesInv
<1>1. UNCHANGED <<RHIName, Suffix, lastSent, caches, slot, receiver, published, listener, client, wire,
                  ToCloseCaches, PollJobs, JobsToAdd, render, frame>>
  BY DEF EncodeNext, senderVars, memoryVars, socketVars, captureVars, pollerVars, jobVars, renderVars
<1>2. /\ TextureCaches # <<>> /\ TextureCaches' = Tail(TextureCaches) /\ LastTexture' = fd
      /\ Convert(fd) /\ RHIName = "Vulkan"
  BY DEF EncodeNext, Convert
<1>3. /\ TextureCaches \in Seq(Fds) /\ shown \in Nat /\ \A f \in Fds : descriptors[f] \in Nat
  BY DEF HandlesTypeOK, Numbers
<1>4. /\ fd = TextureCaches[1] /\ fd \in Fds /\ DOMAIN TextureCaches = 1 .. Len(TextureCaches)
      /\ Len(TextureCaches) \in 1 .. 2
      /\ TextureCaches' \in Seq(Fds) /\ Len(TextureCaches') = Len(TextureCaches) - 1
      /\ DOMAIN TextureCaches' = 1 .. Len(TextureCaches) - 1
      /\ \A i \in 1 .. Len(TextureCaches) - 1 : TextureCaches'[i] = TextureCaches[i + 1]
      /\ \A i \in DOMAIN TextureCaches : TextureCaches[i] \in Fds
  <2>1. Len(TextureCaches) \in Nat /\ Len(TextureCaches) # 0
    BY <1>2, <1>3, LenProperties, EmptySeq
  <2>2. /\ TextureCaches' \in Seq(Fds) /\ Len(TextureCaches') = Len(TextureCaches) - 1
        /\ \A i \in 1 .. Len(TextureCaches) - 1 : TextureCaches'[i] = TextureCaches[i + 1]
        /\ fd = TextureCaches[1] /\ fd \in Fds
    BY <1>2, <1>3, HeadTailProperties
  <2>3. /\ \A i \in DOMAIN TextureCaches : TextureCaches[i] \in Fds
        /\ DOMAIN TextureCaches' = 1 .. Len(TextureCaches')
        /\ DOMAIN TextureCaches = 1 .. Len(TextureCaches)
    BY <1>3, <2>2, LenProperties, ElementOfSeq
  <2>4. Len(TextureCaches) <= 2
    BY DEF QueueInOrder
  <2>5. QED
    BY <2>1, <2>2, <2>3, <2>4
<1>5. descriptors[fd] = 0 \/ shown <= descriptors[fd]
  BY <1>4 DEF QueueInOrder
<1>6. shown' >= shown
  BY <1>2, <1>3, <1>4, <1>5, ConvertProperties
<1>. HIDE DEF fd
<1>7. HandlesTypeOK'
  BY <1>1, <1>2, <1>4, ConvertProperties DEF HandlesTypeOK
<1>8. Presented' /\ OwnInterface'
  BY <1>1, <1>2 DEF Presented, OwnInterface
<1>9. ArriveInOrder'
  BY <1>1, <1>2, <1>4, ConvertKeepsOrder
<1>10. QueueInOrder'
  <2>1. \A i \in DOMAIN TextureCaches' : \/ descriptors'[TextureCaches'[i]] = 0
                                        \/ shown' <= descriptors'[TextureCaches'[i]]
    <3>. TAKE i \in DOMAIN TextureCaches'
    <3>1. /\ i = 1 /\ 2 \in DOMAIN TextureCaches /\ TextureCaches'[i] = TextureCaches[2]
          /\ 1 \in DOMAIN TextureCaches /\ TextureCaches[2] \in Fds
      BY <1>4
    <3>2. /\ descriptors[TextureCaches[2]] = 0 \/ shown <= descriptors[TextureCaches[2]]
          /\ \/ descriptors[TextureCaches[2]] = 0
             \/ descriptors[fd] <= descriptors[TextureCaches[2]]
      BY <1>4, <3>1 DEF QueueInOrder
    <3>3. QED
      BY <1>2, <1>3, <1>4, <3>1, <3>2, ConvertProperties
  <2>2. \A i, j \in DOMAIN TextureCaches' : ~(i < j)
    BY <1>4
  <2>3. descriptors'[fd] = 0 \/ shown' <= descriptors'[fd]
    BY <1>2, <1>4, <1>5, ConvertProperties
  <2>4. QED
    BY <1>2, <1>4, <2>1, <2>2, <2>3 DEF QueueInOrder
<1>11. QED
  BY <1>6, <1>7, <1>8, <1>9, <1>10

\* The texture encoded last comes again only if it was not encoded then.
LEMMA EncodeAgainKeepsHandles ==
    ASSUME HandlesInv, EncodeAgain, UNCHANGED captureVars
    PROVE  HandlesInv' /\ shown' >= shown
<1>. USE DEF HandlesInv
<1>1. UNCHANGED <<RHIName, Suffix, lastSent, caches, slot, receiver, published, listener, client, wire,
                  ToCloseCaches, TextureCaches, LastTexture, PollJobs, JobsToAdd, render, frame>>
  BY DEF EncodeAgain, senderVars, memoryVars, socketVars, captureVars, pollerVars, jobVars, renderVars
<1>2. /\ TextureCaches = <<>> /\ LastTexture \in Fds /\ LastTexture # 0 /\ Convert(LastTexture)
      /\ RHIName = "Vulkan"
  BY DEF EncodeAgain, HandlesTypeOK, OwnInterface
<1>3. shown \in Nat /\ \A f \in Fds : descriptors[f] \in Nat
  BY DEF HandlesTypeOK, Numbers
<1>4. descriptors[LastTexture] = 0 \/ shown <= descriptors[LastTexture]
  BY <1>2 DEF QueueInOrder
<1>5. shown' >= shown
  BY <1>2, <1>3, <1>4, ConvertProperties
<1>6. HandlesTypeOK'
  BY <1>1, <1>2, ConvertProperties DEF HandlesTypeOK
<1>7. Presented' /\ OwnInterface'
  BY <1>1, <1>2 DEF Presented, OwnInterface
<1>8. ArriveInOrder'
  BY <1>1, <1>2, ConvertKeepsOrder
<1>9. QueueInOrder'
  <2>1. descriptors'[LastTexture] = 0 \/ shown' <= descriptors'[LastTexture]
    BY <1>2, <1>4, ConvertProperties
  <2>2. DOMAIN TextureCaches' = {} /\ Len(TextureCaches') = 0
    BY <1>1, <1>2
  <2>3. QED
    BY <1>1, <2>1, <2>2 DEF QueueInOrder
<1>10. QED
  BY <1>5, <1>6, <1>7, <1>8, <1>9

-----------------------------------------------------------------------------
LEMMA HandlesStep == RingInv /\ HandlesInv /\ [Next]_vars => HandlesInv' /\ shown' >= shown
<1>. SUFFICES ASSUME RingInv, HandlesInv, [Next]_vars PROVE HandlesInv' /\ shown' >= shown
  OBVIOUS
<1>0. shown \in Nat
  BY DEF HandlesInv, HandlesTypeOK, Numbers
<1>. SUFFICES HandlesInv' /\ (shown' = shown \/ shown' >= shown)
  BY <1>0
<1>1. CASE CaptureOnly /\ UNCHANGED handleVars
  BY <1>1, CaptureKeepsPresented, HandlesUnchanged DEF HandlesInv, handleVars, serverVars
<1>2. CASE Send
  BY <1>2, SendKeepsHandles DEF Send, serverVars
<1>3. CASE Connecting /\ UNCHANGED captureVars
  BY <1>3, ConnectingKeepsHandles DEF Connecting, Listen, Connect, Accept, serverVars
<1>4. CASE (ReadSlot \/ OpenAndPublish) /\ UNCHANGED captureVars
  BY <1>4, ReadSlotKeepsHandles, OpenKeepsHandles DEF ReadSlot, OpenAndPublish, serverVars
<1>5. CASE (CloseAll \/ ReceiveDescriptor) /\ UNCHANGED captureVars
  BY <1>5, CloseAllKeepsHandles, ReceiveKeepsHandles DEF CloseAll, ReceiveDescriptor
<1>6. CASE (EncodeNext \/ EncodeAgain) /\ UNCHANGED captureVars
  BY <1>6, EncodeNextKeepsHandles, EncodeAgainKeepsHandles
<1>7. CASE UNCHANGED vars
  <2>1. UNCHANGED <<frame, render, JobsToAdd, PollJobs, Suffix>> /\ UNCHANGED handleVars
    BY <1>7 DEF vars, captureVars, renderVars, jobVars, pollerVars, handleVars, senderVars
  <2>2. Presented'
    BY <2>1 DEF HandlesInv, Presented
  <2>3. QED
    BY <2>1, <2>2, HandlesUnchanged DEF HandlesInv, handleVars, serverVars
<1>8. QED
  BY <1>1, <1>2, <1>3, <1>4, <1>5, <1>6, <1>7 DEF Next, Receiving

\* The types of the handles, and the order in which textures come to the server.
THEOREM HandlesInvariant == Spec => []HandlesInv
<1>1. Spec => []RingInv
  BY RingInvariant, ImplementsCapture, PTL
<1>2. QED
  BY <1>1, InitHandles, HandlesStep, PTL DEF Spec

\* The encoder never goes back to the picture of an earlier texture.
THEOREM NeverGoesBackToOlder == Spec => NeverShowsOlder
<1>1. Spec => []RingInv
  BY RingInvariant, ImplementsCapture, PTL
<1>2. QED
  BY <1>1, HandlesInvariant, HandlesStep, PTL DEF Spec, NeverShowsOlder

-----------------------------------------------------------------------------
(* How many handles are open. *)

\* Every descriptor that is open is noted to be closed.
HandlesNoted ==
    /\ Len(caches) <= MaxCache
    /\ IsFiniteSet(ToCloseCaches) /\ Cardinality(ToCloseCaches) <= CloseLimit
    /\ \A fd \in Fds : descriptors[fd] # 0 => fd \in ToCloseCaches

LEMMA InitNoted == Init => HandlesNoted
<1>. SUFFICES ASSUME HandlesInit PROVE HandlesNoted
  BY DEF Init
<1>1. Len(caches) = 0 /\ Len(caches) <= MaxCache
  BY HandlesAssumption DEF HandlesInit
<1>2. ToCloseCaches = {} /\ \A fd \in Fds : descriptors[fd] = 0
  BY DEF HandlesInit
<1>3. IsFiniteSet(ToCloseCaches) /\ Cardinality(ToCloseCaches) = 0
  BY <1>2, FS_EmptySet
<1>4. QED
  BY <1>1, <1>2, <1>3, HandlesAssumption DEF HandlesNoted

LEMMA CachedBounded ==
    ASSUME HandlesTypeOK, Len(caches) <= MaxCache, NEW n \in Numbers
    PROVE  Len(Cached(n)) <= MaxCache
<1>1. caches \in Seq(Numbers) /\ Len(caches) \in Nat /\ MaxCache \in Nat \ {0}
  BY LenProperties, HandlesAssumption DEF HandlesTypeOK
<1>2. CASE Len(caches) >= MaxCache
  <2>1. caches # <<>>
    BY <1>1, <1>2
  <2>2. Tail(caches) \in Seq(Numbers) /\ Len(Tail(caches)) = Len(caches) - 1
    BY <1>1, <2>1, HeadTailProperties
  <2>3. Cached(n) = Append(Tail(caches), n)
    BY <1>2 DEF Cached
  <2>4. Len(Cached(n)) = Len(caches)
    BY <1>1, <2>2, <2>3, AppendProperties
  <2>5. QED
    BY <2>4
<1>3. CASE ~(Len(caches) >= MaxCache)
  <2>1. Len(Cached(n)) = Len(caches) + 1
    BY <1>1, <1>3, AppendProperties DEF Cached
  <2>2. QED
    BY <1>1, <1>3, <2>1
<1>4. QED
  BY <1>2, <1>3

LEMMA NotedStep ==
    HandlesInv /\ HandlesInv' /\ HandlesNoted /\ [Next]_vars => HandlesNoted'
<1>. SUFFICES ASSUME HandlesInv, HandlesInv', HandlesNoted, [Next]_vars PROVE HandlesNoted'
  OBVIOUS
<1>. USE DEF HandlesInv
<1>1. descriptors \in [Fds -> Numbers] /\ MaxCache \in Nat /\ CloseLimit \in Nat \ {0}
  BY HandlesAssumption DEF HandlesTypeOK
<1>2. CASE UNCHANGED <<caches, descriptors, ToCloseCaches>>
  BY <1>2 DEF HandlesNoted
<1>3. CASE Send
  <2>1. UNCHANGED <<descriptors, ToCloseCaches>>
    BY <1>3 DEF Send, serverVars
  <2>2. Suffix' = Suffix + 1 /\ Suffix' \in Numbers
    BY <1>3 DEF Send, SendTextureHandleToShareMemory, HandlesTypeOK
  <2>3. caches' \in {caches, Cached(Suffix')}
    BY <1>3, <2>2 DEF Send, SendTextureHandleToShareMemory
  <2>4. Len(caches') <= MaxCache
    BY <2>2, <2>3, CachedBounded DEF HandlesNoted
  <2>5. QED
    BY <2>1, <2>4 DEF HandlesNoted
<1>4. CASE CloseAll
  <2>1. caches' = caches /\ ToCloseCaches' = {}
    BY <1>4 DEF CloseAll, CloseDescriptors, senderVars
  <2>2. \A fd \in Fds : descriptors'[fd] = 0
    BY <1>4 DEF CloseAll, CloseDescriptors, HandlesNoted
  <2>3. QED
    BY <1>1, <2>1, <2>2, FS_EmptySet DEF HandlesNoted
<1>5. CASE ReceiveDescriptor
  <2>. DEFINE fd == Min({f \in Fds : descriptors[f] = 0})
  <2>1. /\ caches' = caches /\ ToCloseCaches' = ToCloseCaches \cup {fd}
        /\ descriptors' = [descriptors EXCEPT ![fd] = Head(wire)]
        /\ Cardinality(ToCloseCaches) < CloseLimit
    BY <1>5 DEF ReceiveDescriptor, Noted, senderVars
  <2>. HIDE DEF fd
  <2>2. /\ IsFiniteSet(ToCloseCaches') /\ Cardinality(ToCloseCaches) \in Nat
        /\ Cardinality(ToCloseCaches') \in {Cardinality(ToCloseCaches), Cardinality(ToCloseCaches) + 1}
    BY <2>1, FS_AddElement, FS_CardinalityType DEF HandlesNoted
  <2>3. Cardinality(ToCloseCaches') <= CloseLimit
    BY <1>1, <2>1, <2>2
  <2>4. \A f \in Fds : descriptors'[f] # 0 => f \in ToCloseCaches'
    BY <1>1, <2>1 DEF HandlesNoted
  <2>5. QED
    BY <2>1, <2>2, <2>3, <2>4 DEF HandlesNoted
<1>6. CASE EncodeNext \/ EncodeAgain
  <2>1. UNCHANGED <<caches, ToCloseCaches>>
    BY <1>6 DEF EncodeNext, EncodeAgain, senderVars
  <2>2. PICK fd : Convert(fd)
    BY <1>6 DEF EncodeNext, EncodeAgain
  <2>3. \A f \in Fds : descriptors'[f] # 0 => descriptors[f] # 0
    BY <1>1, <2>2 DEF Convert
  <2>4. QED
    BY <2>1, <2>3 DEF HandlesNoted
<1>7. QED
  <2>1. CASE CaptureOnly /\ UNCHANGED handleVars
    BY <1>2, <2>1 DEF handleVars, senderVars, serverVars
  <2>2. CASE ReadSlot \/ OpenAndPublish \/ Connecting
    BY <1>2, <2>2 DEF ReadSlot, OpenAndPublish, Connecting, Listen, Connect, Accept, senderVars, serverVars
  <2>3. CASE UNCHANGED vars
    BY <1>2, <2>3 DEF vars, handleVars, senderVars, serverVars
  <2>4. QED
    BY <1>3, <1>4, <1>5, <1>6, <2>1, <2>2, <2>3 DEF Next, Receiving

\* The handles that are open are bounded on both sides.
THEOREM HandlesStayBounded == Spec => []HandlesBounded
<1>1. HandlesNoted => HandlesBounded
  <2>. DEFINE open == {fd \in Fds : descriptors[fd] # 0}
  <2>. SUFFICES ASSUME HandlesNoted PROVE Cardinality(open) <= CloseLimit
    BY DEF HandlesNoted, HandlesBounded
  <2>1. open \subseteq ToCloseCaches
    BY DEF HandlesNoted
  <2>2. IsFiniteSet(ToCloseCaches) /\ Cardinality(ToCloseCaches) <= CloseLimit
    BY DEF HandlesNoted
  <2>. HIDE DEF open
  <2>3. /\ IsFiniteSet(open) /\ Cardinality(open) <= Cardinality(ToCloseCaches)
        /\ Cardinality(ToCloseCaches) \in Nat
    BY <2>1, <2>2, FS_Subset, FS_CardinalityType
  <2>4. Cardinality(open) \in Nat /\ CloseLimit \in Nat
    BY <2>3, FS_CardinalityType, HandlesAssumption
  <2>5. QED
    BY <2>2, <2>3, <2>4
<1>2. QED
  BY <1>1, HandlesInvariant, InitNoted, NotedStep, PTL DEF Spec
=============================================================================
