------------------------ MODULE VideoDelivery_proofs ------------------------
(***************************************************************************)
(* Proofs about VideoPump and VideoDelivery, for any number of textures,   *)
(* players and tasks: first the textures and the pump alone, then the      *)
(* sessions, which implement what VideoPump assumes of them.               *)
(***************************************************************************)
EXTENDS VideoDelivery, TLAPS, FiniteSetTheorems, FunctionTheorems, SequenceTheorems

\* The number of the texture that was enqueued last.
Enqueued == IF receiver = "idle" THEN newest ELSE newest - 1

\* The caches hold the textures enqueued last, in order and without a gap, and
\* the pump has read an older one.
Contiguous ==
    /\ \A i \in DOMAIN TextureCaches : TextureCaches[i] = Enqueued - Len(TextureCaches) + i
    /\ Len(TextureCaches) <= Enqueued
    /\ LastTexture <= Enqueued - Len(TextureCaches)

\* There is room for the texture about to be enqueued.
RoomMade == receiver = "enqueueing" => Len(TextureCaches) <= 1

\* Textures missing since the receiver counted two were taken by the pump.
TakenMeanwhile ==
    receiver = "dropping" =>
        /\ Enqueued >= 2
        /\ Len(TextureCaches) < 2 => LastTexture = Enqueued - Len(TextureCaches)

\* When the caches are empty, the pump has read the last or the last but one,
\* and never nothing if there was something to read.
NothingMissed ==
    TextureCaches = <<>> =>
        /\ LastTexture >= Enqueued - 1
        /\ Enqueued >= 1 => LastTexture >= 1

\* The source is available only once a texture has been received.
AvailableOnceReceived == bInitialized \/ receiver # "idle" => newest >= 1

PumpsWhenAvailable == pump = "pumping" => bInitialized

Inv == /\ TypeOK /\ CachesBounded /\ Contiguous /\ RoomMade /\ TakenMeanwhile
       /\ NothingMissed /\ AvailableOnceReceived /\ PumpsWhenAvailable

-----------------------------------------------------------------------------
LEMMA TailFacts ==
    ASSUME NEW S, NEW s \in Seq(S), s # <<>>
    PROVE  /\ Tail(s) \in Seq(S) /\ Len(Tail(s)) = Len(s) - 1 /\ Len(s) \in Nat \ {0}
           /\ Head(s) \in S /\ Head(s) = s[1]
           /\ \A i \in DOMAIN Tail(s) : i \in Nat /\ Tail(s)[i] = s[i + 1] /\ i + 1 \in DOMAIN s
  OBVIOUS

LEMMA AppendFacts ==
    ASSUME NEW S, NEW s \in Seq(S), NEW t \in S
    PROVE  /\ Append(s, t) \in Seq(S) /\ Len(Append(s, t)) = Len(s) + 1 /\ Len(s) \in Nat
           /\ Append(s, t) # <<>>
           /\ \A i \in DOMAIN Append(s, t) :
                 /\ i \in Nat
                 /\ \/ i \in DOMAIN s /\ Append(s, t)[i] = s[i]
                    \/ i = Len(s) + 1 /\ Append(s, t)[i] = t
  OBVIOUS

LEMMA EmptyFacts ==
    ASSUME NEW S, NEW s \in Seq(S)
    PROVE  Len(s) \in Nat /\ (s = <<>> <=> Len(s) = 0)
  OBVIOUS

\* The integers among the variables.
LEMMA Numbers ==
    ASSUME TypeOK
    PROVE  /\ newest \in Nat /\ LastTexture \in Nat /\ Len(TextureCaches) \in Nat
           /\ Enqueued \in Int /\ MaxTextures \in Nat
           /\ TextureCaches = <<>> <=> Len(TextureCaches) = 0
  BY PumpAssumption, EmptyFacts DEF TypeOK, Textures, NullTexture, Enqueued

\* GetTexture, with the caches as the invariant describes them.
LEMMA GetTextureGives ==
    ASSUME Inv, GetTexture
    PROVE  /\ TextureCaches' \in Seq(Textures) /\ LastTexture' \in Textures \cup {NullTexture}
           /\ TextureCaches = <<>> =>
                 TextureCaches' = TextureCaches /\ LastTexture' = LastTexture
           /\ TextureCaches # <<>> =>
                 /\ Len(TextureCaches') = Len(TextureCaches) - 1
                 /\ LastTexture' = Enqueued - Len(TextureCaches) + 1
                 /\ \A i \in DOMAIN TextureCaches' :
                       TextureCaches'[i] = Enqueued - Len(TextureCaches) + i + 1
  <1>1. CASE TextureCaches = <<>>
    BY <1>1 DEF GetTexture, Inv, TypeOK
  <1>2. CASE TextureCaches # <<>>
    <2>1. TextureCaches \in Seq(Textures)
      BY DEF Inv, TypeOK
    <2>2. LastTexture' = Head(TextureCaches) /\ TextureCaches' = Tail(TextureCaches)
      BY <1>2 DEF GetTexture
    <2>3. /\ Head(TextureCaches) = TextureCaches[1] /\ 1 \in DOMAIN TextureCaches
          /\ Head(TextureCaches) \in Textures
      BY <1>2, <2>1
    <2>4. /\ Tail(TextureCaches) \in Seq(Textures)
          /\ Len(Tail(TextureCaches)) = Len(TextureCaches) - 1
          /\ \A i \in DOMAIN Tail(TextureCaches) :
                /\ i \in Nat /\ i + 1 \in DOMAIN TextureCaches
                /\ Tail(TextureCaches)[i] = TextureCaches[i + 1]
      BY <1>2, <2>1, TailFacts
    <2>5. \A i \in DOMAIN TextureCaches : TextureCaches[i] = Enqueued - Len(TextureCaches) + i
      BY DEF Inv, Contiguous
    <2>6. Enqueued \in Int /\ Len(TextureCaches) \in Nat
      BY Numbers DEF Inv
    <2>7. \A i \in DOMAIN Tail(TextureCaches) :
             Tail(TextureCaches)[i] = Enqueued - Len(TextureCaches) + i + 1
      BY <2>4, <2>5, <2>6
    <2>8. QED
      BY <1>2, <2>2, <2>3, <2>4, <2>5, <2>6, <2>7
  <1>3. QED
    BY <1>1, <1>2

\* The steps that leave the textures alone.
LEMMA OtherStep ==
    ASSUME Inv, UNCHANGED textureVars,
           \/ UNCHANGED pumpVars \/ TestRunning \/ TestSources \/ Wait \/ WakeSpuriously
           \/ PumpFrame \/ Sleep \/ Shutdown
           \/ \E p \in PlayerIds : RegisterVideoSource(p) \/ UnregisterVideoSource(p)
    PROVE  Inv'
  <1>1. VideoSources' \subseteq PlayerIds /\ bThreadRunning' \in BOOLEAN /\ pump' \in PumpPlaces
    BY DEF Inv, TypeOK, pumpVars, TestRunning, TestSources, Wait, WakeSpuriously, PumpFrame,
           Sleep, Shutdown, RegisterVideoSource, UnregisterVideoSource, PumpStep, Notify,
           PumpPlaces
  <1>2. PumpsWhenAvailable'
    BY DEF Inv, PumpsWhenAvailable, textureVars, pumpVars, TestRunning, TestSources, Wait,
           WakeSpuriously, PumpFrame, Sleep, Shutdown, RegisterVideoSource,
           UnregisterVideoSource, PumpStep, Notify
  <1>3. QED
    BY <1>1, <1>2 DEF Inv, TypeOK, textureVars, CachesBounded, Contiguous, RoomMade, TakenMeanwhile,
                NothingMissed, AvailableOnceReceived, Enqueued

LEMMA TransmitStep ==
    ASSUME Inv, Transmit
    PROVE  Inv'
  <1>. DEFINE n == Len(TextureCaches)
              e == Enqueued
  <1>1. /\ UNCHANGED <<VideoSources, bThreadRunning, bInitialized, receiver, newest>>
        /\ pump' \in {"sleeping", "crashed"} /\ GetTexture
    BY DEF Transmit, Outcomes
  <1>2. Enqueued' = e
    BY <1>1 DEF Enqueued
  <1>3. TypeOK'
    BY <1>1, GetTextureGives DEF Inv, TypeOK, PumpPlaces
  <1>4. CASE TextureCaches = <<>>
    <2>1. UNCHANGED <<TextureCaches, LastTexture, receiver, newest, bInitialized>>
      BY <1>1, <1>4, GetTextureGives
    <2>2. QED
      BY <1>1, <1>2, <1>3, <2>1 DEF Inv, CachesBounded, Contiguous, RoomMade, TakenMeanwhile,
                              NothingMissed, AvailableOnceReceived, PumpsWhenAvailable
  <1>5. CASE TextureCaches # <<>>
    <2>1. /\ Len(TextureCaches') = n - 1 /\ LastTexture' = e - n + 1
          /\ \A i \in DOMAIN TextureCaches' : TextureCaches'[i] = e - n + i + 1
      BY <1>1, <1>5, GetTextureGives
    <2>2. n \in Nat \ {0} /\ e \in Int /\ n <= 2 /\ n <= e
      BY <1>5, Numbers DEF Inv, CachesBounded, Contiguous
    <2>3. TextureCaches' = <<>> <=> Len(TextureCaches') = 0
      BY <1>3, EmptyFacts DEF TypeOK
    <2>4. \A i \in DOMAIN TextureCaches' : i \in Nat
      BY <1>3 DEF TypeOK
    <2>5. CachesBounded' /\ Contiguous' /\ RoomMade'
      BY <1>2, <2>1, <2>2, <2>4 DEF Inv, CachesBounded, Contiguous, RoomMade
    <2>6. TakenMeanwhile'
      BY <1>1, <1>2, <2>1, <2>2 DEF Inv, TakenMeanwhile
    <2>7. NothingMissed'
      BY <1>2, <2>1, <2>2, <2>3 DEF NothingMissed
    <2>8. QED
      BY <1>1, <1>3, <2>5, <2>6, <2>7 DEF Inv, AvailableOnceReceived, PumpsWhenAvailable
  <1>6. QED
    BY <1>4, <1>5

LEMMA ReceiveStep ==
    ASSUME Inv, OnTextureReceived \/ Count
    PROVE  Inv'
  <1>. DEFINE n == Len(TextureCaches)
  <1>1. newest \in Nat /\ LastTexture \in Nat /\ n \in Nat /\ MaxTextures \in Nat /\ Enqueued \in Int
    BY Numbers DEF Inv
  <1>2. UNCHANGED <<VideoSources, bThreadRunning, pump, LastTexture, TextureCaches>>
    BY DEF OnTextureReceived, Count, ReceiverStep, pumpVars
  <1>3. CASE OnTextureReceived
    <2>1. /\ newest' = newest + 1 /\ newest' \in 0 .. MaxTextures
          /\ receiver = "idle" /\ receiver' = "counting" /\ bInitialized' = TRUE
      BY <1>1, <1>3 DEF OnTextureReceived, ReceiverStep
    <2>2. Enqueued' = Enqueued
      BY <1>1, <2>1 DEF Enqueued
    <2>3. TypeOK'
      BY <1>2, <2>1 DEF Inv, TypeOK, ReceiverPlaces
    <2>4. QED
      BY <1>1, <1>2, <2>1, <2>2, <2>3
         DEF Inv, CachesBounded, Contiguous, RoomMade, TakenMeanwhile, NothingMissed,
             AvailableOnceReceived, PumpsWhenAvailable
  <1>4. CASE Count
    <2>1. /\ newest' = newest /\ bInitialized' = bInitialized /\ receiver = "counting"
          /\ receiver' = IF n >= 2 THEN "dropping" ELSE "enqueueing"
      BY <1>4 DEF Count, ReceiverStep
    <2>2. Enqueued' = Enqueued
      BY <2>1 DEF Enqueued
    <2>3. TypeOK'
      BY <1>2, <2>1 DEF Inv, TypeOK, ReceiverPlaces
    <2>4. RoomMade'
      BY <1>1, <1>2, <2>1 DEF RoomMade
    <2>5. TakenMeanwhile'
      BY <1>1, <1>2, <2>1, <2>2 DEF TakenMeanwhile, Inv, Contiguous
    <2>6. QED
      BY <1>2, <2>1, <2>2, <2>3, <2>4, <2>5
         DEF Inv, CachesBounded, Contiguous, NothingMissed, AvailableOnceReceived,
             PumpsWhenAvailable
  <1>5. QED
    BY <1>3, <1>4

LEMMA DropStep ==
    ASSUME Inv, Drop
    PROVE  Inv'
  <1>. DEFINE n == Len(TextureCaches)
  <1>1. /\ newest \in Nat /\ LastTexture \in Nat /\ n \in Nat /\ Enqueued \in Int
        /\ TextureCaches \in Seq(Textures) /\ (TextureCaches = <<>> <=> n = 0)
    BY Numbers DEF Inv, TypeOK
  <1>2. /\ UNCHANGED <<VideoSources, bThreadRunning, pump, LastTexture, newest, bInitialized>>
        /\ receiver = "dropping" /\ receiver' = "enqueueing"
        /\ TextureCaches' = IF TextureCaches = <<>> THEN <<>> ELSE Tail(TextureCaches)
    BY DEF Drop, ReceiverStep, pumpVars
  <1>3. Enqueued' = Enqueued
    BY <1>2 DEF Enqueued
  <1>4. CASE TextureCaches = <<>>
    <2>1. TextureCaches' = TextureCaches
      BY <1>2, <1>4
    <2>2. TypeOK' /\ RoomMade' /\ TakenMeanwhile'
      BY <1>1, <1>2, <1>4, <2>1 DEF Inv, TypeOK, ReceiverPlaces, RoomMade, TakenMeanwhile
    <2>3. QED
      BY <1>2, <1>3, <2>1, <2>2
         DEF Inv, CachesBounded, Contiguous, NothingMissed, AvailableOnceReceived,
             PumpsWhenAvailable
  <1>5. CASE TextureCaches # <<>>
    <2>1. /\ TextureCaches' = Tail(TextureCaches) /\ TextureCaches' \in Seq(Textures)
          /\ Len(TextureCaches') = n - 1 /\ n >= 1
          /\ \A i \in DOMAIN TextureCaches' :
                /\ i \in Nat /\ i + 1 \in DOMAIN TextureCaches
                /\ TextureCaches'[i] = TextureCaches[i + 1]
      <3>1. TextureCaches' = Tail(TextureCaches)
        BY <1>2, <1>5
      <3>2. /\ Tail(TextureCaches) \in Seq(Textures) /\ n \in Nat \ {0}
            /\ Len(Tail(TextureCaches)) = n - 1
            /\ \A i \in DOMAIN Tail(TextureCaches) :
                  /\ i \in Nat /\ i + 1 \in DOMAIN TextureCaches
                  /\ Tail(TextureCaches)[i] = TextureCaches[i + 1]
        BY <1>1, <1>5, TailFacts
      <3>3. QED
        BY <3>1, <3>2
    <2>2. \A i \in DOMAIN TextureCaches : TextureCaches[i] = Enqueued - n + i
      BY DEF Inv, Contiguous
    <2>3. \A i \in DOMAIN TextureCaches' : TextureCaches'[i] = Enqueued - (n - 1) + i
      BY <1>1, <2>1, <2>2
    <2>4. n <= 2 /\ n <= Enqueued /\ LastTexture <= Enqueued - n
      BY DEF Inv, CachesBounded, Contiguous
    <2>5. CachesBounded' /\ Contiguous' /\ RoomMade'
      BY <1>1, <1>3, <1>2, <2>1, <2>3, <2>4 DEF CachesBounded, Contiguous, RoomMade
    <2>6. TypeOK'
      BY <1>2, <2>1 DEF Inv, TypeOK, ReceiverPlaces
    <2>7. TextureCaches' = <<>> => n = 1
      <3>1. TextureCaches' \in Seq(Textures) /\ Len(TextureCaches') = n - 1 /\ n \in Nat
        BY <1>1, <2>1
      <3>2. TextureCaches' = <<>> => Len(TextureCaches') = 0
        OBVIOUS
      <3>3. QED
        BY <3>1, <3>2
    <2>8. n = 1 => LastTexture = Enqueued - 1 /\ Enqueued >= 2
      BY <1>2 DEF Inv, TakenMeanwhile
    <2>9. NothingMissed'
      BY <1>1, <1>2, <1>3, <2>7, <2>8 DEF NothingMissed
    <2>10. QED
      BY <1>2, <2>5, <2>6, <2>9 DEF Inv, TakenMeanwhile, AvailableOnceReceived, PumpsWhenAvailable
  <1>6. QED
    BY <1>4, <1>5

LEMMA EnqueueStep ==
    ASSUME Inv, Enqueue
    PROVE  Inv'
  <1>. DEFINE n == Len(TextureCaches)
  <1>1. /\ newest \in Nat /\ LastTexture \in Nat /\ n \in Nat
        /\ TextureCaches \in Seq(Textures)
    BY Numbers DEF Inv, TypeOK
  <1>2. /\ UNCHANGED <<VideoSources, bThreadRunning, pump, LastTexture, newest, bInitialized>>
        /\ receiver = "enqueueing" /\ receiver' = "idle"
        /\ TextureCaches' = Append(TextureCaches, newest)
    BY DEF Enqueue, ReceiverStep, pumpVars
  <1>3. Enqueued = newest - 1 /\ Enqueued' = newest
    BY <1>2 DEF Enqueued
  <1>4. newest \in Textures
    <2>1. newest >= 1
      BY <1>2 DEF Inv, AvailableOnceReceived
    <2>2. QED
      BY <2>1, PumpAssumption DEF Inv, TypeOK, Textures
  <1>5. /\ TextureCaches' \in Seq(Textures) /\ Len(TextureCaches') = n + 1
        /\ TextureCaches' # <<>>
        /\ \A i \in DOMAIN TextureCaches' :
              /\ i \in Nat
              /\ \/ i \in DOMAIN TextureCaches /\ TextureCaches'[i] = TextureCaches[i]
                 \/ i = n + 1 /\ TextureCaches'[i] = newest
    BY <1>1, <1>2, <1>4, AppendFacts
  <1>6. TypeOK'
    BY <1>2, <1>5 DEF Inv, TypeOK, ReceiverPlaces
  <1>7. \A i \in DOMAIN TextureCaches' : TextureCaches'[i] = newest - (n + 1) + i
    <2>1. \A i \in DOMAIN TextureCaches : TextureCaches[i] = newest - 1 - n + i
      BY <1>3 DEF Inv, Contiguous
    <2>2. QED
      BY <1>1, <1>5, <2>1
  <1>8. n <= 1 /\ n <= newest - 1 /\ LastTexture <= newest - 1 - n
    BY <1>2, <1>3 DEF Inv, RoomMade, Contiguous
  <1>9. CachesBounded' /\ Contiguous'
    BY <1>1, <1>2, <1>3, <1>5, <1>7, <1>8 DEF CachesBounded, Contiguous
  <1>10. /\ RoomMade' /\ TakenMeanwhile' /\ NothingMissed' /\ AvailableOnceReceived'
         /\ PumpsWhenAvailable'
    BY <1>2, <1>5 DEF Inv, RoomMade, TakenMeanwhile, NothingMissed, AvailableOnceReceived,
                      PumpsWhenAvailable
  <1>11. QED
    BY <1>6, <1>9, <1>10 DEF Inv

-----------------------------------------------------------------------------
LEMMA InitInv == Init => Inv
  <1>. SUFFICES ASSUME Init PROVE Inv
    OBVIOUS
  <1>1. /\ TextureCaches = <<>> /\ Len(TextureCaches) = 0 /\ DOMAIN TextureCaches = {}
        /\ TextureCaches \in Seq(Textures)
    BY DEF Init
  <1>2. receiver = "idle" /\ newest = 0 /\ LastTexture = 0 /\ bInitialized = FALSE /\ Enqueued = 0
    BY DEF Init, Enqueued, NullTexture
  <1>3. TypeOK
    <2>1. newest \in 0 .. MaxTextures
      BY <1>2, PumpAssumption
    <2>2. bThreadRunning \in BOOLEAN /\ bInitialized \in BOOLEAN
      BY DEF Init
    <2>3. VideoSources \subseteq PlayerIds /\ LastTexture \in Textures \cup {NullTexture}
      BY DEF Init
    <2>4. pump \in PumpPlaces /\ receiver \in ReceiverPlaces
      BY DEF Init, PumpPlaces, ReceiverPlaces
    <2>5. QED
      BY <1>1, <2>1, <2>2, <2>3, <2>4 DEF TypeOK
  <1>4. PumpsWhenAvailable
    BY DEF Init, PumpsWhenAvailable
  <1>5. QED
    BY <1>1, <1>2, <1>3, <1>4
       DEF Inv, CachesBounded, Contiguous, RoomMade, TakenMeanwhile, NothingMissed,
           AvailableOnceReceived

LEMMA InvStep == Inv /\ [Next]_vars => Inv'
  <1>. SUFFICES ASSUME Inv, [Next]_vars PROVE Inv'
    OBVIOUS
  <1>1. CASE Transmit
    BY <1>1, TransmitStep
  <1>2. CASE OnTextureReceived \/ Count
    BY <1>2, ReceiveStep
  <1>3. CASE Drop
    BY <1>3, DropStep
  <1>4. CASE Enqueue
    BY <1>4, EnqueueStep
  <1>5. CASE TestRunning \/ TestSources \/ Wait \/ WakeSpuriously \/ PumpFrame \/ Sleep
    BY <1>5, OtherStep DEF TestRunning, TestSources, Wait, WakeSpuriously, PumpFrame, Sleep
  <1>6. CASE Shutdown \/ \E p \in PlayerIds : RegisterVideoSource(p) \/ UnregisterVideoSource(p)
    <2>1. UNCHANGED textureVars
      BY <1>6 DEF Shutdown, RegisterVideoSource, UnregisterVideoSource
    <2>2. QED
      BY <1>6, <2>1, OtherStep
  <1>7. CASE UNCHANGED vars
    BY <1>7, OtherStep DEF vars
  <1>8. QED
    BY <1>1, <1>2, <1>3, <1>4, <1>5, <1>6, <1>7 DEF Next, PumpLoop, Receiver

\* What holds throughout: the invariant of the textures.
THEOREM TexturesInOrder == Spec => []Inv
  BY InitInv, InvStep, PTL DEF Spec

\* The variables of the pump are of their types: PumpLoop, OnTextureReceived.
THEOREM TypeCorrect == Spec => []TypeOK
  <1>1. Inv => TypeOK
    BY DEF Inv
  <1>2. QED
    BY <1>1, TexturesInOrder, PTL

\* The caches never hold more than two textures: OnTextureReceived.
THEOREM CachesStayBounded == Spec => []CachesBounded
  <1>1. Inv => CachesBounded
    BY DEF Inv
  <1>2. QED
    BY <1>1, TexturesInOrder, PTL

\* What a call of Transmit hands over, by the invariant: TextureCaches'
\* oldest texture, or the one before.
LEMMA Handed ==
    ASSUME Inv, Transmit
    PROVE  /\ LastTexture' \in Int /\ newest \in Nat /\ LastTexture' >= newest - 2
           /\ LastTexture' = NullTexture => newest <= 1 /\ (newest = 1 => receiver # "idle")
  <1>. DEFINE n == Len(TextureCaches)
  <1>1. /\ newest \in Nat /\ LastTexture \in Nat /\ n \in Nat /\ Enqueued \in Int
        /\ (TextureCaches = <<>> <=> n = 0)
    BY Numbers DEF Inv
  <1>2. Enqueued \in {newest, newest - 1} /\ (Enqueued = newest - 1 => receiver # "idle")
    BY <1>1 DEF Enqueued
  <1>3. /\ TextureCaches = <<>> => LastTexture' = LastTexture
        /\ TextureCaches # <<>> => LastTexture' = Enqueued - n + 1
    BY GetTextureGives DEF Transmit
  <1>4. CASE TextureCaches = <<>>
    <2>1. LastTexture >= Enqueued - 1 /\ (Enqueued >= 1 => LastTexture >= 1)
      BY <1>4 DEF Inv, NothingMissed
    <2>2. QED
      BY <1>1, <1>2, <1>3, <1>4, <2>1 DEF NullTexture
  <1>5. CASE TextureCaches # <<>>
    <2>1. n <= 2 /\ n <= Enqueued /\ n >= 1
      BY <1>1, <1>5 DEF Inv, CachesBounded, Contiguous
    <2>2. QED
      BY <1>1, <1>2, <1>3, <1>5, <2>1 DEF NullTexture
  <1>6. QED
    BY <1>4, <1>5

\* The encoder is never more than a texture behind the one being received:
\* PumpLoop and OnTextureReceived.
THEOREM AlwaysCurrent == Spec => EncodesCurrent
  <1>1. Inv /\ [Next]_vars => [Transmit => LastTexture' >= newest - 2]_vars
    BY Handed
  <1>2. QED
    BY <1>1, TexturesInOrder, PTL DEF Spec, EncodesCurrent

\* A null texture is transmitted only while the first one is being received:
\* OnTextureReceived makes the source available before it enqueues.
THEOREM NullAtFirst == Spec => NullOnlyAtFirst
  <1>1. Inv /\ [Next]_vars =>
           [Transmit /\ LastTexture' = NullTexture => newest = 1 /\ receiver # "idle"]_vars
    <2>. SUFFICES ASSUME Inv, Transmit, LastTexture' = NullTexture
                  PROVE  newest = 1 /\ receiver # "idle"
      OBVIOUS
    <2>1. newest \in Nat /\ newest <= 1 /\ (newest = 1 => receiver # "idle")
      BY Handed
    <2>2. newest >= 1
      BY DEF Transmit, PumpStep, Inv, PumpsWhenAvailable, AvailableOnceReceived
    <2>3. QED
      BY <2>1, <2>2
  <1>2. QED
    BY <1>1, TexturesInOrder, PTL DEF Spec, NullOnlyAtFirst

\* The encoder never gets an older texture after a newer one: GetTexture.
THEOREM NeverBack == Spec => NeverGoesBack
  <1>1. Inv /\ [Next]_vars => [LastTexture' >= LastTexture]_vars
    <2>. SUFFICES ASSUME Inv, Next PROVE LastTexture' >= LastTexture
      BY DEF vars, textureVars
    <2>1. LastTexture \in Nat
      BY Numbers DEF Inv
    <2>2. CASE Transmit
      <3>1. CASE TextureCaches = <<>>
        <4>1. LastTexture' = LastTexture
          BY <2>2, <3>1, GetTextureGives DEF Transmit
        <4>2. QED
          BY <2>1, <4>1
      <3>2. CASE TextureCaches # <<>>
        <4>1. LastTexture' = Enqueued - Len(TextureCaches) + 1
          BY <2>2, <3>2, GetTextureGives DEF Transmit
        <4>2. LastTexture <= Enqueued - Len(TextureCaches)
          BY DEF Inv, Contiguous
        <4>3. Enqueued \in Int /\ Len(TextureCaches) \in Nat
          BY Numbers DEF Inv
        <4>4. QED
          BY <2>1, <4>1, <4>2, <4>3
      <3>3. QED
        BY <3>1, <3>2
    <2>3. CASE ~Transmit
      <3>1. LastTexture' = LastTexture
        BY <2>3 DEF Next, PumpLoop, Receiver, TestRunning, TestSources, Wait, WakeSpuriously,
                    PumpFrame, Sleep, Shutdown, RegisterVideoSource, UnregisterVideoSource,
                    OnTextureReceived, Count, Drop, Enqueue, ReceiverStep, textureVars
      <3>2. QED
        BY <2>1, <3>1
    <2>4. QED
      BY <2>2, <2>3
  <1>2. QED
    BY <1>1, TexturesInOrder, PTL DEF Spec, NeverGoesBack

-----------------------------------------------------------------------------
(* VideoDelivery: the sessions, the tasks and the pump together. *)

WsPlaces ==
    {"idle", "connecting", "offered", "deleting", "adding", "registering", "returning"}

Tasks ==
    [op : {"create", "delete", "delete all", "set source", "send video"},
     player : PlayerIds \cup {<<>>}, source : Sources \cup {NoSource}]

DeliveryTypeOK ==
    /\ tasks \in Seq(Tasks)
    /\ ws \in [pc : WsPlaces, player : PlayerIds \cup {<<>>}, source : Sources \cup {NoSource}]
    /\ Players \in [PlayerIds -> [source : Sources \cup {NoSource},
                                  channel : {"deleted", "connecting", "open", "closed"},
                                  adds : BOOLEAN]]
    /\ alive \subseteq Sources
    /\ registered \in [PlayerIds -> Sources \cup {NoSource}]
    /\ behind \in [PlayerIds -> Int]

\* The WebSocket thread waits for the task it has posted, which is followed by
\* nothing but video; and what it goes on to do comes before anything that
\* takes the session away.
QueueOK ==
    /\ \A i \in DOMAIN tasks :
          /\ tasks[i].op # "set source" => tasks[i].source = NoSource
          /\ tasks[i].op = "create" =>
                ws.pc \in {"connecting", "offered"} /\ tasks[i].player = ws.player
          /\ tasks[i].op = "delete" => ws.pc = "deleting" /\ tasks[i].player = ws.player
          /\ tasks[i].op \in {"create", "delete"} =>
                \A j \in DOMAIN tasks : j > i => tasks[j].op = "send video"
          /\ tasks[i].op = "set source" =>
                \A j \in DOMAIN tasks : j < i => tasks[j].op = "send video"
          /\ ws.pc = "adding" => tasks[i].op = "send video"
          /\ ws.pc \in {"registering", "returning"} => tasks[i].op \in {"send video", "set source"}
    /\ ws.pc # "idle" => ws.player \in PlayerIds
    /\ ws.pc \notin {"registering", "returning"} => ws.source = NoSource

\* The tasks that carry a source to its session.
Pending == {tasks[i] : i \in {j \in DOMAIN tasks : tasks[j].op = "set source"}}

Held == {t.source : t \in Pending} \cup {Players[p].source : p \in PlayerIds}

\* A session that is there and waits for its source.
Expects(p) ==
    Players[p].channel # "deleted" /\ ~Players[p].adds /\ Players[p].source = NoSource

SessionOK(p) ==
    /\ Players[p].channel = "deleted" => Players[p] = NoSession
    /\ Players[p].adds => Players[p].source = NoSource
    /\ Players[p].source # NoSource => Players[p].source \in alive /\ Players[p].source[1] = p
    /\ ws.pc = "adding" /\ ws.player = p => Expects(p)
    /\ registered[p] # NoSource => registered[p] \in alive /\ registered[p][1] = p

\* Every source that lives is on the way to its session or there; a player has
\* one at most, and that is the one the pump has been given.
LinksOK ==
    /\ \A p \in PlayerIds : SessionOK(p)
    /\ \A t \in Pending :
          /\ t.player \in PlayerIds /\ Expects(t.player)
          /\ t.source \in alive /\ t.source[1] = t.player
    /\ ws.pc \in {"registering", "returning"} => ws.source \in alive /\ ws.source[1] = ws.player
    /\ alive \subseteq Held
    /\ \A s, t \in alive : s[1] = t[1] => s = t
    /\ \A s \in alive : registered[s[1]] = s \/ (ws.pc = "registering" /\ ws.source = s)

DeliveryInv == DeliveryTypeOK /\ QueueOK /\ LinksOK /\ NoGaps

-----------------------------------------------------------------------------
(* Posting a task and taking one. *)

LEMMA Posted ==
    ASSUME tasks \in Seq(Tasks), NEW task \in Tasks, Post(task)
    PROVE  /\ tasks' \in Seq(Tasks)
           /\ \A i \in DOMAIN tasks' :
                 \/ i \in DOMAIN tasks /\ tasks'[i] = tasks[i] /\ i \in Nat /\ i < Len(tasks) + 1
                 \/ i = Len(tasks) + 1 /\ tasks'[i] = task
           /\ \A i \in DOMAIN tasks :
                 i \in DOMAIN tasks' /\ tasks'[i] = tasks[i] /\ i \in Nat /\ i < Len(tasks) + 1
           /\ Len(tasks) + 1 \in DOMAIN tasks' /\ tasks'[Len(tasks) + 1] = task
           /\ Len(tasks) + 1 \notin DOMAIN tasks /\ Len(tasks) \in Nat
  <1>1. /\ tasks' \in Seq(Tasks) /\ Len(tasks') = Len(tasks) + 1
        /\ \A i \in 1 .. Len(tasks) : tasks'[i] = tasks[i]
        /\ tasks'[Len(tasks) + 1] = task
    BY AppendProperties DEF Post
  <1>2. /\ Len(tasks) \in Nat /\ DOMAIN tasks = 1 .. Len(tasks)
        /\ DOMAIN tasks' = 1 .. Len(tasks')
    BY <1>1, LenProperties
  <1>3. QED
    BY <1>1, <1>2

LEMMA Popped ==
    ASSUME tasks \in Seq(Tasks), tasks # <<>>, tasks' = Tail(tasks)
    PROVE  /\ tasks' \in Seq(Tasks)
           /\ 1 \in DOMAIN tasks /\ Head(tasks) = tasks[1] /\ tasks[1] \in Tasks
           /\ \A i \in DOMAIN tasks' :
                 i + 1 \in DOMAIN tasks /\ tasks'[i] = tasks[i + 1] /\ i \in Nat \ {0}
           /\ \A i \in DOMAIN tasks \ {1} :
                 i - 1 \in DOMAIN tasks' /\ tasks'[i - 1] = tasks[i] /\ i \in Nat \ {0, 1}
  <1>1. /\ Tail(tasks) \in Seq(Tasks) /\ Len(Tail(tasks)) = Len(tasks) - 1
        /\ Len(tasks) \in Nat \ {0}
        /\ Head(tasks) \in Tasks /\ Head(tasks) = tasks[1]
        /\ \A i \in DOMAIN Tail(tasks) :
              i \in Nat /\ Tail(tasks)[i] = tasks[i + 1] /\ i + 1 \in DOMAIN tasks
    BY TailFacts
  <1>2. DOMAIN tasks = 1 .. Len(tasks) /\ DOMAIN Tail(tasks) = 1 .. Len(tasks) - 1
    BY <1>1, LenProperties
  <1>3. ASSUME NEW i \in DOMAIN tasks \ {1}
        PROVE  i - 1 \in DOMAIN Tail(tasks) /\ i - 1 + 1 = i /\ i \in Nat \ {0, 1}
    BY <1>1, <1>2
  <1>4. QED
    BY <1>1, <1>2, <1>3

\* The pending sources after a task was posted, and after one was taken.
LEMMA PendingPosted ==
    ASSUME tasks \in Seq(Tasks), NEW task \in Tasks, Post(task)
    PROVE  Pending' = IF task.op = "set source" THEN Pending \cup {task} ELSE Pending
  BY Posted DEF Pending

LEMMA PendingPopped ==
    ASSUME tasks \in Seq(Tasks), QueueOK, tasks # <<>>, tasks' = Tail(tasks)
    PROVE  IF Head(tasks).op = "set source"
           THEN Pending = {Head(tasks)} /\ Pending' = {}
           ELSE Pending' = Pending
  <1>1. CASE Head(tasks).op # "set source"
    <2>1. ASSUME NEW t \in Pending PROVE t \in Pending'
      <3>1. PICK i \in DOMAIN tasks : tasks[i].op = "set source" /\ t = tasks[i]
        BY DEF Pending
      <3>2. i # 1
        BY <1>1, <3>1, Popped
      <3>3. i - 1 \in DOMAIN tasks' /\ tasks'[i - 1] = t
        BY <3>1, <3>2, Popped
      <3>4. QED
        BY <3>1, <3>3 DEF Pending
    <2>2. ASSUME NEW t \in Pending' PROVE t \in Pending
      <3>1. PICK i \in DOMAIN tasks' : tasks'[i].op = "set source" /\ t = tasks'[i]
        BY DEF Pending
      <3>2. i + 1 \in DOMAIN tasks /\ tasks[i + 1] = t
        BY <3>1, Popped
      <3>3. QED
        BY <3>1, <3>2 DEF Pending
    <2>3. Pending' = Pending
      BY <2>1, <2>2
    <2>4. QED
      BY <1>1, <2>3
  <1>2. CASE Head(tasks).op = "set source"
    <2>1. 1 \in DOMAIN tasks /\ tasks[1] = Head(tasks) /\ tasks[1].op = "set source"
      BY <1>2, Popped
    <2>2. ASSUME NEW i \in DOMAIN tasks, tasks[i].op = "set source" PROVE i = 1
      <3>1. SUFFICES ASSUME i # 1 PROVE FALSE
        OBVIOUS
      <3>2. i \in Nat /\ 1 < i
        BY <3>1, Popped
      <3>3. tasks[1].op = "send video"
        BY <2>1, <2>2, <3>2 DEF QueueOK
      <3>4. QED
        BY <2>1, <3>3
    <2>3. Pending = {Head(tasks)}
      BY <2>1, <2>2 DEF Pending
    <2>4. ASSUME NEW i \in DOMAIN tasks' PROVE tasks'[i].op # "set source"
      <3>1. i + 1 \in DOMAIN tasks /\ tasks'[i] = tasks[i + 1] /\ i + 1 # 1
        BY Popped
      <3>2. QED
        BY <2>2, <3>1
    <2>5. QED
      BY <1>2, <2>3, <2>4 DEF Pending
  <1>3. QED
    BY <1>1, <1>2

\* The discipline of the queue.
LEMMA QueuePopped ==
    ASSUME tasks \in Seq(Tasks), QueueOK, tasks # <<>>, tasks' = Tail(tasks), ws' = ws
    PROVE  QueueOK'
  <1>1. \A i \in DOMAIN tasks' :
           i + 1 \in DOMAIN tasks /\ tasks'[i] = tasks[i + 1] /\ i \in Nat
    BY Popped
  <1>3. ASSUME NEW i \in DOMAIN tasks', tasks'[i].op \in {"create", "delete"},
               NEW j \in DOMAIN tasks', j > i
        PROVE  tasks'[j].op = "send video"
    <2>. DEFINE a == i + 1
                b == j + 1
    <2>1. a \in DOMAIN tasks /\ tasks'[i] = tasks[a] /\ b \in DOMAIN tasks /\ tasks'[j] = tasks[b]
      BY <1>1
    <2>2. b > a
      BY <1>1, <1>3
    <2>. HIDE DEF a, b
    <2>3. QED
      BY <1>3, <2>1, <2>2 DEF QueueOK
  <1>4. ASSUME NEW i \in DOMAIN tasks', tasks'[i].op = "set source",
               NEW j \in DOMAIN tasks', j < i
        PROVE  tasks'[j].op = "send video"
    <2>. DEFINE a == i + 1
                b == j + 1
    <2>1. /\ a \in DOMAIN tasks /\ tasks'[i] = tasks[a]
          /\ b \in DOMAIN tasks /\ tasks'[j] = tasks[b]
          /\ i \in Nat /\ j \in Nat
      BY <1>1
    <2>2. j < i
      BY <1>4
    <2>. HIDE <1>4
    <2>4. b < a
      BY <2>1, <2>2
    <2>. HIDE DEF a, b
    <2>3. QED
      BY <1>4, <2>1, <2>4 DEF QueueOK
  <1>5. ASSUME NEW i \in DOMAIN tasks'
        PROVE  /\ tasks'[i].op # "set source" => tasks'[i].source = NoSource
               /\ tasks'[i].op = "create" =>
                     ws.pc \in {"connecting", "offered"} /\ tasks'[i].player = ws.player
               /\ tasks'[i].op = "delete" => ws.pc = "deleting" /\ tasks'[i].player = ws.player
               /\ ws.pc = "adding" => tasks'[i].op = "send video"
               /\ ws.pc \in {"registering", "returning"} =>
                     tasks'[i].op \in {"send video", "set source"}
    <2>1. i + 1 \in DOMAIN tasks /\ tasks'[i] = tasks[i + 1]
      BY <1>1
    <2>2. QED
      BY <2>1 DEF QueueOK
  <1>6. QED
    BY <1>3, <1>4, <1>5, ZenonT(40) DEF QueueOK

LEMMA QueueOfVideo ==
    ASSUME \A i \in DOMAIN tasks' : tasks'[i].op = "send video" /\ tasks'[i].source = NoSource,
           ws'.pc # "idle" => ws'.player \in PlayerIds,
           ws'.pc \notin {"registering", "returning"} => ws'.source = NoSource
    PROVE  QueueOK'
  BY DEF QueueOK

\* Behind the task that the WebSocket thread waits for there is only video.
LEMMA QueueBehind ==
    ASSUME tasks \in Seq(Tasks), QueueOK, tasks # <<>>, tasks' = Tail(tasks),
           Head(tasks).op \in {"create", "delete"}
    PROVE  /\ \A i \in DOMAIN tasks' : tasks'[i].op = "send video" /\ tasks'[i].source = NoSource
           /\ Pending = {} /\ Pending' = {}
           /\ Head(tasks).source = NoSource /\ Head(tasks).player = ws.player
           /\ ws.player \in PlayerIds /\ ws.source = NoSource
           /\ IF Head(tasks).op = "create" THEN ws.pc \in {"connecting", "offered"}
              ELSE ws.pc = "deleting"
  <1>1. 1 \in DOMAIN tasks /\ tasks[1] = Head(tasks)
    BY Popped
  <1>2. ASSUME NEW i \in DOMAIN tasks'
        PROVE  tasks'[i].op = "send video" /\ tasks'[i].source = NoSource
    <2>1. i + 1 \in DOMAIN tasks /\ tasks'[i] = tasks[i + 1] /\ i + 1 > 1
      BY Popped
    <2>2. QED
      BY <1>1, <2>1 DEF QueueOK
  <1>3. Pending' = {}
    BY <1>2 DEF Pending
  <1>4. Pending = {}
    BY <1>3, PendingPopped
  <1>5. /\ Head(tasks).source = NoSource /\ Head(tasks).player = ws.player
        /\ IF Head(tasks).op = "create" THEN ws.pc \in {"connecting", "offered"}
           ELSE ws.pc = "deleting"
    BY <1>1 DEF QueueOK
  <1>6. ws.player \in PlayerIds /\ ws.source = NoSource
    BY <1>5 DEF QueueOK
  <1>7. QED
    BY <1>2, <1>3, <1>4, <1>5, <1>6

\* What a thread that posts a task does then, but for SetVideoSource.
GoesOn(task) ==
    /\ task.source = NoSource
    /\ \/ task.op \in {"send video", "delete all"} /\ ws' = ws
       \/ /\ ws'.player = task.player /\ task.player \in PlayerIds /\ ws'.source = NoSource
          /\ \/ task.op = "create" /\ ws'.pc \in {"connecting", "offered"}
             \/ task.op = "delete" /\ ws'.pc = "deleting"
    /\ task.op # "send video" => ws.pc = "idle"

LEMMA Ordered ==
    ASSUME NEW i \in Nat, NEW k \in Nat, NEW j, j < i, i < k
    PROVE  j # k
  OBVIOUS

LEMMA QueuePosted ==
    ASSUME tasks \in Seq(Tasks), QueueOK, NEW task \in Tasks, Post(task), GoesOn(task)
    PROVE  QueueOK'
  <1>. DEFINE n == Len(tasks) + 1
  <1>1. /\ \A i \in DOMAIN tasks' :
              \/ i \in DOMAIN tasks /\ tasks'[i] = tasks[i] /\ i \in Nat /\ i < n
              \/ i = n /\ tasks'[i] = task
        /\ n \in Nat
    <2>1. Len(tasks) \in Nat
      BY LenProperties
    <2>2. n \in Nat
      BY <2>1
    <2>3. \A i \in DOMAIN tasks' :
              \/ i \in DOMAIN tasks /\ tasks'[i] = tasks[i] /\ i \in Nat /\ i < n
              \/ i = n /\ tasks'[i] = task
      BY Posted
    <2>4. QED
      BY <2>2, <2>3
  <1>. HIDE DEF n
  <1>2. ASSUME NEW i \in DOMAIN tasks', tasks'[i].op \in {"create", "delete"},
               NEW j \in DOMAIN tasks', j > i
        PROVE  tasks'[j].op = "send video"
    <2>1. CASE i = n
      <3>1. (j \in DOMAIN tasks /\ j \in Nat /\ j < n) \/ j = n
        BY <1>1
      <3>2. i < j
        BY <1>2
      <3>. HIDE <1>2
      <3>3. FALSE
        BY <1>1, <2>1, <3>1, <3>2
      <3>4. QED
        BY <3>3
    <2>2. CASE i # n
      <3>1. i \in DOMAIN tasks /\ tasks'[i] = tasks[i]
        BY <1>1, <2>2
      <3>2. ws.pc # "idle"
        BY <1>2, <3>1 DEF QueueOK
      <3>3. task.op = "send video"
        BY <3>2 DEF GoesOn
      <3>4. QED
        BY <1>1, <1>2, <3>1, <3>3 DEF QueueOK
    <2>3. QED
      BY <2>1, <2>2
  <1>3. ASSUME NEW i \in DOMAIN tasks', tasks'[i].op = "set source",
               NEW j \in DOMAIN tasks', j < i
        PROVE  tasks'[j].op = "send video"
    <2>1. task.op # "set source"
      BY DEF GoesOn
    <2>2. i \in DOMAIN tasks /\ tasks'[i] = tasks[i] /\ i \in Nat /\ i < n
      <3>1. tasks'[i] # task
        BY <1>3, <2>1
      <3>2. QED
        BY <1>1, <3>1
    <2>3. j # n
      <3>1. j < i
        BY <1>3
      <3>. HIDE <1>3
      <3>2. QED
        BY <1>1, <2>2, <3>1, Ordered
    <2>4. j \in DOMAIN tasks /\ tasks'[j] = tasks[j]
      BY <1>1, <2>3
    <2>5. QED
      BY <1>3, <2>2, <2>4 DEF QueueOK
  <1>4. ASSUME NEW i \in DOMAIN tasks'
        PROVE  /\ tasks'[i].op # "set source" => tasks'[i].source = NoSource
               /\ tasks'[i].op = "create" =>
                     ws'.pc \in {"connecting", "offered"} /\ tasks'[i].player = ws'.player
               /\ tasks'[i].op = "delete" => ws'.pc = "deleting" /\ tasks'[i].player = ws'.player
               /\ ws'.pc = "adding" => tasks'[i].op = "send video"
               /\ ws'.pc \in {"registering", "returning"} =>
                     tasks'[i].op \in {"send video", "set source"}
    <2>1. CASE i \in DOMAIN tasks /\ tasks'[i] = tasks[i]
      BY <2>1 DEF QueueOK, GoesOn
    <2>2. CASE tasks'[i] = task
      BY <2>2 DEF GoesOn
    <2>3. QED
      BY <1>1, <2>1, <2>2
  <1>5. /\ ws'.pc # "idle" => ws'.player \in PlayerIds
        /\ ws'.pc \notin {"registering", "returning"} => ws'.source = NoSource
    BY DEF QueueOK, GoesOn
  <1>6. QED
    BY <1>2, <1>3, <1>4, <1>5 DEF QueueOK

-----------------------------------------------------------------------------
(* The references. *)

LEMMA SourceFacts ==
    /\ NoSource \notin Sources
    /\ \A s \in Sources : s[1] \in PlayerIds
  BY DEF Sources, NoSource

\* Only a set source task carries a source.
LEMMA QueuedSources ==
    ASSUME QueueOK'
    PROVE  /\ \A t \in Pending' : t.source \in Queued(tasks')
           /\ \A s \in Queued(tasks') : s = NoSource \/ (\E t \in Pending' : t.source = s)
  BY DEF QueueOK, Queued, Pending

LEMMA HeldAreReferenced ==
    ASSUME QueueOK', alive \subseteq Held'
    PROVE  alive \subseteq ReferencedNext
  BY QueuedSources DEF Held, ReferencedNext

LEMMA ReleaseNothing ==
    ASSUME Release, alive \subseteq ReferencedNext
    PROVE  UNCHANGED <<alive, registered, VideoSources, pump>>
  <1>1. alive \ ReferencedNext = {}
    OBVIOUS
  <1>2. alive' = alive
    BY <1>1 DEF Release
  <1>3. UNCHANGED <<registered, VideoSources, pump>>
    BY <1>1 DEF Release
  <1>4. QED
    BY <1>2, <1>3

LEMMA ReleaseOne ==
    ASSUME Release, NEW d \in alive, alive \ ReferencedNext = {d}
    PROVE  /\ alive' = alive \ {d}
           /\ registered' = [p \in PlayerIds |-> IF p = d[1] THEN NoSource ELSE registered[p]]
           /\ SourcesGuardFree /\ VideoSources' = VideoSources \ {d[1]} /\ Notify
  <1>1. {s[1] : s \in alive \ ReferencedNext} = {d[1]}
    OBVIOUS
  <1>2. alive \ ReferencedNext # {}
    OBVIOUS
  <1>3. alive' = alive \ {d}
    BY DEF Release
  <1>4. registered' = [p \in PlayerIds |-> IF p \in {d[1]} THEN NoSource ELSE registered[p]]
    BY <1>1, <1>2 DEF Release
  <1>5. SourcesGuardFree /\ VideoSources' = VideoSources \ {d[1]} /\ Notify
    BY <1>1, <1>2 DEF Release
  <1>6. QED
    BY <1>3, <1>4, <1>5

-----------------------------------------------------------------------------
(* The sources of the sessions. *)

LEMMA LinksKept ==
    ASSUME LinksOK, alive' = alive, registered' = registered, Pending' = Pending,
           \A p \in PlayerIds :
              /\ Players'[p].source = Players[p].source /\ Players'[p].adds = Players[p].adds
              /\ Players'[p].channel = "deleted" <=> Players[p].channel = "deleted"
              /\ Players[p] = NoSession => Players'[p] = NoSession,
           \/ ws' = ws
           \/ ws.pc # "registering" /\ ws'.pc \notin {"adding", "registering", "returning"}
    PROVE  LinksOK'
  <1>1. \A p \in PlayerIds : Expects(p)' <=> Expects(p)
    BY DEF Expects
  <1>2. ASSUME NEW p \in PlayerIds PROVE SessionOK(p)'
    <2>1. SessionOK(p)
      BY DEF LinksOK
    <2>2. QED
      BY <1>1, <2>1 DEF SessionOK
  <1>3. Held' = Held
    BY DEF Held
  <1>4. \A t \in Pending' :
           /\ t.player \in PlayerIds /\ Expects(t.player)'
           /\ t.source \in alive' /\ t.source[1] = t.player
    BY <1>1 DEF LinksOK
  <1>5. /\ ws'.pc \in {"registering", "returning"} => ws'.source \in alive' /\ ws'.source[1] = ws'.player
        /\ \A s \in alive' : registered'[s[1]] = s \/ (ws'.pc = "registering" /\ ws'.source = s)
    BY DEF LinksOK
  <1>6. alive' \subseteq Held' /\ \A s, t \in alive' : s[1] = t[1] => s = t
    BY <1>3 DEF LinksOK
  <1>7. QED
    BY <1>2, <1>4, <1>5, <1>6 DEF LinksOK

\* A player without a source, or without a session, has none anywhere.
LEMMA NoneFor ==
    ASSUME LinksOK, alive \subseteq Sources, NEW p \in PlayerIds, Players[p].source = NoSource,
           \A t \in Pending : t.player # p
    PROVE  \A s \in alive : s[1] # p
  <1>1. SUFFICES ASSUME NEW s \in alive, s[1] = p PROVE FALSE
    OBVIOUS
  <1>2. s \in Held /\ s # NoSource
    BY SourceFacts DEF LinksOK
  <1>3. CASE \E t \in Pending : t.source = s
    BY <1>1, <1>3 DEF LinksOK
  <1>4. CASE \E q \in PlayerIds : Players[q].source = s
    <2>1. PICK q \in PlayerIds : Players[q].source = s
      BY <1>4
    <2>2. q = p
      BY <1>1, <1>2, <2>1 DEF LinksOK, SessionOK
    <2>3. QED
      BY <1>2, <2>1, <2>2
  <1>5. QED
    BY <1>2, <1>3, <1>4 DEF Held

\* A session that goes drops its source, and nothing else does.
LEMMA Dropped ==
    ASSUME LinksOK, alive \subseteq Sources, QueueOK', NEW p \in PlayerIds,
           Pending = {}, Pending' = {}, ws'.source = NoSource,
           \A q \in PlayerIds : Players'[q] = IF q = p THEN NoSession ELSE Players[q]
    PROVE  alive \ ReferencedNext = alive \cap {Players[p].source}
  <1>1. ASSUME NEW s \in alive PROVE s \in ReferencedNext <=> s # Players[p].source
    <2>1. s # NoSource
      BY SourceFacts
    <2>2. PICK q \in PlayerIds : Players[q].source = s
      BY DEF LinksOK, Held
    <2>3. s[1] = q
      BY <2>1, <2>2 DEF LinksOK, SessionOK
    <2>4. s \notin Queued(tasks') /\ s # ws'.source
      BY <2>1, QueuedSources
    <2>5. s \in ReferencedNext <=> \E r \in PlayerIds : Players'[r].source = s
      BY <2>4 DEF ReferencedNext
    <2>6. NoSession.source = NoSource
      BY DEF NoSession
    <2>7. CASE s = Players[p].source
      <3>1. p = q
        BY <2>1, <2>3, <2>7 DEF LinksOK, SessionOK
      <3>2. ASSUME NEW r \in PlayerIds PROVE Players'[r].source # s
        <4>1. CASE r = p
          BY <2>1, <2>6, <4>1
        <4>2. CASE r # p
          <5>1. Players'[r].source = Players[r].source
            BY <4>2
          <5>2. Players[r].source = s => s[1] = r
            BY <2>1 DEF LinksOK, SessionOK
          <5>3. QED
            BY <2>3, <3>1, <4>2, <5>1, <5>2
        <4>3. QED
          BY <4>1, <4>2
      <3>3. QED
        BY <2>5, <2>7, <3>2
    <2>8. CASE s # Players[p].source
      <3>1. q # p /\ Players'[q].source = s
        BY <2>2, <2>8
      <3>2. QED
        BY <2>5, <2>8, <3>1
    <2>9. QED
      BY <2>7, <2>8
  <1>2. QED
    BY <1>1

\* What a session that goes leaves behind.
LEMMA SessionGoes ==
    ASSUME DeliveryTypeOK, LinksOK, QueueOK', NEW p \in PlayerIds,
           Pending = {}, Pending' = {}, ws'.source = NoSource,
           ws.pc \notin {"adding", "registering", "returning"},
           ws'.pc \notin {"adding", "registering", "returning"},
           \A q \in PlayerIds : Players'[q] = IF q = p THEN NoSession ELSE Players[q],
           Release
    PROVE  /\ LinksOK'
           /\ alive' \subseteq alive
           /\ registered' \in [PlayerIds -> Sources \cup {NoSource}]
           /\ \/ UNCHANGED <<alive, registered, VideoSources, pump>>
              \/ SourcesGuardFree /\ VideoSources' = VideoSources \ {p} /\ Notify
  <1>. DEFINE d == Players[p].source
  <1>1. alive \ ReferencedNext = alive \cap {d} /\ alive \subseteq Sources
    BY Dropped DEF DeliveryTypeOK
  <1>2. d = NoSource \/ (d \in alive /\ d[1] = p)
    BY DEF LinksOK, SessionOK
  <1>3. ASSUME NEW s \in alive, s # d PROVE s[1] # p
    <2>1. CASE d = NoSource
      BY <1>1, <2>1, NoneFor
    <2>2. CASE d \in alive /\ d[1] = p
      BY <1>3, <2>2 DEF LinksOK
    <2>3. QED
      BY <1>2, <2>1, <2>2
  <1>. HIDE DEF d
  <1>4. /\ alive' = alive \ {d}
        /\ \A q \in PlayerIds : q # p => registered'[q] = registered[q]
        /\ registered'[p] # NoSource => registered'[p] \in alive' /\ registered'[p][1] = p
        /\ registered' \in [PlayerIds -> Sources \cup {NoSource}]
        /\ \/ UNCHANGED <<alive, registered, VideoSources, pump>>
           \/ SourcesGuardFree /\ VideoSources' = VideoSources \ {p} /\ Notify
    <2>1. CASE d \notin alive
      <3>1. UNCHANGED <<alive, registered, VideoSources, pump>>
        BY <1>1, <2>1, ReleaseNothing
      <3>2. QED
        BY <2>1, <3>1 DEF LinksOK, SessionOK, DeliveryTypeOK
    <2>2. CASE d \in alive
      <3>1. d[1] = p
        BY <1>1, <1>2, <2>2, SourceFacts
      <3>2. alive \ ReferencedNext = {d}
        BY <1>1, <2>2
      <3>3. /\ alive' = alive \ {d}
            /\ registered' = [q \in PlayerIds |-> IF q = p THEN NoSource ELSE registered[q]]
            /\ SourcesGuardFree /\ VideoSources' = VideoSources \ {p} /\ Notify
        BY <2>2, <3>1, <3>2, ReleaseOne
      <3>4. registered' \in [PlayerIds -> Sources \cup {NoSource}]
        BY <3>3 DEF DeliveryTypeOK
      <3>5. QED
        BY <3>3, <3>4
    <2>3. QED
      BY <2>1, <2>2
  <1>5. ASSUME NEW q \in PlayerIds PROVE SessionOK(q)'
    <2>1. CASE q = p
      <3>1. Players'[q] = NoSession
        BY <2>1
      <3>2. QED
        BY <1>4, <2>1, <3>1 DEF SessionOK, NoSession
    <2>2. CASE q # p
      <3>1. Players'[q] = Players[q] /\ registered'[q] = registered[q] /\ SessionOK(q)
        BY <1>4, <2>2 DEF LinksOK
      <3>2. /\ Players[q].source # NoSource => Players[q].source # d
            /\ registered[q] # NoSource => registered[q] # d
        BY <1>2, <2>2, <3>1 DEF SessionOK
      <3>3. QED
        BY <1>4, <3>1, <3>2 DEF SessionOK
    <2>3. QED
      BY <2>1, <2>2
  <1>6. ASSUME NEW s \in alive' PROVE s \in Held' /\ registered'[s[1]] = s
    <2>1. s \in alive /\ s # d
      BY <1>4
    <2>2. PICK q \in PlayerIds : Players[q].source = s
      BY <2>1 DEF LinksOK, Held
    <2>3. q # p
      BY <2>1, <2>2 DEF d
    <2>4. Players'[q].source = s
      BY <2>2, <2>3
    <2>5. s[1] # p /\ s[1] \in PlayerIds
      BY <1>1, <1>3, <2>1, SourceFacts
    <2>6. registered[s[1]] = s
      BY <2>1 DEF LinksOK
    <2>7. QED
      BY <1>4, <2>4, <2>5, <2>6 DEF Held
  <1>7. \A s, t \in alive' : s[1] = t[1] => s = t
    BY <1>4 DEF LinksOK
  <1>8. LinksOK'
    BY <1>5, <1>6, <1>7 DEF LinksOK
  <1>9. QED
    BY <1>4, <1>8

-----------------------------------------------------------------------------
(* The steps keep the types. *)

\* A pump that is at work leaves the sessions alone, unless it publishes.
PumpAlone ==
    \/ (TestRunning \/ TestSources \/ Wait \/ Sleep \/ PumpFrame) /\ UNCHANGED deliveryVars
    \/ (WakeSpuriously \/ Shutdown \/ OnTextureReceived \/ Receiver) /\ UNCHANGED deliveryVars

LEMMA DeliverySteps ==
    ASSUME DeliveryNext
    PROVE  \/ \E p \in PlayerIds : OnPlayerConnected(p) \/ OnOffer(p) \/ OnPlayerDisconnected(p)
           \/ OnSignallingServerDisconnected
           \/ SetVideoSource \/ Initialize \/ ReturnFromSetup
           \/ CreatePlayerSession \/ SetVideoSource_SignallingThread
           \/ DeletePlayerSession \/ DeleteAllPlayerSessions \/ SendMessageAll
           \/ \E p \in PlayerIds : ChannelChanges(p)
           \/ \E p \in PlayerIds : AddStreamsOnAnswer(p)
           \/ EncodeFrame \/ PumpAlone
  BY DEF DeliveryNext, WebSocketThread, Signalling, Pump, PumpAlone

LEMMA ReleaseTypes ==
    ASSUME DeliveryTypeOK, Release
    PROVE  alive' \subseteq Sources /\ registered' \in [PlayerIds -> Sources \cup {NoSource}]
  <1>1. alive' \subseteq Sources
    BY DEF Release, DeliveryTypeOK
  <1>2. \/ registered' = registered
        \/ registered' = [p \in PlayerIds |->
                             IF p \in {s[1] : s \in alive \ ReferencedNext}
                             THEN NoSource ELSE registered[p]]
    BY DEF Release
  <1>3. QED
    BY <1>1, <1>2 DEF DeliveryTypeOK

\* One part of the queue's type at a time: taking a task, posting one.
LEMMA RunTypes ==
    ASSUME DeliveryTypeOK, NEW op, Run(op)
    PROVE  /\ tasks # <<>> /\ tasks' = Tail(tasks) /\ tasks' \in Seq(Tasks)
           /\ Head(tasks) \in Tasks /\ Head(tasks).op = op
           /\ Head(tasks).source \in Sources \cup {NoSource}
           /\ UNCHANGED <<bFirst, framecount, bThreadRunning, textureVars>>
  BY Popped DEF DeliveryTypeOK, Run, Tasks, streamVars

LEMMA CallTypes ==
    ASSUME DeliveryTypeOK, NEW p \in PlayerIds,
           OnPlayerConnected(p) \/ OnOffer(p) \/ OnPlayerDisconnected(p)
    PROVE  \E task \in Tasks :
              /\ Post(task) /\ GoesOn(task) /\ task.op \in {"create", "delete"}
              /\ ws = Idle /\ ws' \in [pc : WsPlaces, player : PlayerIds \cup {<<>>},
                                       source : Sources \cup {NoSource}]
              /\ ws'.pc \in {"connecting", "offered", "deleting"}
              /\ UNCHANGED <<Players, behind, alive, registered, vars>>
  <1>. DEFINE create == [op |-> "create", player |-> p, source |-> NoSource]
              delete == [op |-> "delete", player |-> p, source |-> NoSource]
  <1>1. create \in Tasks /\ delete \in Tasks
    BY DEF Tasks
  <1>2. CASE OnPlayerConnected(p)
    BY <1>1, <1>2 DEF OnPlayerConnected, Call, GoesOn, Idle, WsPlaces, WsUnchanged,
                      vars, pumpVars
  <1>3. CASE OnOffer(p)
    BY <1>1, <1>3 DEF OnOffer, Call, GoesOn, Idle, WsPlaces, WsUnchanged, vars, pumpVars
  <1>4. CASE OnPlayerDisconnected(p)
    BY <1>1, <1>4 DEF OnPlayerDisconnected, Call, GoesOn, Idle, WsPlaces, WsUnchanged,
                      vars, pumpVars
  <1>5. QED
    BY <1>2, <1>3, <1>4

\* What the WebSocket thread posts that it does not wait for.
LEMMA PostsDeleteAll ==
    ASSUME OnSignallingServerDisconnected
    PROVE  \E task \in Tasks :
              /\ Post(task) /\ GoesOn(task) /\ task.op = "delete all"
              /\ UNCHANGED <<ws, Players, behind, alive, registered, vars>>
  <1>. DEFINE task == [op |-> "delete all", player |-> <<>>, source |-> NoSource]
  <1>1. task \in Tasks /\ GoesOn(task)
    BY DEF Tasks, GoesOn, OnSignallingServerDisconnected, Idle
  <1>2. QED
    BY <1>1 DEF OnSignallingServerDisconnected, WsUnchanged, vars, pumpVars

\* SetVideoSource makes a source and posts it to the session.
LEMMA PostsSource ==
    ASSUME SetVideoSource, DeliveryTypeOK, QueueOK
    PROVE  \E s \in Sources :
              LET task == [op |-> "set source", player |-> ws.player, source |-> s] IN
              /\ task \in Tasks /\ Post(task)
              /\ s \notin alive /\ s[1] = ws.player /\ alive' = alive \cup {s}
              /\ ws.pc = "adding" /\ ws.player \in PlayerIds
              /\ ws'.pc = "registering" /\ ws'.player = ws.player /\ ws'.source = s
              /\ ws' \in [pc : WsPlaces, player : PlayerIds \cup {<<>>},
                          source : Sources \cup {NoSource}]
              /\ UNCHANGED <<registered, Players, behind, vars>>
  <1>1. ws.pc = "adding" /\ ws.player \in PlayerIds
    BY DEF SetVideoSource, QueueOK
  <1>2. PICK s \in Sources :
          /\ NewSource(ws.player, s) /\ alive' = alive \cup {s}
          /\ ws' = [ws EXCEPT !.pc = "registering", !.source = s]
          /\ Post([op |-> "set source", player |-> ws.player, source |-> s])
    BY DEF SetVideoSource
  <1>3. UNCHANGED <<registered, Players, behind, vars>>
    BY DEF SetVideoSource, WsUnchanged, vars, pumpVars
  <1>4. [op |-> "set source", player |-> ws.player, source |-> s] \in Tasks
    BY <1>1 DEF Tasks
  <1>5. /\ ws'.pc = "registering" /\ ws'.player = ws.player /\ ws'.source = s
        /\ ws' \in [pc : WsPlaces, player : PlayerIds \cup {<<>>}, source : Sources \cup {NoSource}]
    BY <1>2 DEF DeliveryTypeOK, WsPlaces
  <1>6. QED
    BY <1>1, <1>2, <1>3, <1>4, <1>5 DEF NewSource

\* EncodeFrame publishes, by a task, or leaves the queue alone.
LEMMA EncodeFrameGives ==
    ASSUME EncodeFrame
    PROVE  /\ Transmit /\ UNCHANGED <<ws, Players, alive, registered>>
           /\ \/ UNCHANGED <<tasks, behind>>
              \/ \E task \in Tasks :
                    /\ Post(task) /\ GoesOn(task) /\ task.op = "send video"
                    /\ behind' = [p \in PlayerIds |-> IF behind[p] = NoneYet THEN NoneYet
                                                      ELSE behind[p] + 1]
  <1>. DEFINE task == [op |-> "send video", player |-> <<>>, source |-> NoSource]
  <1>1. task \in Tasks
    BY DEF Tasks
  <1>2. GoesOn(task)
    BY DEF EncodeFrame, GoesOn
  <1>3. QED
    BY <1>1, <1>2 DEF EncodeFrame, WriteMp4, Publish

-----------------------------------------------------------------------------
(* The video messages on their way. *)

SendTasks(q) == {i \in DOMAIN q : q[i].op = "send video"}

LEMMA SendTasksFinite ==
    ASSUME NEW q \in Seq(Tasks)
    PROVE  IsFiniteSet(SendTasks(q)) /\ Cardinality(SendTasks(q)) \in Nat
  <1>1. Len(q) \in Nat /\ DOMAIN q = 1 .. Len(q)
    BY LenProperties
  <1>2. IsFiniteSet(1 .. Len(q))
    BY <1>1, FS_Interval
  <1>3. SendTasks(q) \subseteq 1 .. Len(q)
    BY <1>1 DEF SendTasks
  <1>4. IsFiniteSet(SendTasks(q))
    BY <1>2, <1>3, FS_Subset
  <1>5. QED
    BY <1>4, FS_CardinalityType

LEMMA OnTheWayIsInt ==
    ASSUME NEW q \in Seq(Tasks)
    PROVE  OnTheWay(q) \in Nat
  BY SendTasksFinite DEF OnTheWay, SendTasks

LEMMA OnTheWayPosted ==
    ASSUME tasks \in Seq(Tasks), NEW task \in Tasks, Post(task)
    PROVE  OnTheWay(tasks') = OnTheWay(tasks) + (IF task.op = "send video" THEN 1 ELSE 0)
  <1>. DEFINE n == Len(tasks) + 1
              S == SendTasks(tasks)
              T == SendTasks(tasks')
  <1>1. n \notin S /\ T = IF task.op = "send video" THEN S \cup {n} ELSE S
    BY Posted DEF SendTasks
  <1>2. IsFiniteSet(S) /\ Cardinality(S) \in Nat
    BY SendTasksFinite
  <1>3. OnTheWay(tasks) = Cardinality(S) /\ OnTheWay(tasks') = Cardinality(T)
    BY DEF OnTheWay, SendTasks
  <1>. HIDE DEF n, S, T
  <1>4. CASE task.op = "send video"
    <2>1. Cardinality(S \cup {n}) = Cardinality(S) + 1
      BY <1>1, <1>2, FS_AddElement
    <2>2. T = S \cup {n}
      BY <1>1, <1>4
    <2>3. OnTheWay(tasks') = OnTheWay(tasks) + 1
      BY <1>3, <2>1, <2>2
    <2>4. QED
      BY <1>4, <2>3
  <1>5. CASE task.op # "send video"
    <2>1. OnTheWay(tasks') = OnTheWay(tasks) /\ OnTheWay(tasks) \in Nat
      BY <1>1, <1>2, <1>3, <1>5
    <2>2. OnTheWay(tasks) + 0 = OnTheWay(tasks)
      BY <2>1
    <2>3. QED
      BY <1>5, <2>1, <2>2
  <1>6. QED
    BY <1>4, <1>5

LEMMA OnTheWayPopped ==
    ASSUME tasks \in Seq(Tasks), tasks # <<>>, tasks' = Tail(tasks)
    PROVE  OnTheWay(tasks) = OnTheWay(tasks') + (IF Head(tasks).op = "send video" THEN 1 ELSE 0)
  <1>. DEFINE S == SendTasks(tasks)
              T == SendTasks(tasks')
              R == S \ {1}
              f == [i \in T |-> i + 1]
  <1>1. f \in Bijection(T, R)
    <2>1. ASSUME NEW i \in T PROVE i + 1 \in R /\ i \in Nat
      <3>1. i \in DOMAIN tasks' /\ tasks'[i].op = "send video"
        BY DEF SendTasks
      <3>2. i + 1 \in DOMAIN tasks /\ tasks'[i] = tasks[i + 1] /\ i \in Nat \ {0}
        BY <3>1, Popped
      <3>3. i + 1 # 1
        BY <3>2
      <3>4. QED
        BY <3>1, <3>2, <3>3 DEF SendTasks
    <2>2. ASSUME NEW j \in R PROVE j - 1 \in T /\ j \in Nat
      <3>1. j \in DOMAIN tasks \ {1} /\ tasks[j].op = "send video"
        BY DEF SendTasks
      <3>2. j - 1 \in DOMAIN tasks' /\ tasks'[j - 1] = tasks[j] /\ j \in Nat
        BY <3>1, Popped
      <3>3. QED
        BY <3>1, <3>2 DEF SendTasks
    <2>. HIDE DEF S, T, R
    <2>3. f \in [T -> R]
      BY <2>1
    <2>4. \A a, b \in T : f[a] = f[b] => a = b
      BY <2>1
    <2>5. ASSUME NEW j \in R PROVE \E i \in T : f[i] = j
      <3>1. j - 1 \in T /\ j \in Nat
        BY <2>2
      <3>2. f[j - 1] = j - 1 + 1
        BY <3>1
      <3>3. (j - 1) + 1 = j
        BY <3>1
      <3>4. QED
        BY <3>1, <3>2, <3>3
    <2>6. QED
      BY <2>3, <2>4, <2>5, Fun_IsBij
  <1>2. IsFiniteSet(T) /\ Cardinality(T) \in Nat /\ IsFiniteSet(S) /\ Cardinality(S) \in Nat
    BY SendTasksFinite, Popped
  <1>3. 1 \in S <=> Head(tasks).op = "send video"
    BY Popped DEF SendTasks
  <1>4. OnTheWay(tasks) = Cardinality(S) /\ OnTheWay(tasks') = Cardinality(T)
    BY DEF OnTheWay, SendTasks
  <1>. HIDE DEF S, T, f
  <1>5. ExistsBijection(T, R)
    BY <1>1 DEF ExistsBijection
  <1>6. Cardinality(R) = Cardinality(T)
    <2>. HIDE DEF R
    <2>1. QED
      BY <1>2, <1>5, FS_Bijection
  <1>7. Cardinality(R) = IF 1 \in S THEN Cardinality(S) - 1 ELSE Cardinality(S)
    BY <1>2, FS_RemoveElement
  <1>. HIDE DEF R
  <1>8. CASE Head(tasks).op = "send video"
    <2>1. Cardinality(T) = Cardinality(S) - 1
      BY <1>3, <1>6, <1>7, <1>8
    <2>2. Cardinality(S) = Cardinality(T) + 1
      <3>. HIDE <1>8
      <3>1. QED
        BY <1>2, <2>1
    <2>3. QED
      BY <1>4, <1>8, <2>2
  <1>9. CASE Head(tasks).op # "send video"
    <2>1. OnTheWay(tasks) = OnTheWay(tasks')
      BY <1>3, <1>4, <1>6, <1>7, <1>9
    <2>2. OnTheWay(tasks') + 0 = OnTheWay(tasks')
      BY <1>2, <1>4
    <2>3. QED
      BY <1>9, <2>1, <2>2
  <1>10. QED
    BY <1>8, <1>9

LEMMA TypeStep ==
    ASSUME DeliveryTypeOK, QueueOK, DeliveryNext
    PROVE  DeliveryTypeOK'
  <1>. DEFINE WsType == [pc : WsPlaces, player : PlayerIds \cup {<<>>},
                         source : Sources \cup {NoSource}]
              Session == [source : Sources \cup {NoSource},
                          channel : {"deleted", "connecting", "open", "closed"}, adds : BOOLEAN]
  <1>1. /\ Idle \in WsType /\ NoSession \in Session
        /\ \A b \in BOOLEAN : NewSession(b) \in Session
    BY DEF Idle, NoSession, NewSession, WsPlaces
  <1>2. /\ tasks \in Seq(Tasks) /\ ws \in WsType /\ Players \in [PlayerIds -> Session]
        /\ alive \subseteq Sources /\ registered \in [PlayerIds -> Sources \cup {NoSource}]
        /\ behind \in [PlayerIds -> Int]
    BY DEF DeliveryTypeOK
  <1>. HIDE DEF WsType, Session
  <1>0. NoneYet \in Int
    BY DEF NoneYet
  <1>3. SUFFICES /\ tasks' \in Seq(Tasks) /\ ws' \in WsType /\ Players' \in [PlayerIds -> Session]
                 /\ alive' \subseteq Sources
                 /\ registered' \in [PlayerIds -> Sources \cup {NoSource}]
                 /\ behind' \in [PlayerIds -> Int]
    BY DEF DeliveryTypeOK, WsType, Session
  <1>4. ASSUME NEW p \in PlayerIds, OnPlayerConnected(p) \/ OnOffer(p) \/ OnPlayerDisconnected(p)
        PROVE  DeliveryTypeOK'
    <2>1. PICK task \in Tasks : Post(task) /\ ws' \in WsType
                                /\ UNCHANGED <<Players, behind, alive, registered>>
      BY <1>4, CallTypes DEF WsType
    <2>2. tasks' \in Seq(Tasks)
      BY <1>2, <2>1, Posted
    <2>3. QED
      BY <1>2, <2>1, <2>2 DEF DeliveryTypeOK, WsType, Session
  <1>5. CASE OnSignallingServerDisconnected
    <2>1. PICK task \in Tasks : Post(task) /\ UNCHANGED <<ws, Players, behind, alive, registered>>
      BY <1>5, PostsDeleteAll
    <2>2. tasks' \in Seq(Tasks)
      BY <1>2, <2>1, Posted
    <2>3. QED
      BY <1>2, <2>1, <2>2
  <1>6. CASE SetVideoSource
    <2>1. PICK s \in Sources :
            LET task == [op |-> "set source", player |-> ws.player, source |-> s] IN
            /\ task \in Tasks /\ Post(task) /\ alive' = alive \cup {s} /\ ws' \in WsType
            /\ UNCHANGED <<registered, Players, behind>>
      BY <1>6, PostsSource DEF WsType
    <2>2. tasks' \in Seq(Tasks)
      BY <1>2, <2>1, Posted
    <2>3. QED
      BY <1>2, <2>1, <2>2
  <1>7. CASE Initialize
    <2>1. registered' \in [PlayerIds -> Sources \cup {NoSource}]
      BY <1>2, <1>7 DEF Initialize, Register, WsType
    <2>2. ws' \in WsType
      BY <1>2, <1>7 DEF Initialize, WsType, WsPlaces
    <2>3. QED
      BY <1>2, <1>7, <2>1, <2>2 DEF Initialize, WsUnchanged
  <1>8. CASE ReturnFromSetup
    BY <1>1, <1>2, <1>8, ReleaseTypes DEF ReturnFromSetup, WsUnchanged
  <1>9. CASE CreatePlayerSession
    <2>1. tasks' \in Seq(Tasks) /\ UNCHANGED <<alive, registered, behind>>
      BY <1>9, RunTypes DEF CreatePlayerSession
    <2>2. Players' \in [PlayerIds -> Session]
      BY <1>1, <1>2, <1>9 DEF CreatePlayerSession
    <2>3. ws' \in WsType
      <3>1. [ws EXCEPT !.pc = "adding"] \in WsType
        BY <1>2 DEF WsType, WsPlaces
      <3>2. QED
        BY <1>1, <1>9, <3>1 DEF CreatePlayerSession
    <2>4. QED
      BY <1>2, <2>1, <2>2, <2>3
  <1>10. CASE SetVideoSource_SignallingThread
    <2>1. /\ tasks' \in Seq(Tasks) /\ Head(tasks).source \in Sources \cup {NoSource}
          /\ UNCHANGED <<ws, behind>> /\ Release
      BY <1>10, RunTypes DEF SetVideoSource_SignallingThread
    <2>2. Players' \in [PlayerIds -> Session]
      <3>1. [Players EXCEPT ![Head(tasks).player].source = Head(tasks).source]
              \in [PlayerIds -> Session]
        BY <1>2, <2>1 DEF Session
      <3>2. QED
        BY <1>2, <1>10, <3>1 DEF SetVideoSource_SignallingThread
    <2>3. QED
      BY <1>2, <2>1, <2>2, ReleaseTypes
  <1>11. CASE DeletePlayerSession
    <2>1. tasks' \in Seq(Tasks)
      BY <1>11, RunTypes DEF DeletePlayerSession
    <2>2. Players' \in [PlayerIds -> Session] /\ behind' \in [PlayerIds -> Int]
      <3>1. \A p \in PlayerIds : [Players EXCEPT ![p] = NoSession] \in [PlayerIds -> Session]
        BY <1>1, <1>2
      <3>2. \A p \in PlayerIds : [behind EXCEPT ![p] = NoneYet] \in [PlayerIds -> Int]
        BY <1>0, <1>2
      <3>3. QED
        BY <1>2, <1>11, <3>1, <3>2 DEF DeletePlayerSession
    <2>3. QED
      BY <1>1, <1>11, <2>1, <2>2, ReleaseTypes DEF DeletePlayerSession
  <1>12. CASE DeleteAllPlayerSessions
    <2>1. tasks' \in Seq(Tasks)
      BY <1>2, <1>12, Popped DEF DeleteAllPlayerSessions
    <2>2. Players' \in [PlayerIds -> Session] /\ behind' \in [PlayerIds -> Int]
      <3>1. \A p \in PlayerIds : [Players EXCEPT ![p] = NoSession] \in [PlayerIds -> Session]
        BY <1>1, <1>2
      <3>2. \A p \in PlayerIds : [behind EXCEPT ![p] = NoneYet] \in [PlayerIds -> Int]
        BY <1>0, <1>2
      <3>3. QED
        BY <1>2, <1>12, <3>1, <3>2 DEF DeleteAllPlayerSessions
    <2>3. QED
      BY <1>2, <1>12, <2>1, <2>2, ReleaseTypes DEF DeleteAllPlayerSessions
  <1>13. CASE SendMessageAll
    <2>1. tasks' \in Seq(Tasks) /\ UNCHANGED <<ws, alive, registered>>
      BY <1>13, RunTypes DEF SendMessageAll
    <2>2. PICK full \in SUBSET Open :
            /\ Players' = [p \in PlayerIds |->
                   IF p \in full THEN [Players[p] EXCEPT !.channel = "closed"] ELSE Players[p]]
            /\ behind' = [p \in PlayerIds |->
                   IF p \notin Open \ full THEN NoneYet
                   ELSE IF behind[p] = NoneYet THEN OnTheWay(tasks') ELSE behind[p] - 1]
      BY <1>13 DEF SendMessageAll
    <2>3. \A p \in PlayerIds : [Players[p] EXCEPT !.channel = "closed"] \in Session
      BY <1>2 DEF Session
    <2>4. Players' \in [PlayerIds -> Session]
      BY <1>2, <2>2, <2>3
    <2>5. OnTheWay(tasks') \in Int
      BY <2>1, OnTheWayIsInt
    <2>6. behind' \in [PlayerIds -> Int]
      BY <1>2, <2>2, <2>5 DEF NoneYet
    <2>7. QED
      BY <1>2, <2>1, <2>4, <2>6
  <1>14. ASSUME NEW p \in PlayerIds, ChannelChanges(p) PROVE DeliveryTypeOK'
    <2>1. UNCHANGED <<tasks, ws, alive, registered>>
      BY <1>14 DEF ChannelChanges, CallbackUnchanged
    <2>2. behind' \in [PlayerIds -> Int]
      BY <1>0, <1>2, <1>14 DEF ChannelChanges
    <2>4. Players' \in [PlayerIds -> Session]
      BY <1>2, <1>14, ZenonT(40) DEF ChannelChanges, Session
    <2>3. QED
      BY <1>2, <2>1, <2>2, <2>4 DEF DeliveryTypeOK, WsType, Session
  <1>15. ASSUME NEW p \in PlayerIds, AddStreamsOnAnswer(p) PROVE DeliveryTypeOK'
    <2>1. UNCHANGED <<tasks, ws, behind>>
      BY <1>15 DEF AddStreamsOnAnswer, CallbackUnchanged
    <2>2. PICK s \in Sources : /\ alive' = alive \cup {s} /\ registered' = [registered EXCEPT ![p] = s]
                               /\ Players' = [Players EXCEPT ![p].source = s, ![p].adds = FALSE]
      BY <1>15 DEF AddStreamsOnAnswer, Register
    <2>3. Players' \in [PlayerIds -> Session]
      BY <1>2, <2>2, ZenonT(40) DEF Session
    <2>4. QED
      BY <1>2, <2>1, <2>2, <2>3 DEF DeliveryTypeOK, WsType, Session
  <1>16. CASE EncodeFrame
    <2>1. CASE UNCHANGED <<tasks, behind>>
      BY <1>2, <1>16, <2>1 DEF EncodeFrame
    <2>2. ASSUME NEW task \in Tasks, Post(task),
                 behind' = [p \in PlayerIds |-> IF behind[p] = NoneYet THEN NoneYet
                                                ELSE behind[p] + 1]
          PROVE  DeliveryTypeOK'
      <3>1. tasks' \in Seq(Tasks)
        BY <1>2, <2>2, Posted
      <3>2. behind' \in [PlayerIds -> Int]
        BY <1>2, <2>2 DEF NoneYet
      <3>3. QED
        BY <1>2, <1>16, <3>1, <3>2 DEF EncodeFrame, DeliveryTypeOK, WsType, Session
    <2>3. QED
      BY <1>16, <2>1, <2>2, EncodeFrameGives DEF DeliveryTypeOK, WsType, Session
  <1>17. CASE PumpAlone
    BY <1>2, <1>17 DEF PumpAlone, deliveryVars
  <1>18. QED
    BY <1>4, <1>5, <1>6, <1>7, <1>8, <1>9, <1>10, <1>11, <1>12, <1>13, <1>14, <1>15, <1>16, <1>17,
       DeliverySteps DEF DeliveryTypeOK, WsType, Session

-----------------------------------------------------------------------------
(* The steps keep the discipline of the queue. *)

LEMMA QueueStep ==
    ASSUME DeliveryTypeOK, QueueOK, DeliveryNext
    PROVE  QueueOK'
  <1>1. tasks \in Seq(Tasks)
    BY DEF DeliveryTypeOK
  <1>2. UNCHANGED <<tasks, ws>> => QueueOK'
    BY DEF QueueOK
  <1>3. ASSUME NEW p \in PlayerIds, OnPlayerConnected(p) \/ OnOffer(p) \/ OnPlayerDisconnected(p)
        PROVE  QueueOK'
    <2>1. PICK task \in Tasks : Post(task) /\ GoesOn(task)
      BY <1>3, CallTypes
    <2>2. QED
      BY <1>1, <2>1, QueuePosted
  <1>4. CASE OnSignallingServerDisconnected
    <2>1. PICK task \in Tasks : Post(task) /\ GoesOn(task)
      BY <1>4, PostsDeleteAll
    <2>2. QED
      BY <1>1, <2>1, QueuePosted
  <1>5. CASE SetVideoSource
    <2>1. PICK s \in Sources :
            LET task == [op |-> "set source", player |-> ws.player, source |-> s] IN
            /\ task \in Tasks /\ Post(task) /\ ws.pc = "adding" /\ ws.player \in PlayerIds
            /\ ws'.pc = "registering" /\ ws'.player = ws.player
      BY <1>5, PostsSource
    <2>. DEFINE task == [op |-> "set source", player |-> ws.player, source |-> s]
                n == Len(tasks) + 1
    <2>2. /\ \A i \in DOMAIN tasks' :
                \/ i \in DOMAIN tasks /\ tasks'[i] = tasks[i] /\ i \in Nat /\ i < n
                \/ i = n /\ tasks'[i] = task
          /\ task.op = "set source"
      BY <1>1, <2>1, Posted
    <2>. HIDE DEF n, task
    <2>3. \A i \in DOMAIN tasks : tasks[i].op = "send video" /\ tasks[i].source = NoSource
      BY <2>1 DEF QueueOK
    <2>4. \A i \in DOMAIN tasks' : tasks'[i].op = "set source" <=> i = n
      <3>1. n \notin DOMAIN tasks
        BY <1>1, <2>1, Posted DEF n
      <3>2. QED
        BY <2>2, <2>3, <3>1
    <2>5. ASSUME NEW i \in DOMAIN tasks'
          PROVE  /\ tasks'[i].op \in {"send video", "set source"}
                 /\ tasks'[i].op # "set source" => tasks'[i].source = NoSource
      BY <2>2, <2>3
    <2>6. ASSUME NEW i \in DOMAIN tasks', tasks'[i].op = "set source",
                 NEW j \in DOMAIN tasks', j < i
          PROVE  tasks'[j].op = "send video"
      <3>1. i = n
        BY <2>4, <2>6
      <3>2. j # n
        <4>1. j < n
          BY <2>6, <3>1
        <4>2. n \in Nat
          <5>1. Len(tasks) \in Nat
            BY <1>1, LenProperties
          <5>. HIDE <2>6
          <5>2. QED
            BY <5>1 DEF n
        <4>. HIDE <2>6
        <4>3. QED
          BY <4>1, <4>2
      <3>3. QED
        BY <2>2, <2>3, <3>2
    <2>7. QED
      BY <2>1, <2>5, <2>6 DEF QueueOK
  <1>6. CASE Initialize
    <2>1. /\ UNCHANGED tasks /\ ws.pc = "registering" /\ ws' = [ws EXCEPT !.pc = "returning"]
      BY <1>6 DEF Initialize
    <2>2. ws'.pc = "returning" /\ ws'.player = ws.player
      BY <2>1 DEF DeliveryTypeOK
    <2>3. QED
      BY <2>1, <2>2, ZenonT(40) DEF QueueOK
  <1>7. CASE ReturnFromSetup
    <2>1. UNCHANGED tasks /\ ws.pc = "returning" /\ ws'.pc = "idle" /\ ws'.source = NoSource
      BY <1>7 DEF ReturnFromSetup, Idle
    <2>2. \A i \in DOMAIN tasks : tasks[i].op \in {"send video", "set source"}
      BY <2>1 DEF QueueOK
    <2>3. QED
      BY <2>1, <2>2, ZenonT(40) DEF QueueOK
  <1>8. CASE CreatePlayerSession
    <2>1. tasks # <<>> /\ tasks' = Tail(tasks) /\ Head(tasks).op = "create"
      BY <1>8 DEF CreatePlayerSession, Run
    <2>2. /\ \A i \in DOMAIN tasks' : tasks'[i].op = "send video" /\ tasks'[i].source = NoSource
          /\ ws.player \in PlayerIds /\ ws.source = NoSource
      BY <1>1, <2>1, QueueBehind
    <2>3. \/ ws'.pc = "idle" /\ ws'.source = NoSource
          \/ ws'.pc = "adding" /\ ws'.player = ws.player /\ ws'.source = ws.source
      <3>1. ws' = Idle \/ ws' = [ws EXCEPT !.pc = "adding"]
        BY <1>8 DEF CreatePlayerSession
      <3>2. QED
        BY <3>1 DEF Idle, DeliveryTypeOK
    <2>4. QED
      BY <2>2, <2>3, QueueOfVideo
  <1>9. CASE SetVideoSource_SignallingThread
    BY <1>1, <1>9, QueuePopped DEF SetVideoSource_SignallingThread, Run
  <1>10. CASE DeletePlayerSession
    <2>1. tasks # <<>> /\ tasks' = Tail(tasks) /\ Head(tasks).op = "delete" /\ ws' = Idle
      BY <1>10 DEF DeletePlayerSession, Run
    <2>2. \A i \in DOMAIN tasks' : tasks'[i].op = "send video" /\ tasks'[i].source = NoSource
      BY <1>1, <2>1, QueueBehind
    <2>3. ws'.pc = "idle" /\ ws'.source = NoSource
      BY <2>1 DEF Idle
    <2>4. QED
      BY <2>2, <2>3, QueueOfVideo
  <1>11. CASE DeleteAllPlayerSessions
    BY <1>1, <1>2, <1>11, QueuePopped DEF DeleteAllPlayerSessions
  <1>12. CASE SendMessageAll
    BY <1>1, <1>12, QueuePopped DEF SendMessageAll, Run
  <1>13. CASE \E p \in PlayerIds : ChannelChanges(p) \/ AddStreamsOnAnswer(p)
    BY <1>2, <1>13 DEF ChannelChanges, AddStreamsOnAnswer, CallbackUnchanged
  <1>14. CASE EncodeFrame
    <2>1. ws' = ws
      BY <1>14 DEF EncodeFrame
    <2>2. CASE UNCHANGED tasks
      BY <1>2, <2>1, <2>2
    <2>3. CASE \E task \in Tasks : Post(task) /\ GoesOn(task)
      BY <1>1, <2>3, QueuePosted
    <2>4. QED
      BY <1>14, <2>2, <2>3, EncodeFrameGives
  <1>15. CASE PumpAlone
    BY <1>2, <1>15 DEF PumpAlone, deliveryVars
  <1>16. QED
    BY <1>3, <1>4, <1>5, <1>6, <1>7, <1>8, <1>9, <1>10, <1>11, <1>12, <1>13, <1>14, <1>15,
       DeliverySteps

-----------------------------------------------------------------------------
(* No message is missed. *)

LEMMA GapsStep ==
    ASSUME DeliveryTypeOK, QueueOK, NoGaps, DeliveryNext
    PROVE  NoGaps'
  <1>. DEFINE way == OnTheWay(tasks)
              wayNext == OnTheWay(tasks')
  <1>1. /\ tasks \in Seq(Tasks) /\ tasks' \in Seq(Tasks)
        /\ behind \in [PlayerIds -> Int]
        /\ Players \in [PlayerIds -> [source : Sources \cup {NoSource},
                           channel : {"deleted", "connecting", "open", "closed"}, adds : BOOLEAN]]
    BY TypeStep DEF DeliveryTypeOK
  <1>2. way \in Nat /\ wayNext \in Nat
    BY <1>1, OnTheWayIsInt
  <1>. HIDE DEF way, wayNext
  <1>3. ASSUME Open' \subseteq Open, wayNext = way,
               \A p \in Open' : behind'[p] = behind[p] \/ behind'[p] = NoneYet
        PROVE  NoGaps'
    BY <1>3 DEF NoGaps, way, wayNext
  <1>4. ASSUME NEW task \in Tasks, Post(task), task.op # "send video" PROVE wayNext = way
    <2>1. wayNext = way + 0
      BY <1>1, <1>4, OnTheWayPosted DEF way, wayNext
    <2>2. QED
      BY <1>2, <2>1
  <1>5. ASSUME tasks # <<>>, tasks' = Tail(tasks), Head(tasks).op # "send video"
        PROVE  wayNext = way
    <2>1. way = wayNext + 0
      BY <1>1, <1>5, OnTheWayPopped DEF way, wayNext
    <2>2. QED
      BY <1>2, <2>1
  <1>6. UNCHANGED tasks => wayNext = way
    BY DEF way, wayNext
  <1>7. ASSUME NEW p \in PlayerIds, OnPlayerConnected(p) \/ OnOffer(p) \/ OnPlayerDisconnected(p)
        PROVE  NoGaps'
    <2>1. PICK task \in Tasks :
            Post(task) /\ task.op \in {"create", "delete"} /\ UNCHANGED <<Players, behind>>
      BY <1>7, CallTypes
    <2>2. QED
      BY <1>3, <1>4, <2>1 DEF Open
  <1>8. CASE OnSignallingServerDisconnected
    <2>1. PICK task \in Tasks :
            Post(task) /\ task.op = "delete all" /\ UNCHANGED <<Players, behind>>
      BY <1>8, PostsDeleteAll
    <2>2. QED
      BY <1>3, <1>4, <2>1 DEF Open
  <1>9. CASE SetVideoSource
    <2>1. PICK s \in Sources :
            LET task == [op |-> "set source", player |-> ws.player, source |-> s] IN
            task \in Tasks /\ Post(task) /\ UNCHANGED <<Players, behind>>
      BY <1>9, PostsSource
    <2>2. QED
      BY <1>3, <1>4, <2>1 DEF Open
  <1>10. CASE Initialize \/ ReturnFromSetup
    BY <1>3, <1>6, <1>10 DEF Initialize, ReturnFromSetup, WsUnchanged, Open
  <1>11. CASE CreatePlayerSession
    <2>1. wayNext = way /\ UNCHANGED behind
      BY <1>5, <1>11 DEF CreatePlayerSession, Run
    <2>2. Open' \subseteq Open
      <3>1. \A b \in BOOLEAN : NewSession(b).channel # "open"
        BY DEF NewSession
      <3>2. QED
        BY <1>1, <1>11, <3>1 DEF CreatePlayerSession, Open
    <2>3. QED
      BY <1>3, <2>1, <2>2
  <1>12. CASE SetVideoSource_SignallingThread
    <2>1. wayNext = way /\ UNCHANGED behind
      BY <1>5, <1>12 DEF SetVideoSource_SignallingThread, Run
    <2>2. Open' \subseteq Open
      <3>1. PICK t, src : Players' = [Players EXCEPT ![t].source = src] \/ Players' = Players
        BY <1>12 DEF SetVideoSource_SignallingThread
      <3>2. \A p \in PlayerIds : Players'[p].channel = Players[p].channel
        BY <1>1, <3>1
      <3>3. QED
        BY <3>2 DEF Open
    <2>3. QED
      BY <1>3, <2>1, <2>2
  <1>13. CASE DeletePlayerSession
    <2>1. wayNext = way
      BY <1>5, <1>13 DEF DeletePlayerSession, Run
    <2>2. Open' \subseteq Open
      BY <1>1, <1>13 DEF DeletePlayerSession, Open, NoSession
    <2>3. \A p \in PlayerIds : behind'[p] = behind[p] \/ behind'[p] = NoneYet
      BY <1>1, <1>13 DEF DeletePlayerSession
    <2>4. QED
      BY <1>3, <2>1, <2>2, <2>3 DEF Open
  <1>14. CASE DeleteAllPlayerSessions
    <2>1. wayNext = way
      BY <1>5, <1>6, <1>14 DEF DeleteAllPlayerSessions
    <2>2. Open' \subseteq Open
      <3>1. \A p \in PlayerIds : Players'[p] = Players[p] \/ Players'[p] = NoSession
        BY <1>1, <1>14 DEF DeleteAllPlayerSessions
      <3>2. NoSession.channel # "open"
        BY DEF NoSession
      <3>3. QED
        BY <3>1, <3>2 DEF Open
    <2>3. \A p \in PlayerIds : behind'[p] = behind[p] \/ behind'[p] = NoneYet
      BY <1>1, <1>14 DEF DeleteAllPlayerSessions
    <2>4. QED
      BY <1>3, <2>1, <2>2, <2>3 DEF Open
  <1>15. CASE SendMessageAll
    <2>1. PICK full \in SUBSET Open :
            /\ Players' = [p \in PlayerIds |->
                   IF p \in full THEN [Players[p] EXCEPT !.channel = "closed"] ELSE Players[p]]
            /\ behind' = [p \in PlayerIds |->
                   IF p \notin Open \ full THEN NoneYet
                   ELSE IF behind[p] = NoneYet THEN OnTheWay(tasks') ELSE behind[p] - 1]
      BY <1>15 DEF SendMessageAll
    <2>2. way = wayNext + 1
      BY <1>1, <1>15, OnTheWayPopped DEF SendMessageAll, Run, way, wayNext
    <2>3. ASSUME NEW p \in PlayerIds, p \in Open' PROVE p \in Open \ full
      BY <1>1, <2>1, <2>3 DEF Open
    <2>4. ASSUME NEW p \in PlayerIds, p \in Open' PROVE behind'[p] = wayNext
      <3>1. p \in Open \ full
        BY <2>3, <2>4
      <3>2. behind'[p] = IF behind[p] = NoneYet THEN wayNext ELSE behind[p] - 1
        BY <2>1, <3>1 DEF wayNext
      <3>3. behind[p] = NoneYet \/ behind[p] = way
        BY <3>1 DEF NoGaps, way
      <3>4. way - 1 = wayNext
        BY <1>2, <2>2
      <3>5. QED
        BY <3>2, <3>3, <3>4
    <2>5. QED
      BY <2>4 DEF NoGaps, Open, wayNext
  <1>16. ASSUME NEW p \in PlayerIds, ChannelChanges(p) PROVE NoGaps'
    <2>1. UNCHANGED tasks /\ behind' = [behind EXCEPT ![p] = NoneYet]
      BY <1>16 DEF ChannelChanges, CallbackUnchanged
    <2>2. PICK to : Players' = [Players EXCEPT ![p].channel = to]
      BY <1>16 DEF ChannelChanges
    <2>3. ASSUME NEW q \in PlayerIds, q \in Open', behind'[q] # NoneYet
          PROVE  behind'[q] = wayNext
      <3>1. q # p
        BY <1>1, <2>1, <2>3
      <3>2. q \in Open /\ behind'[q] = behind[q]
        BY <1>1, <2>1, <2>2, <2>3, <3>1 DEF Open
      <3>3. QED
        BY <1>6, <2>1, <2>3, <3>2 DEF NoGaps, way
    <2>4. QED
      BY <2>3 DEF NoGaps, Open, wayNext
  <1>17. ASSUME NEW p \in PlayerIds, AddStreamsOnAnswer(p) PROVE NoGaps'
    <2>1. UNCHANGED <<tasks, behind>>
      BY <1>17 DEF AddStreamsOnAnswer, CallbackUnchanged
    <2>2. Open' \subseteq Open
      BY <1>1, <1>17 DEF AddStreamsOnAnswer, Open
    <2>3. QED
      BY <1>3, <1>6, <2>1, <2>2
  <1>18. CASE EncodeFrame
    <2>1. Open' = Open
      BY <1>18 DEF EncodeFrame, Open
    <2>2. CASE UNCHANGED <<tasks, behind>>
      BY <1>3, <1>6, <2>1, <2>2
    <2>3. ASSUME NEW task \in Tasks, Post(task), task.op = "send video",
                 behind' = [p \in PlayerIds |-> IF behind[p] = NoneYet THEN NoneYet
                                                ELSE behind[p] + 1]
          PROVE  NoGaps'
      <3>1. wayNext = way + 1
        BY <1>1, <2>3, OnTheWayPosted DEF way, wayNext
      <3>2. ASSUME NEW p \in Open, behind'[p] # NoneYet PROVE behind'[p] = wayNext
        BY <2>3, <3>1, <3>2 DEF NoGaps, Open, way
      <3>3. QED
        BY <2>1, <3>2 DEF NoGaps, wayNext
    <2>4. QED
      BY <1>18, <2>2, <2>3, EncodeFrameGives
  <1>19. CASE PumpAlone
    BY <1>3, <1>6, <1>19 DEF PumpAlone, deliveryVars, Open
  <1>20. QED
    BY <1>7, <1>8, <1>9, <1>10, <1>11, <1>12, <1>13, <1>14, <1>15, <1>16, <1>17, <1>18, <1>19,
       DeliverySteps

-----------------------------------------------------------------------------
(* The steps keep the sources where they belong. *)

\* A source that is made for a player without one.
LEMMA NewIsOnly ==
    ASSUME LinksOK, alive \subseteq Sources, NEW p \in PlayerIds, NEW s \in Sources, s[1] = p,
           Players[p].source = NoSource, \A t \in Pending : t.player # p,
           alive' = alive \cup {s}
    PROVE  /\ \A a, b \in alive' : a[1] = b[1] => a = b
           /\ \A a \in alive : a[1] # p
  <1>1. \A a \in alive : a[1] # p
    BY NoneFor
  <1>2. QED
    BY <1>1 DEF LinksOK

LEMMA SessionKept ==
    ASSUME NEW p, SessionOK(p), Players'[p] = Players[p], registered'[p] = registered[p],
           alive \subseteq alive', ws'.pc = "adding" => ws' = ws
    PROVE  SessionOK(p)'
  BY DEF SessionOK, Expects

LEMMA SetVideoSourceLinks ==
    ASSUME DeliveryTypeOK, QueueOK, LinksOK, SetVideoSource
    PROVE  LinksOK'
  <1>1. PICK s \in Sources :
          LET task == [op |-> "set source", player |-> ws.player, source |-> s] IN
          /\ task \in Tasks /\ Post(task)
          /\ s \notin alive /\ s[1] = ws.player /\ alive' = alive \cup {s}
          /\ ws.pc = "adding" /\ ws.player \in PlayerIds
          /\ ws'.pc = "registering" /\ ws'.player = ws.player /\ ws'.source = s
          /\ UNCHANGED <<registered, Players>>
    BY PostsSource
  <1>. DEFINE task == [op |-> "set source", player |-> ws.player, source |-> s]
  <1>2. tasks \in Seq(Tasks) /\ alive \subseteq Sources
    BY DEF DeliveryTypeOK
  <1>3. Pending = {}
    BY <1>1 DEF Pending, QueueOK
  <1>4. Pending' = {task}
    <2>1. Pending' = Pending \cup {task}
      BY <1>1, <1>2, PendingPosted
    <2>2. QED
      BY <1>3, <2>1
  <1>5. Expects(ws.player)
    BY <1>1 DEF LinksOK, SessionOK
  <1>6. /\ \A a, b \in alive' : a[1] = b[1] => a = b
        /\ \A a \in alive : a[1] # ws.player
    BY <1>1, <1>2, <1>3, <1>5, NewIsOnly DEF Expects
  <1>7. \A p \in PlayerIds : Expects(p)' <=> Expects(p)
    BY <1>1 DEF Expects
  <1>8. ASSUME NEW p \in PlayerIds PROVE SessionOK(p)'
    <2>1. SessionOK(p)
      BY DEF LinksOK
    <2>2. QED
      BY <1>1, <2>1 DEF SessionOK
  <1>9. \A t \in Pending' :
           /\ t.player \in PlayerIds /\ Expects(t.player)'
           /\ t.source \in alive' /\ t.source[1] = t.player
    <2>1. task.player = ws.player /\ task.source = s
      OBVIOUS
    <2>. HIDE DEF task
    <2>2. QED
      BY <1>1, <1>4, <1>5, <1>7, <2>1
  <1>10. alive' \subseteq Held'
    <2>1. s \in Held'
      BY <1>4 DEF Held
    <2>2. Held \subseteq Held'
      BY <1>1, <1>3 DEF Held
    <2>3. QED
      BY <1>1, <2>1, <2>2 DEF LinksOK
  <1>11. \A a \in alive' : registered'[a[1]] = a \/ (ws'.pc = "registering" /\ ws'.source = a)
    BY <1>1 DEF LinksOK
  <1>12. QED
    BY <1>1, <1>6, <1>8, <1>9, <1>10, <1>11 DEF LinksOK

LEMMA InitializeLinks ==
    ASSUME DeliveryTypeOK, QueueOK, LinksOK, Initialize
    PROVE  LinksOK'
  <1>1. /\ ws.pc = "registering" /\ ws.player \in PlayerIds
        /\ ws.source \in alive /\ ws.source[1] = ws.player
    BY DEF Initialize, QueueOK, LinksOK
  <1>2. /\ ws'.pc = "returning" /\ ws'.player = ws.player /\ ws'.source = ws.source
        /\ UNCHANGED <<tasks, alive, Players>>
        /\ registered' = [registered EXCEPT ![ws.player] = ws.source]
    BY DEF Initialize, Register, WsUnchanged, DeliveryTypeOK
  <1>3. /\ registered'[ws.player] = ws.source
        /\ \A p \in PlayerIds : p # ws.player => registered'[p] = registered[p]
    BY <1>1, <1>2 DEF DeliveryTypeOK
  <1>4. Pending' = Pending /\ Held' = Held /\ \A p \in PlayerIds : Expects(p)' <=> Expects(p)
    BY <1>2 DEF Pending, Held, Expects
  <1>5. ASSUME NEW p \in PlayerIds PROVE SessionOK(p)'
    <2>1. SessionOK(p)
      BY DEF LinksOK
    <2>2. registered'[p] # NoSource => registered'[p] \in alive' /\ registered'[p][1] = p
      BY <1>1, <1>2, <1>3, <2>1 DEF SessionOK
    <2>3. QED
      BY <1>2, <2>1, <2>2 DEF SessionOK
  <1>6. ASSUME NEW a \in alive' PROVE registered'[a[1]] = a
    <2>1. a \in alive /\ a[1] \in PlayerIds
      BY <1>2, SourceFacts DEF DeliveryTypeOK
    <2>2. CASE a[1] = ws.player
      BY <1>1, <1>3, <2>1, <2>2 DEF LinksOK
    <2>3. CASE a[1] # ws.player
      BY <1>1, <1>3, <2>1, <2>3 DEF LinksOK
    <2>4. QED
      BY <2>2, <2>3
  <1>7. \A t \in Pending' :
           /\ t.player \in PlayerIds /\ Expects(t.player)'
           /\ t.source \in alive' /\ t.source[1] = t.player
    BY <1>2, <1>4 DEF LinksOK
  <1>8. alive' \subseteq Held' /\ \A a, b \in alive' : a[1] = b[1] => a = b
    BY <1>2, <1>4 DEF LinksOK
  <1>9. QED
    BY <1>1, <1>2, <1>5, <1>6, <1>7, <1>8 DEF LinksOK

LEMMA ReturnLinks ==
    ASSUME DeliveryTypeOK, QueueOK', LinksOK, ReturnFromSetup
    PROVE  LinksOK' /\ UNCHANGED <<alive, registered, VideoSources, pump>>
  <1>1. /\ UNCHANGED <<tasks, Players>> /\ ws.pc = "returning" /\ ws'.pc = "idle" /\ Release
    BY DEF ReturnFromSetup, Idle
  <1>2. Pending' = Pending /\ Held' = Held
    BY <1>1 DEF Pending, Held
  <1>3. UNCHANGED <<alive, registered, VideoSources, pump>>
    BY <1>1, <1>2, HeldAreReferenced, ReleaseNothing DEF LinksOK
  <1>4. LinksOK'
    BY <1>1, <1>2, <1>3, LinksKept
  <1>5. QED
    BY <1>3, <1>4

LEMMA CreateLinks ==
    ASSUME DeliveryTypeOK, QueueOK, LinksOK, CreatePlayerSession
    PROVE  LinksOK'
  <1>. DEFINE p == Head(tasks).player
  <1>1. /\ tasks \in Seq(Tasks) /\ tasks # <<>> /\ tasks' = Tail(tasks)
        /\ Head(tasks).op = "create" /\ UNCHANGED <<alive, registered>>
    BY DEF DeliveryTypeOK, CreatePlayerSession, Run
  <1>2. /\ Pending = {} /\ Pending' = {} /\ p = ws.player /\ p \in PlayerIds
        /\ ws.pc \in {"connecting", "offered"} /\ ws.source = NoSource
    BY <1>1, QueueBehind
  <1>3. CASE HasSession(p)
    <2>1. Players' = Players /\ ws' = Idle
      BY <1>3 DEF CreatePlayerSession
    <2>2. QED
      BY <1>1, <1>2, <2>1, LinksKept DEF Idle
  <1>4. CASE ~HasSession(p)
    <2>1. /\ Players' = [Players EXCEPT ![p] = NewSession(ws.pc = "offered")]
          /\ ws' = IF ws.pc = "offered" THEN Idle ELSE [ws EXCEPT !.pc = "adding"]
      BY <1>4 DEF CreatePlayerSession
    <2>2. Players[p] = NoSession
      BY <1>4 DEF HasSession
    <2>3. /\ \A q \in PlayerIds : q # p => Players'[q] = Players[q]
          /\ Players'[p].source = NoSource /\ Players'[p].channel = "connecting"
          /\ Players[p].source = NoSource
      BY <1>2, <2>1, <2>2 DEF DeliveryTypeOK, NewSession, NoSession
    <2>4. \/ ws.pc = "offered" /\ ws'.pc = "idle"
          \/ /\ ws.pc = "connecting" /\ ws'.pc = "adding" /\ ws'.player = p
             /\ ~Players'[p].adds
      <3>1. CASE ws.pc = "offered"
        BY <2>1, <3>1 DEF Idle
      <3>2. CASE ws.pc # "offered"
        <4>1. Players'[p] = NewSession(FALSE)
          BY <1>2, <2>1, <3>2 DEF DeliveryTypeOK
        <4>2. ws'.pc = "adding" /\ ws'.player = p
          BY <1>2, <2>1, <3>2 DEF DeliveryTypeOK
        <4>3. ~Players'[p].adds
          BY <4>1 DEF NewSession
        <4>4. QED
          BY <1>2, <3>2, <4>2, <4>3
      <3>3. QED
        BY <3>1, <3>2
    <2>5. ASSUME NEW q \in PlayerIds PROVE SessionOK(q)'
      <3>1. SessionOK(q)
        BY DEF LinksOK
      <3>2. CASE q = p
        BY <1>1, <2>3, <2>4, <3>1, <3>2 DEF SessionOK, Expects
      <3>3. CASE q # p
        <4>1. Players'[q] = Players[q]
          BY <2>3, <3>3
        <4>2. ~(ws'.pc = "adding" /\ ws'.player = q)
          BY <2>4, <3>3
        <4>3. QED
          BY <1>1, <3>1, <4>1, <4>2 DEF SessionOK
      <3>4. QED
        BY <3>2, <3>3
    <2>6. Held' = Held
      <3>1. \A q \in PlayerIds : Players'[q].source = Players[q].source
        BY <2>3
      <3>2. QED
        BY <1>2, <3>1 DEF Held
    <2>7. QED
      BY <1>1, <1>2, <2>4, <2>5, <2>6 DEF LinksOK
  <1>5. QED
    BY <1>3, <1>4

LEMMA SetOnSignallingThreadLinks ==
    ASSUME DeliveryTypeOK, QueueOK, QueueOK', LinksOK, SetVideoSource_SignallingThread
    PROVE  LinksOK' /\ UNCHANGED <<alive, registered, VideoSources, pump>>
  <1>. DEFINE task == Head(tasks)
              p == task.player
  <1>1. /\ tasks \in Seq(Tasks) /\ tasks # <<>> /\ tasks' = Tail(tasks)
        /\ task.op = "set source" /\ UNCHANGED ws /\ Release
        /\ Players' = IF HasSession(p) THEN [Players EXCEPT ![p].source = task.source] ELSE Players
    BY DEF DeliveryTypeOK, SetVideoSource_SignallingThread, Run
  <1>2. Pending = {task} /\ Pending' = {}
    BY <1>1, PendingPopped
  <1>3. p \in PlayerIds /\ Expects(p) /\ task.source \in alive /\ task.source[1] = p
    BY <1>2 DEF LinksOK
  <1>4. HasSession(p)
    BY <1>3 DEF HasSession, Expects, NoSession
  <1>5. /\ \A q \in PlayerIds : q # p => Players'[q] = Players[q]
        /\ Players'[p].source = task.source
        /\ Players'[p].adds = Players[p].adds /\ Players'[p].channel = Players[p].channel
    BY <1>1, <1>3, <1>4 DEF DeliveryTypeOK
  <1>6. alive \subseteq Held'
    <2>1. ASSUME NEW s \in alive PROVE s \in Held'
      <3>1. s \in Held /\ s # NoSource
        BY SourceFacts DEF LinksOK, DeliveryTypeOK
      <3>2. CASE s = task.source
        BY <1>3, <1>5, <3>2 DEF Held
      <3>3. CASE \E q \in PlayerIds : Players[q].source = s
        BY <1>3, <1>5, <3>1, <3>3 DEF Held, Expects
      <3>4. QED
        BY <1>2, <3>1, <3>2, <3>3 DEF Held
    <2>2. QED
      BY <2>1
  <1>7. UNCHANGED <<alive, registered, VideoSources, pump>>
    BY <1>1, <1>6, HeldAreReferenced, ReleaseNothing
  <1>8. ws.pc # "adding"
    BY <1>1, Popped DEF QueueOK
  <1>9. ASSUME NEW q \in PlayerIds PROVE SessionOK(q)'
    <2>1. SessionOK(q)
      BY DEF LinksOK
    <2>2. CASE q = p
      <3>1. /\ Players'[p].channel # "deleted" /\ Players'[p].source \in alive
            /\ Players'[p].source[1] = p
        BY <1>3, <1>5 DEF Expects
      <3>2. ~Players'[p].adds
        <4>1. ~Players[p].adds
          BY <1>3 DEF Expects
        <4>2. QED
          BY <1>5, <4>1
      <3>3. ws'.pc # "adding"
        BY <1>1, <1>8
      <3>4. registered'[p] # NoSource => registered'[p] \in alive' /\ registered'[p][1] = p
        BY <1>7, <2>1, <2>2 DEF SessionOK
      <3>. HIDE DEF p
      <3>5. QED
        BY <1>7, <2>2, <3>1, <3>2, <3>3, <3>4 DEF SessionOK
    <2>3. CASE q # p
      <3>1. Players'[q] = Players[q]
        BY <1>5, <2>3
      <3>2. QED
        BY <1>1, <1>7, <2>1, <3>1, SessionKept
    <2>4. QED
      BY <2>2, <2>3
  <1>10. LinksOK'
    BY <1>1, <1>2, <1>6, <1>7, <1>9 DEF LinksOK
  <1>11. QED
    BY <1>7, <1>10

LEMMA AddStreamsLinks ==
    ASSUME DeliveryTypeOK, QueueOK, LinksOK, NEW p \in PlayerIds, AddStreamsOnAnswer(p)
    PROVE  LinksOK'
  <1>1. PICK s \in Sources :
          /\ s \notin alive /\ s[1] = p /\ alive' = alive \cup {s}
          /\ Players' = [Players EXCEPT ![p].source = s, ![p].adds = FALSE]
          /\ registered' = [registered EXCEPT ![p] = s]
    BY DEF AddStreamsOnAnswer, NewSource, Register
  <1>2. UNCHANGED <<tasks, ws>> /\ HasSession(p) /\ Players[p].adds
    BY DEF AddStreamsOnAnswer, CallbackUnchanged
  <1>3. /\ \A q \in PlayerIds : q # p => Players'[q] = Players[q] /\ registered'[q] = registered[q]
        /\ Players'[p].source = s /\ ~Players'[p].adds
        /\ Players'[p].channel = Players[p].channel /\ registered'[p] = s
    BY <1>1 DEF DeliveryTypeOK
  <1>4. SessionOK(p) /\ Players[p].source = NoSource /\ ~Expects(p)
    BY <1>2 DEF LinksOK, SessionOK, Expects
  <1>5. Players[p].channel # "deleted"
    BY <1>2, <1>4 DEF HasSession, SessionOK
  <1>6. Pending' = Pending /\ \A t \in Pending : t.player # p
    <2>1. Pending' = Pending
      BY <1>2 DEF Pending
    <2>2. \A t \in Pending : Expects(t.player)
      BY DEF LinksOK
    <2>3. QED
      BY <1>4, <2>1, <2>2
  <1>7. /\ \A a, b \in alive' : a[1] = b[1] => a = b
        /\ \A a \in alive : a[1] # p
    BY <1>1, <1>4, <1>6, NewIsOnly DEF DeliveryTypeOK
  <1>8. ASSUME NEW q \in PlayerIds PROVE SessionOK(q)'
    <2>1. SessionOK(q)
      BY DEF LinksOK
    <2>2. CASE q = p
      BY <1>1, <1>2, <1>3, <1>4, <1>5, <2>2 DEF SessionOK
    <2>3. CASE q # p
      <3>1. Players'[q] = Players[q] /\ registered'[q] = registered[q]
        BY <1>3, <2>3
      <3>2. QED
        BY <1>1, <1>2, <2>1, <3>1, SessionKept
    <2>4. QED
      BY <2>2, <2>3
  <1>9. \A t \in Pending' :
           /\ t.player \in PlayerIds /\ Expects(t.player)'
           /\ t.source \in alive' /\ t.source[1] = t.player
    <2>1. ASSUME NEW t \in Pending PROVE Expects(t.player)'
      <3>1. t.player \in PlayerIds /\ t.player # p /\ Expects(t.player)
        BY <1>6 DEF LinksOK
      <3>2. Players'[t.player] = Players[t.player]
        BY <1>3, <3>1
      <3>3. QED
        BY <3>1, <3>2 DEF Expects
    <2>2. QED
      BY <1>1, <1>6, <2>1 DEF LinksOK
  <1>10. alive' \subseteq Held'
    <2>1. ASSUME NEW a \in alive PROVE a \in Held'
      <3>1. a \in Held /\ a # NoSource
        BY SourceFacts DEF LinksOK, DeliveryTypeOK
      <3>2. CASE \E t \in Pending : t.source = a
        BY <1>6, <3>2 DEF Held
      <3>3. CASE \E q \in PlayerIds : Players[q].source = a
        BY <1>3, <1>4, <3>1, <3>3 DEF Held
      <3>4. QED
        BY <3>1, <3>2, <3>3 DEF Held
    <2>2. s \in Held'
      BY <1>3 DEF Held
    <2>3. QED
      BY <1>1, <2>1, <2>2
  <1>11. ASSUME NEW a \in alive'
         PROVE  registered'[a[1]] = a \/ (ws'.pc = "registering" /\ ws'.source = a)
    <2>1. CASE a = s
      BY <1>1, <1>3, <2>1
    <2>2. CASE a # s
      <3>1. a \in alive /\ a[1] # p /\ a[1] \in PlayerIds
        BY <1>1, <1>7, <2>2, SourceFacts DEF DeliveryTypeOK
      <3>2. registered'[a[1]] = registered[a[1]]
        BY <1>3, <3>1
      <3>3. QED
        BY <1>2, <3>1, <3>2 DEF LinksOK
    <2>3. QED
      BY <2>1, <2>2
  <1>12. ws'.pc \in {"registering", "returning"} =>
            ws'.source \in alive' /\ ws'.source[1] = ws'.player
    BY <1>1, <1>2 DEF LinksOK
  <1>13. QED
    BY <1>7, <1>8, <1>9, <1>10, <1>11, <1>12 DEF LinksOK

LEMMA FirstTask ==
    ASSUME tasks \in Seq(Tasks), tasks # <<>>
    PROVE  /\ 1 \in DOMAIN tasks /\ Head(tasks) = tasks[1]
           /\ \A i \in DOMAIN tasks : i # 1 => 1 < i
  <1>1. Head(tasks) = tasks[1] /\ Len(tasks) \in Nat \ {0}
    BY TailFacts
  <1>2. DOMAIN tasks = 1 .. Len(tasks)
    BY LenProperties
  <1>3. QED
    BY <1>1, <1>2

\* The sessions that the signalling server's end takes away.
LEMMA DeleteAllLinks ==
    ASSUME DeliveryTypeOK, QueueOK, QueueOK', LinksOK, DeleteAllPlayerSessions
    PROVE  /\ LinksOK'
           /\ \/ UNCHANGED <<alive, registered, VideoSources, pump>>
              \/ \E p \in PlayerIds :
                    SourcesGuardFree /\ VideoSources' = VideoSources \ {p} /\ Notify
  <1>1. /\ tasks \in Seq(Tasks) /\ tasks # <<>> /\ Head(tasks).op = "delete all"
        /\ UNCHANGED ws /\ Release
    BY DEF DeliveryTypeOK, DeleteAllPlayerSessions
  <1>2. 1 \in DOMAIN tasks /\ tasks[1].op = "delete all"
    BY <1>1, FirstTask
  <1>3. ws.pc \notin {"adding", "registering", "returning"} /\ ws.source = NoSource
    BY <1>2 DEF QueueOK
  <1>4. Pending = {}
    <2>1. \A i \in DOMAIN tasks : tasks[i].op = "set source" => FALSE
      <3>1. ASSUME NEW i \in DOMAIN tasks, tasks[i].op = "set source" PROVE FALSE
        <4>1. 1 < i
          BY <1>1, <1>2, <3>1, FirstTask
        <4>2. QED
          BY <1>2, <3>1, <4>1 DEF QueueOK
      <3>2. QED
        BY <3>1
    <2>2. QED
      BY <2>1 DEF Pending
  <1>5. ASSUME NEW p \in PlayerIds, Players' = [Players EXCEPT ![p] = NoSession], UNCHANGED tasks
        PROVE  /\ LinksOK'
               /\ \/ UNCHANGED <<alive, registered, VideoSources, pump>>
                  \/ SourcesGuardFree /\ VideoSources' = VideoSources \ {p} /\ Notify
    <2>1. Pending' = {}
      BY <1>4, <1>5 DEF Pending
    <2>2. \A q \in PlayerIds : Players'[q] = IF q = p THEN NoSession ELSE Players[q]
      BY <1>5 DEF DeliveryTypeOK
    <2>3. QED
      BY <1>1, <1>3, <1>4, <2>1, <2>2, SessionGoes
  <1>6. ASSUME \A p \in PlayerIds : ~HasSession(p), tasks' = Tail(tasks), UNCHANGED Players
        PROVE  LinksOK' /\ UNCHANGED <<alive, registered, VideoSources, pump>>
    <2>1. Pending' = Pending
      BY <1>1, <1>6, PendingPopped
    <2>2. Held' = Held
      BY <1>6, <2>1 DEF Held
    <2>3. UNCHANGED <<alive, registered, VideoSources, pump>>
      BY <1>1, <2>2, HeldAreReferenced, ReleaseNothing DEF LinksOK
    <2>4. LinksOK'
      BY <1>1, <1>6, <2>1, <2>3, LinksKept
    <2>5. QED
      BY <2>3, <2>4
  <1>7. QED
    BY <1>5, <1>6 DEF DeleteAllPlayerSessions

LEMMA DeleteLinks ==
    ASSUME DeliveryTypeOK, QueueOK, QueueOK', LinksOK, DeletePlayerSession
    PROVE  /\ LinksOK'
           /\ \/ UNCHANGED <<alive, registered, VideoSources, pump>>
              \/ \E p \in PlayerIds :
                    SourcesGuardFree /\ VideoSources' = VideoSources \ {p} /\ Notify
  <1>. DEFINE p == Head(tasks).player
  <1>1. /\ tasks \in Seq(Tasks) /\ tasks # <<>> /\ tasks' = Tail(tasks)
        /\ Head(tasks).op = "delete" /\ ws' = Idle /\ Release
        /\ Players' = [Players EXCEPT ![p] = NoSession]
    BY DEF DeliveryTypeOK, DeletePlayerSession, Run
  <1>2. /\ Pending = {} /\ Pending' = {} /\ p \in PlayerIds
        /\ ws.pc = "deleting"
    BY <1>1, QueueBehind
  <1>3. ws'.pc = "idle" /\ ws'.source = NoSource
    BY <1>1 DEF Idle
  <1>4. \A q \in PlayerIds : Players'[q] = IF q = p THEN NoSession ELSE Players[q]
    BY <1>1 DEF DeliveryTypeOK
  <1>. HIDE DEF p
  <1>5. QED
    BY <1>1, <1>2, <1>3, <1>4, SessionGoes

LEMMA LinksStep ==
    ASSUME DeliveryTypeOK, QueueOK, LinksOK, DeliveryNext
    PROVE  LinksOK'
  <1>1. QueueOK'
    BY QueueStep
  <1>2. tasks \in Seq(Tasks)
    BY DEF DeliveryTypeOK
  <1>3. ASSUME UNCHANGED <<alive, registered, Players, ws>>, Pending' = Pending PROVE LinksOK'
    BY <1>3, LinksKept
  <1>4. ASSUME NEW task \in Tasks, Post(task), task.op # "set source" PROVE Pending' = Pending
    BY <1>2, <1>4, PendingPosted
  <1>5. ASSUME NEW p \in PlayerIds, OnPlayerConnected(p) \/ OnOffer(p) \/ OnPlayerDisconnected(p)
        PROVE  LinksOK'
    <2>1. PICK task \in Tasks :
            /\ Post(task) /\ task.op \in {"create", "delete"} /\ ws = Idle
            /\ ws'.pc \in {"connecting", "offered", "deleting"}
            /\ UNCHANGED <<Players, alive, registered>>
      BY <1>5, CallTypes
    <2>2. ws.pc # "registering"
      BY <2>1 DEF Idle
    <2>3. Pending' = Pending
      BY <1>4, <2>1
    <2>4. QED
      BY <2>1, <2>2, <2>3, LinksKept
  <1>6. CASE OnSignallingServerDisconnected
    <2>1. PICK task \in Tasks :
            Post(task) /\ task.op = "delete all" /\ UNCHANGED <<ws, Players, alive, registered>>
      BY <1>6, PostsDeleteAll
    <2>2. QED
      BY <1>3, <1>4, <2>1
  <1>7. CASE SendMessageAll
    <2>1. /\ UNCHANGED <<ws, alive, registered>>
          /\ tasks # <<>> /\ tasks' = Tail(tasks) /\ Head(tasks).op = "send video"
      BY <1>7 DEF SendMessageAll, Run
    <2>2. Pending' = Pending
      BY <1>2, <2>1, PendingPopped
    <2>3. PICK full \in SUBSET Open :
            Players' = [p \in PlayerIds |->
                   IF p \in full THEN [Players[p] EXCEPT !.channel = "closed"] ELSE Players[p]]
      BY <1>7 DEF SendMessageAll
    <2>4. ASSUME NEW p \in PlayerIds
          PROVE  /\ Players'[p].source = Players[p].source /\ Players'[p].adds = Players[p].adds
                 /\ Players'[p].channel = "deleted" <=> Players[p].channel = "deleted"
                 /\ Players[p] = NoSession => Players'[p] = NoSession
      <3>1. CASE p \in full
        <4>1. Players[p].channel = "open" /\ Players'[p] = [Players[p] EXCEPT !.channel = "closed"]
          BY <2>3, <3>1 DEF Open
        <4>2. Players[p] # NoSession
          BY <4>1 DEF NoSession
        <4>3. QED
          BY <4>1, <4>2 DEF DeliveryTypeOK
      <3>2. CASE p \notin full
        BY <2>3, <3>2
      <3>3. QED
        BY <3>1, <3>2
    <2>5. QED
      BY <2>1, <2>2, <2>4, LinksKept
  <1>8. ASSUME NEW p \in PlayerIds, ChannelChanges(p) PROVE LinksOK'
    <2>1. UNCHANGED <<tasks, ws, alive, registered>> /\ HasSession(p)
      BY <1>8 DEF ChannelChanges, CallbackUnchanged
    <2>2. PICK to \in {"open", "closed"} : Players' = [Players EXCEPT ![p].channel = to]
      BY <1>8 DEF ChannelChanges
    <2>3. ASSUME NEW q \in PlayerIds
          PROVE  /\ Players'[q].source = Players[q].source /\ Players'[q].adds = Players[q].adds
                 /\ Players'[q].channel = "deleted" <=> Players[q].channel = "deleted"
                 /\ Players[q] = NoSession => Players'[q] = NoSession
      <3>1. CASE q = p
        <4>1. Players[p].channel # "deleted" /\ Players[p] # NoSession
          BY <2>1 DEF HasSession, LinksOK, SessionOK
        <4>2. /\ Players'[p].source = Players[p].source /\ Players'[p].adds = Players[p].adds
              /\ Players'[p].channel = to
          BY <2>2 DEF DeliveryTypeOK
        <4>3. QED
          BY <3>1, <4>1, <4>2
      <3>2. CASE q # p
        <4>1. Players'[q] = Players[q]
          BY <2>2, <3>2 DEF DeliveryTypeOK
        <4>2. QED
          BY <4>1
      <3>3. QED
        BY <3>1, <3>2
    <2>4. Pending' = Pending
      BY <2>1 DEF Pending
    <2>5. QED
      BY <2>1, <2>3, <2>4, LinksKept
  <1>9. CASE EncodeFrame
    <2>1. UNCHANGED <<ws, Players, alive, registered>>
      BY <1>9 DEF EncodeFrame
    <2>2. CASE UNCHANGED tasks
      BY <1>3, <2>1, <2>2 DEF Pending
    <2>3. CASE \E task \in Tasks : Post(task) /\ task.op = "send video"
      BY <1>3, <1>4, <2>1, <2>3
    <2>4. QED
      BY <1>9, <2>2, <2>3, EncodeFrameGives
  <1>10. CASE PumpAlone
    BY <1>3, <1>10 DEF PumpAlone, deliveryVars, Pending
  <1>11. QED
    BY <1>1, <1>5, <1>6, <1>7, <1>8, <1>9, <1>10, SetVideoSourceLinks, InitializeLinks, ReturnLinks,
       CreateLinks, SetOnSignallingThreadLinks, DeleteLinks, DeleteAllLinks, AddStreamsLinks,
       DeliverySteps

-----------------------------------------------------------------------------
LEMMA InitDelivery == DeliveryInit => DeliveryInv
  <1>. SUFFICES ASSUME DeliveryInit PROVE DeliveryInv
    OBVIOUS
  <1>1. tasks = <<>> /\ tasks \in Seq(Tasks) /\ DOMAIN tasks = {}
    <2>1. tasks = <<>>
      BY DEF DeliveryInit
    <2>2. tasks \in Seq(Tasks) /\ Len(tasks) = 0
      BY <2>1, EmptySeq
    <2>3. DOMAIN tasks = {}
      BY <2>2, LenProperties
    <2>4. QED
      BY <2>1, <2>2, <2>3
  <1>2. ws = Idle /\ ws.pc = "idle" /\ ws.source = NoSource
    BY DEF DeliveryInit, Idle
  <1>3. \A p \in PlayerIds : Players[p] = NoSession /\ registered[p] = NoSource /\ behind[p] = NoneYet
    BY DEF DeliveryInit
  <1>4. DeliveryTypeOK
    <2>1. ws \in [pc : WsPlaces, player : PlayerIds \cup {<<>>}, source : Sources \cup {NoSource}]
      BY <1>2 DEF Idle, WsPlaces
    <2>2. NoSession \in [source : Sources \cup {NoSource},
                         channel : {"deleted", "connecting", "open", "closed"}, adds : BOOLEAN]
      BY DEF NoSession
    <2>3. NoneYet \in Int
      BY DEF NoneYet
    <2>4. QED
      BY <1>1, <2>1, <2>2, <2>3 DEF DeliveryInit, DeliveryTypeOK
  <1>5. QueueOK
    BY <1>1, <1>2 DEF QueueOK
  <1>6. Pending = {}
    BY <1>1 DEF Pending
  <1>7. ASSUME NEW p \in PlayerIds PROVE SessionOK(p)
    <2>1. NoSession.source = NoSource /\ ~NoSession.adds
      BY DEF NoSession
    <2>2. QED
      BY <1>2, <1>3, <2>1 DEF SessionOK
  <1>8. alive = {}
    BY DEF DeliveryInit
  <1>9. LinksOK
    BY <1>2, <1>6, <1>7, <1>8 DEF LinksOK
  <1>10. NoGaps
    BY <1>3 DEF NoGaps, Open
  <1>11. QED
    BY <1>4, <1>5, <1>9, <1>10 DEF DeliveryInv

LEMMA DeliveryStep == DeliveryInv /\ [DeliveryNext]_allVars => DeliveryInv'
  <1>1. CASE DeliveryInv /\ DeliveryNext
    BY <1>1, TypeStep, QueueStep, LinksStep, GapsStep DEF DeliveryInv
  <1>2. CASE DeliveryInv /\ UNCHANGED allVars
    <2>1. UNCHANGED <<tasks, ws, Players, alive, registered, behind>>
      BY <1>2 DEF allVars, deliveryVars
    <2>2. DeliveryTypeOK'
      BY <1>2, <2>1 DEF DeliveryInv, DeliveryTypeOK
    <2>3. QueueOK'
      BY <1>2, <2>1, ZenonT(40) DEF DeliveryInv, QueueOK
    <2>4. LinksOK'
      <3>1. Pending' = Pending
        BY <2>1 DEF Pending
      <3>2. QED
        BY <1>2, <2>1, <3>1, LinksKept DEF DeliveryInv
    <2>5. NoGaps'
      BY <1>2, <2>1 DEF DeliveryInv, NoGaps, Open
    <2>6. QED
      BY <2>2, <2>3, <2>4, <2>5 DEF DeliveryInv
  <1>3. QED
    BY <1>1, <1>2

\* The sessions, their tasks and the pump agree at every moment.
THEOREM DeliveryInvariant == DeliverySpec => []DeliveryInv
  BY InitDelivery, DeliveryStep, PTL DEF DeliverySpec

\* A browser gets a run of the published messages without a gap: SendVideo
\* and SendMessageAll, whatever opens, closes and fills up meanwhile.
THEOREM NothingMissing == DeliverySpec => []NoGaps
  <1>1. DeliveryInv => NoGaps
    BY DEF DeliveryInv
  <1>2. QED
    BY <1>1, DeliveryInvariant, PTL

\* The pump never has a source that was deleted, and at rest it has those of
\* the sessions: SetVideoSource, Initialize and the destructor of the source.
THEOREM PumpedAsHeld == DeliverySpec => []PumpedForSessions
  <1>1. DeliveryInv => PumpedForSessions
    <2>. SUFFICES ASSUME DeliveryInv PROVE PumpedForSessions
      OBVIOUS
    <2>1. LinksOK /\ alive \subseteq Sources
      BY DEF DeliveryInv, DeliveryTypeOK
    <2>2. ASSUME NEW p \in PlayerIds PROVE registered[p] = NoSource \/ registered[p] \in alive
      BY <2>1 DEF LinksOK, SessionOK
    <2>3. ASSUME tasks = <<>>, ws = Idle, NEW p \in PlayerIds
          PROVE  registered[p] = Players[p].source
      <3>1. DOMAIN tasks = {}
        <4>1. tasks \in Seq(Tasks) /\ Len(tasks) = 0
          BY <2>3, EmptySeq
        <4>2. QED
          BY <4>1, LenProperties
      <3>2. Pending = {} /\ ws.pc = "idle"
        BY <2>3, <3>1 DEF Pending, Idle
      <3>3. CASE Players[p].source = NoSource
        <4>1. \A s \in alive : s[1] # p
          BY <2>1, <3>2, <3>3, NoneFor
        <4>2. QED
          BY <2>1, <3>3, <4>1 DEF LinksOK, SessionOK
      <3>4. CASE Players[p].source # NoSource
        BY <2>1, <3>2, <3>4 DEF LinksOK, SessionOK
      <3>5. QED
        BY <3>3, <3>4
    <2>4. QED
      BY <2>2, <2>3 DEF PumpedForSessions
  <1>2. QED
    BY <1>1, DeliveryInvariant, PTL

-----------------------------------------------------------------------------
(* What the sessions do to the pump is what VideoPump lets them do. *)

LEMMA OnlyNotified ==
    ASSUME Running, Notify, UNCHANGED <<VideoSources, bThreadRunning, textureVars>>
    PROVE  [Next]_vars
  <1>1. CASE pump = "waiting"
    BY <1>1 DEF Notify, Next, WakeSpuriously, PumpStep
  <1>2. CASE pump # "waiting"
    BY <1>2 DEF Notify, vars, pumpVars
  <1>3. QED
    BY <1>1, <1>2

LEMMA RegisterMaps ==
    ASSUME NEW p \in PlayerIds, Running, SourcesGuardFree, Notify,
           VideoSources' = VideoSources \cup {p}, UNCHANGED <<bThreadRunning, textureVars>>
    PROVE  [Next]_vars
  <1>1. CASE p \in VideoSources
    <2>1. VideoSources' = VideoSources
      BY <1>1
    <2>2. QED
      BY <2>1, OnlyNotified
  <1>2. CASE p \notin VideoSources
    BY <1>2 DEF Next, RegisterVideoSource
  <1>3. QED
    BY <1>1, <1>2

LEMMA UnregisterMaps ==
    ASSUME NEW p \in PlayerIds, Running, SourcesGuardFree, Notify,
           VideoSources' = VideoSources \ {p}, UNCHANGED <<bThreadRunning, textureVars>>
    PROVE  [Next]_vars
  <1>1. CASE p \notin VideoSources
    <2>1. VideoSources' = VideoSources
      BY <1>1
    <2>2. QED
      BY <2>1, OnlyNotified
  <1>2. CASE p \in VideoSources
    BY <1>2 DEF Next, UnregisterVideoSource
  <1>3. QED
    BY <1>1, <1>2

LEMMA PumpStepMaps == DeliveryInv /\ [DeliveryNext]_allVars => [Next]_vars
  <1>1. CASE UNCHANGED allVars
    BY <1>1 DEF allVars
  <1>2. ASSUME DeliveryInv, DeliveryNext PROVE [Next]_vars
    <2>1. DeliveryTypeOK /\ QueueOK /\ LinksOK /\ QueueOK' /\ Running
      BY <1>2, QueueStep DEF DeliveryInv, DeliveryNext
    <2>2. UNCHANGED <<VideoSources, pump, bThreadRunning, textureVars>> => [Next]_vars
      BY DEF vars, pumpVars
    <2>3. ASSUME NEW p \in PlayerIds, OnPlayerConnected(p) \/ OnOffer(p) \/ OnPlayerDisconnected(p)
          PROVE  [Next]_vars
      BY <2>1, <2>3, CallTypes
    <2>4. CASE OnSignallingServerDisconnected
      BY <2>4, PostsDeleteAll
    <2>5. CASE SetVideoSource
      BY <2>2, <2>5 DEF SetVideoSource, WsUnchanged
    <2>6. CASE Initialize
      <3>1. ws.player \in PlayerIds
        BY <2>1, <2>6 DEF Initialize, QueueOK
      <3>2. QED
        BY <2>1, <2>6, <3>1, RegisterMaps DEF Initialize, Register, WsUnchanged
    <2>7. CASE ReturnFromSetup
      BY <2>1, <2>2, <2>7, ReturnLinks DEF ReturnFromSetup, WsUnchanged
    <2>8. CASE CreatePlayerSession
      BY <2>2, <2>8 DEF CreatePlayerSession, Run
    <2>9. CASE SetVideoSource_SignallingThread
      BY <2>1, <2>2, <2>9, SetOnSignallingThreadLinks DEF SetVideoSource_SignallingThread, Run
    <2>10. CASE DeletePlayerSession
      BY <2>1, <2>2, <2>10, DeleteLinks, UnregisterMaps DEF DeletePlayerSession, Run
    <2>11. CASE DeleteAllPlayerSessions
      BY <2>1, <2>2, <2>11, DeleteAllLinks, UnregisterMaps DEF DeleteAllPlayerSessions
    <2>12. CASE SendMessageAll
      BY <2>2, <2>12 DEF SendMessageAll, Run
    <2>13. ASSUME NEW p \in PlayerIds, ChannelChanges(p) PROVE [Next]_vars
      BY <2>2, <2>13 DEF ChannelChanges, CallbackUnchanged
    <2>14. ASSUME NEW p \in PlayerIds, AddStreamsOnAnswer(p) PROVE [Next]_vars
      BY <2>1, <2>14, RegisterMaps DEF AddStreamsOnAnswer, Register, CallbackUnchanged
    <2>15. CASE EncodeFrame
      BY <2>1, <2>15 DEF EncodeFrame, Next, PumpLoop
    <2>16. CASE PumpAlone
      BY <2>1, <2>16 DEF PumpAlone, Next, PumpLoop
    <2>17. QED
      BY <1>2, <2>3, <2>4, <2>5, <2>6, <2>7, <2>8, <2>9, <2>10, <2>11, <2>12, <2>13, <2>14, <2>15,
         <2>16, DeliverySteps
  <1>3. QED
    BY <1>1, <1>2

\* The sessions and their threads implement what VideoPump says of them.
THEOREM ImplementsPump == DeliverySpec => PumpSpec
  <1>1. DeliveryInit => Init
    BY DEF DeliveryInit
  <1>2. QED
    BY <1>1, PumpStepMaps, DeliveryInvariant, PTL DEF DeliverySpec, Spec, PumpSpec

\* What is said of the textures holds of the whole: the encoder gets current
\* ones, and never goes back.
COROLLARY TexturesOfTheWhole == DeliverySpec => EncodesCurrent /\ NeverGoesBack /\ NullOnlyAtFirst
  BY ImplementsPump, AlwaysCurrent, NeverBack, NullAtFirst, PTL DEF PumpSpec
=============================================================================
