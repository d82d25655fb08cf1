--------------------------- MODULE Encoders_proofs ---------------------------
(***************************************************************************)
(* Proofs about the encoders, for any number of peers and resolutions, any *)
(* rendering interface, and any number of events.                          *)
(***************************************************************************)
EXTENDS Encoders, TLAPS

Lives == {"none", "created", "initialised", "ready", "released", "gone"}

\* The types of what the proofs speak of.
Types ==
    /\ api \in {"D3D11", "D3D12", "Vulkan"}
    /\ life \in [Peers -> Lives]
    /\ pc \in [Peers -> {"idle", "construct", "read", "convert", "encode", "send"}]
    /\ todo \in [Peers -> SUBSET Peers]
    /\ ActiveEncoders \subseteq Peers
    /\ mapped \in [Encoder -> SUBSET {"registration", "mapping", "memory", "mipmaps", "array"}]
    /\ contexts \in [Peers -> Nat]

\* The lock of OnEncodedImage is held by the queue that delivers, which visits
\* only encoders that are in ActiveEncoders as long as it holds the lock; and
\* an encoder in there has been created and not destroyed.
GuardHeld ==
    /\ \A p \in Peers : pc[p] = "send" => ActiveEncodersGuard = p /\ todo[p] \subseteq ActiveEncoders
    /\ \A p \in ActiveEncoders : life[p] \notin {"none", "gone"}

EncodersInv == Types /\ GuardHeld /\ NothingLeftMapped

-----------------------------------------------------------------------------
LEMMA InitInv == Init => EncodersInv
<1>. SUFFICES ASSUME Init PROVE EncodersInv
  OBVIOUS
<1>. USE EncodersAssumption DEF Init
<1>1. Types
  BY DEF Types, Lives
<1>2. GuardHeld /\ NothingLeftMapped
  BY DEF GuardHeld, NothingLeftMapped
<1>3. QED
  BY <1>1, <1>2 DEF EncodersInv

\* What WebRTC calls: encoders come and go while nobody delivers.
LEMMA CallStep ==
    ASSUME EncodersInv, NEW p \in Peers, Call(p)
    PROVE  EncodersInv'
<1>. USE DEF EncodersInv, registryVars, flagVars, cudaVars, workVars, sendVars, controlVars
<1>1. mapped' = mapped /\ contexts' = contexts /\ api' = api /\ todo' = todo
      /\ ActiveEncodersGuard' = ActiveEncodersGuard
  BY DEF Call, CreateVideoEncoder, InitEncode, RegisterEncodeCompleteCallback, Release,
     ReleaseVideoEncoder
<1>2. NothingLeftMapped'
  BY <1>1 DEF NothingLeftMapped
<1>3. CASE CreateVideoEncoder(p)
  <2>1. /\ life' = [life EXCEPT ![p] = "created"] /\ ActiveEncoders' = ActiveEncoders \union {p}
        /\ ActiveEncodersGuard = None /\ pc' = pc
    BY <1>3 DEF CreateVideoEncoder
  <2>2. Types'
    BY <1>1, <2>1 DEF Types, Lives
  <2>3. GuardHeld'
    BY <1>1, <2>1 DEF GuardHeld, Types
  <2>4. QED
    BY <1>2, <2>2, <2>3
<1>4. CASE \E r \in Resolutions : InitEncode(p, r)
  <2>1. /\ life' \in {life, [life EXCEPT ![p] = "initialised"]} /\ ActiveEncoders' = ActiveEncoders
        /\ pc' \in {pc, [pc EXCEPT ![p] = "construct"]} /\ life[p] \in {"created", "released"}
    BY <1>4 DEF InitEncode
  <2>2. Types'
    BY <1>1, <2>1 DEF Types, Lives
  <2>3. GuardHeld'
    BY <1>1, <2>1 DEF GuardHeld, Types
  <2>4. QED
    BY <1>2, <2>2, <2>3
<1>5. CASE RegisterEncodeCompleteCallback(p) \/ Release(p)
  <2>1. /\ \E l \in {"ready", "released"} : life' = [life EXCEPT ![p] = l]
        /\ ActiveEncoders' = ActiveEncoders /\ pc' = pc
    BY <1>5 DEF RegisterEncodeCompleteCallback, Release
  <2>2. Types'
    BY <1>1, <2>1 DEF Types, Lives
  <2>3. GuardHeld'
    BY <1>1, <2>1 DEF GuardHeld, Types
  <2>4. QED
    BY <1>2, <2>2, <2>3
<1>6. CASE ReleaseVideoEncoder(p)
  <2>1. /\ life' = [life EXCEPT ![p] = "gone"] /\ ActiveEncoders' = ActiveEncoders \ {p}
        /\ ActiveEncodersGuard = None /\ pc' = pc
    BY <1>6 DEF ReleaseVideoEncoder
  <2>2. Types'
    BY <1>1, <2>1 DEF Types, Lives
  <2>3. GuardHeld'
    BY <1>1, <2>1, EncodersAssumption DEF GuardHeld, Types
  <2>4. QED
    BY <1>2, <2>2, <2>3
<1>7. QED
  BY <1>3, <1>4, <1>5, <1>6 DEF Call

\* A conversion that succeeds has given back what it held.
LEMMA ConvertStep ==
    ASSUME EncodersInv, NEW p \in Peers, Convert(p)
    PROVE  EncodersInv'
<1>. DEFINE All == UNION {Acquired(Stages[i]) : i \in DOMAIN Stages}
            Given == {"memory", "mipmaps", "array", "mapping"}
<1>. USE DEF EncodersInv
<1>1. /\ pc[p] = "convert" /\ pc' = [pc EXCEPT ![p] = "encode"]
      /\ mapped' = [mapped EXCEPT ![encoder[p]] = (@ \union All) \ Given]
      /\ UNCHANGED <<api, life, todo, ActiveEncoders, ActiveEncodersGuard, contexts>>
  BY DEF Convert, registryVars, sendVars
<1>2. \A i \in DOMAIN Stages :
         Acquired(Stages[i]) \subseteq {"registration", "mapping", "memory", "mipmaps", "array"}
  BY DEF Stages, Acquired
<1>3. api # "D3D11" =>
        \A i \in DOMAIN Stages : Acquired(Stages[i]) \subseteq {"memory", "mipmaps", "array"}
  BY DEF Stages, Acquired
<1>4. All \subseteq {"registration", "mapping", "memory", "mipmaps", "array"}
  BY <1>2
<1>5. api # "D3D11" => All \subseteq {"memory", "mipmaps", "array"}
  BY <1>3
<1>. HIDE DEF All
<1>6. Types'
  BY <1>1, <1>4 DEF Types
<1>7. GuardHeld'
  BY <1>1 DEF GuardHeld, Types
<1>8. NothingLeftMapped'
  BY <1>1, <1>5 DEF NothingLeftMapped, Types
<1>9. QED
  BY <1>6, <1>7, <1>8

\* So has one that fails at any of its calls, but for D3D11.
LEMMA ConvertFailsStep ==
    ASSUME EncodersInv, NEW p \in Peers, NEW n \in DOMAIN Stages, ConvertFails(p, n)
    PROVE  EncodersInv'
<1>. DEFINE done == {Stages[i] : i \in 1 .. n - 1}
            got  == UNION {Acquired(t) : t \in done}
            Kinds == {"registration", "mapping", "memory", "mipmaps", "array"}
<1>. USE DEF EncodersInv
<1>1. /\ \E to \in {"encode", "idle"} : pc' = [pc EXCEPT ![p] = to]
      /\ mapped' = [mapped EXCEPT ![encoder[p]] = (@ \union got) \ Unwound(Stages[n])]
      /\ contexts' = [contexts EXCEPT
            ![p] = IF "context" \in done /\ ~Pops(Stages[n]) THEN @ + 1 ELSE @]
      /\ UNCHANGED <<api, life, todo, ActiveEncoders, ActiveEncodersGuard>>
  BY DEF ConvertFails, registryVars, sendVars
<1>2. n \in 1 .. 6
  BY DEF Stages
<1>3. \A t \in {"handle", "context", "registration", "mapping", "memory", "mipmaps", "array", "kernel"} :
         Acquired(t) \subseteq Kinds
  BY DEF Acquired
<1>4. got \subseteq Kinds
  BY <1>2, <1>3 DEF Stages
<1>5. ASSUME api # "D3D11"
      PROVE  got \subseteq Unwound(Stages[n]) /\ ("context" \in done => Pops(Stages[n]))
  <2>1. CASE n = 1
    BY <1>5, <2>1 DEF Stages
  <2>2. CASE n = 2
    BY <1>5, <2>2 DEF Stages, Acquired
  <2>3. CASE n = 3
    BY <1>5, <2>3 DEF Stages, Acquired, Pops
  <2>4. CASE n = 4
    BY <1>5, <2>4 DEF Stages, Acquired, Pops, Unwound
  <2>5. CASE n = 5
    BY <1>5, <2>5 DEF Stages, Acquired, Pops, Unwound
  <2>6. CASE n = 6
    BY <1>5, <2>6 DEF Stages, Acquired, Pops, Unwound
  <2>7. QED
    BY <1>2, <2>1, <2>2, <2>3, <2>4, <2>5, <2>6
<1>. HIDE DEF done, got
<1>6. Types'
  <2>1. contexts' \in [Peers -> Nat]
    BY <1>1 DEF Types
  <2>2. mapped' \in [Encoder -> SUBSET Kinds]
    BY <1>1, <1>4 DEF Types
  <2>3. pc' \in [Peers -> {"idle", "construct", "read", "convert", "encode", "send"}]
    BY <1>1 DEF Types
  <2>4. QED
    BY <1>1, <2>1, <2>2, <2>3 DEF Types
<1>7. GuardHeld'
  BY <1>1 DEF GuardHeld, Types
<1>8. NothingLeftMapped'
  BY <1>1, <1>5 DEF NothingLeftMapped, Types
<1>9. QED
  BY <1>6, <1>7, <1>8

\* The lock is taken and ActiveEncoders is noted, in one step.
LEMMA OnEncodedImageStep ==
    ASSUME EncodersInv, NEW p \in Peers, OnEncodedImage(p)
    PROVE  EncodersInv'
<1>. USE DEF EncodersInv
<1>1. /\ ActiveEncodersGuard = None /\ ActiveEncodersGuard' = p
      /\ todo' = [todo EXCEPT ![p] = ActiveEncoders] /\ pc' = [pc EXCEPT ![p] = "send"]
      /\ UNCHANGED <<api, life, ActiveEncoders, mapped, contexts>>
  BY DEF OnEncodedImage, registryVars, cudaVars
<1>2. Types'
  BY <1>1 DEF Types
<1>3. GuardHeld'
  BY <1>1, EncodersAssumption DEF GuardHeld, Types
<1>4. QED
  BY <1>1, <1>2, <1>3 DEF NothingLeftMapped

LEMMA SendStep ==
    ASSUME EncodersInv, NEW p \in Peers,
           EncodeReturn(p) \/ \E q \in Peers : SendEncodedImage(p, q)
    PROVE  EncodersInv'
<1>. USE DEF EncodersInv
<1>1. UNCHANGED <<api, life, ActiveEncoders, mapped, contexts>>
  BY DEF EncodeReturn, SendEncodedImage, registryVars, cudaVars
<1>2. CASE EncodeReturn(p)
  <2>1. pc[p] = "send" /\ pc' = [pc EXCEPT ![p] = "idle"] /\ todo' = todo
    BY <1>2 DEF EncodeReturn
  <2>2. GuardHeld'
    BY <1>1, <2>1 DEF GuardHeld, Types
  <2>3. QED
    BY <1>1, <2>1, <2>2 DEF Types, NothingLeftMapped
<1>3. ASSUME NEW q \in Peers, SendEncodedImage(p, q)
      PROVE  EncodersInv'
  <2>1. /\ todo' = [todo EXCEPT ![p] = @ \ {q}] /\ pc' = pc
        /\ ActiveEncodersGuard' = ActiveEncodersGuard
    BY <1>3 DEF SendEncodedImage
  <2>2. GuardHeld'
    BY <1>1, <2>1 DEF GuardHeld, Types
  <2>3. QED
    BY <1>1, <2>1, <2>2 DEF Types, NothingLeftMapped
<1>4. QED
  BY <1>2, <1>3

\* Steps that have nothing to do with the lock or with CUDA.
LEMMA OtherStep ==
    ASSUME EncodersInv,
           \/ \E p \in Peers : \/ CreateHardwareEncoder(p) \/ ClearForced(p) \/ OnPump(p)
                               \/ SetQualityController(p)
                               \/ \E key \in BOOLEAN : Encode(p, key)
           \/ SendUnfreezeFrame
    PROVE  EncodersInv'
<1>. USE DEF EncodersInv
<1>1. UNCHANGED <<api, ActiveEncoders, todo, ActiveEncodersGuard, mapped, contexts>>
  BY DEF CreateHardwareEncoder, ClearForced, OnPump, SetQualityController, Encode, SendUnfreezeFrame,
     registryVars, cudaVars, sendVars
<1>2. \/ UNCHANGED <<life, pc>>
      \/ \E p \in Peers, to \in {"idle", "read", "convert"} :
             /\ pc' = [pc EXCEPT ![p] = to]
             /\ life' \in {life, [life EXCEPT ![p] = "initialised"]}
  BY DEF CreateHardwareEncoder, ClearForced, OnPump, SetQualityController, Encode, SendUnfreezeFrame
<1>3. Types'
  BY <1>1, <1>2 DEF Types, Lives
<1>4. GuardHeld'
  BY <1>1, <1>2 DEF GuardHeld, Types
<1>5. QED
  BY <1>1, <1>3, <1>4 DEF NothingLeftMapped

LEMMA NextInv == EncodersInv /\ [Next]_vars => EncodersInv'
<1>. SUFFICES ASSUME EncodersInv, [Next]_vars PROVE EncodersInv'
  OBVIOUS
<1>1. CASE UNCHANGED vars
  BY <1>1 DEF vars, registryVars, cudaVars, sendVars, EncodersInv, Types, GuardHeld, NothingLeftMapped
<1>2. CASE Next
  BY <1>2, CallStep, ConvertStep, ConvertFailsStep, OnEncodedImageStep, SendStep, OtherStep
     DEF Next, Step
<1>3. QED
  BY <1>1, <1>2

-----------------------------------------------------------------------------
\* The inductive invariant: types, who holds the lock, and what CUDA holds.
THEOREM EncodersInvariant == Spec => []EncodersInv
  BY InitInv, NextInv, PTL DEF Spec

\* While an encoded picture is delivered, no encoder still to visit is deleted.
THEOREM DeliversToLiving == Spec => []SendsToLiving
<1>1. EncodersInv => SendsToLiving
  BY DEF EncodersInv, GuardHeld, SendsToLiving
<1>2. QED
  BY <1>1, EncodersInvariant, PTL

\* Whatever call of a conversion fails, D3D12 and Vulkan leave nothing behind.
THEOREM ConversionsUnwind == Spec => []NothingLeftMapped
<1>1. EncodersInv => NothingLeftMapped
  BY DEF EncodersInv
<1>2. QED
  BY <1>1, EncodersInvariant, PTL
=============================================================================
