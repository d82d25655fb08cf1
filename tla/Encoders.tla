------------------------------ MODULE Encoders ------------------------------
(***************************************************************************)
(* The video encoders: FVideoEncoderFactory, one FVideoEncoderRTC for each *)
(* peer, the hardware encoders that peers of one resolution share, and the *)
(* conversion of a texture into the input of the encoder by CUDA.          *)
(*                                                                         *)
(* WebRTC gives every peer an encoder queue of its own, which makes all    *)
(* the calls of its encoder one after another: a process of this module.   *)
(* Only the quality controller's queue gets pictures; the frames of the    *)
(* other peers are empty, Encode returns at once for them, and their       *)
(* pictures come from the queue of the controller, through OnEncodedImage. *)
(* The queue of the last controller may still hold a picture when the      *)
(* next one already gets some, and nothing keeps the two threads apart in  *)
(* one hardware encoder. A key frame that was forced by then may be lost:  *)
(* it is no longer owed.                                                   *)
(*                                                                         *)
(* No lock is taken by a thread that holds it, so that the recursive locks *)
(* of Windows and the others of Linux do the same here. The map of         *)
(* hardware encoders has a lock of its own, held for one step only;        *)
(* ForceKeyFrame walks the map without it, which is undefined behaviour    *)
(* while another peer registers an encoder and is one step here. The       *)
(* callback is tested and called in one step, as with a single load of it. *)
(*                                                                         *)
(* The classes are modelled as they stand. At this commit FStreamer adds   *)
(* no video track and the pump does not call OnPump (both are commented    *)
(* out), so that no peer of the running server gets this far.              *)
(***************************************************************************)
EXTENDS Integers, Sequences

CONSTANTS Peers, Resolutions,
          FirstPeer,   \* the first player to join, who controls the quality
          None,        \* no peer: a free lock, no hardware encoder
          Apis,        \* the rendering interfaces the server may run with
          MaxEvents    \* for each of Apis, bound on the events that count: an
                       \* encoder initialised again, a CUDA call that fails, the
                       \* end of a freeze, a change of the quality controller

ASSUME EncodersAssumption ==
    /\ FirstPeer \in Peers /\ None \notin Peers
    /\ Apis \subseteq {"D3D11", "D3D12", "Vulkan"}

VARIABLES api,
          life,              \* of the FVideoEncoderRTC of a peer; its callback is
                             \* set exactly when it is "ready"
          ActiveEncoders,
          HardwareEncoderId, \* the resolution a peer was initialised with
          FirstKeyframeCountdown,
          HardwareEncoders,  \* for a resolution, the peer that made its encoder
          bForceNextKeyframe, \* the hardware encoders with this flag
          QualityController,
          queued,            \* peers in whose queue a picture waits
          pc,
          encoder,           \* the hardware encoder a peer's queue works with
          bKeyframe,         \* BufferInfo.IsKeyFrame of the picture in work
          todo,              \* encoders OnEncodedImage has still to visit
          ActiveEncodersGuard,
          mapped,            \* what a converter holds of a texture
          contexts,          \* CUDA contexts a thread has left pushed
          owed,              \* peers for which a key frame was forced, and no race
                             \* has lost it
          events             \* events so far

registryVars == <<ActiveEncoders, HardwareEncoderId, HardwareEncoders>>

flagVars == <<FirstKeyframeCountdown, bForceNextKeyframe, owed>>

cudaVars == <<mapped, contexts>>

workVars == <<encoder, bKeyframe, queued>>

sendVars == <<todo, ActiveEncodersGuard>>

controlVars == <<QualityController, events>>

Event == events < MaxEvents[api] /\ events' = events + 1

vars == <<api, life, pc, registryVars, flagVars, cudaVars, workVars, sendVars, controlVars>>

\* A hardware encoder: its resolution and the peer whose InitEncode made it.
Encoder == Resolutions \X Peers

NoEncoder == <<None, None>>

Current(r) == <<r, HardwareEncoders[r]>>

Init ==
    /\ api \in Apis
    /\ life = [p \in Peers |-> "none"]
    /\ ActiveEncoders = {}
    /\ HardwareEncoderId = [p \in Peers |-> None]
    /\ FirstKeyframeCountdown = [p \in Peers |-> 2]
    /\ HardwareEncoders = [r \in Resolutions |-> None]
    /\ bForceNextKeyframe = {}
    /\ QualityController = FirstPeer
    /\ queued = {}
    /\ pc = [p \in Peers |-> "idle"]
    /\ encoder = [p \in Peers |-> NoEncoder]
    /\ bKeyframe = [p \in Peers |-> FALSE]
    /\ todo = [p \in Peers |-> {}]
    /\ ActiveEncodersGuard = None
    /\ mapped = [e \in Encoder |-> {}]
    /\ contexts = [p \in Peers |-> 0]
    /\ owed = {}
    /\ events = 0

-----------------------------------------------------------------------------
(* The life of a peer's encoder *)

CreateVideoEncoder(p) ==
    /\ life[p] = "none"
    /\ ActiveEncodersGuard = None
    /\ life' = [life EXCEPT ![p] = "created"]
    /\ ActiveEncoders' = ActiveEncoders \union {p}
    /\ UNCHANGED <<api, pc, HardwareEncoderId, HardwareEncoders, flagVars, cudaVars,
                   workVars, sendVars, controlVars>>

\* InitEncode; GetOrCreateHardwareEncoder finds one or goes on to make one.
InitEncode(p, r) ==
    /\ life[p] \in {"created", "released"} /\ pc[p] = "idle"
    /\ IF life[p] = "released" THEN Event ELSE UNCHANGED events
    /\ IF HardwareEncoders[r] # None
         THEN /\ life' = [life EXCEPT ![p] = "initialised"]
              /\ HardwareEncoderId' = [HardwareEncoderId EXCEPT ![p] = r]
              /\ UNCHANGED <<pc, encoder>>
         ELSE /\ pc' = [pc EXCEPT ![p] = "construct"]
              /\ encoder' = [encoder EXCEPT ![p] = <<r, p>>]
              /\ UNCHANGED <<life, HardwareEncoderId>>
    /\ UNCHANGED <<api, ActiveEncoders, HardwareEncoders, flagVars, cudaVars, bKeyframe,
                   queued, sendVars, QualityController>>

\* The rest of GetOrCreateHardwareEncoder, and of InitEncode: another peer may
\* have registered an encoder for the resolution meanwhile. That one is replaced.
CreateHardwareEncoder(p) ==
    LET r == encoder[p][1]
    IN  /\ pc[p] = "construct"
        /\ HardwareEncoders' = [HardwareEncoders EXCEPT ![r] = p]
        /\ owed' = IF HardwareEncoders[r] # None THEN {} ELSE owed
        /\ HardwareEncoderId' = [HardwareEncoderId EXCEPT ![p] = r]
        /\ life' = [life EXCEPT ![p] = "initialised"]
        /\ pc' = [pc EXCEPT ![p] = "idle"]
        /\ encoder' = [encoder EXCEPT ![p] = NoEncoder]
        /\ UNCHANGED <<api, ActiveEncoders, FirstKeyframeCountdown, bForceNextKeyframe,
                       cudaVars, bKeyframe, queued, sendVars, controlVars>>

RegisterEncodeCompleteCallback(p) ==
    /\ life[p] = "initialised"
    /\ life' = [life EXCEPT ![p] = "ready"]
    /\ UNCHANGED <<api, pc, registryVars, flagVars, cudaVars, workVars, sendVars, controlVars>>

\* WebRTC releases an encoder to initialise it again, or to destroy it.
Release(p) ==
    /\ life[p] = "ready" /\ pc[p] = "idle"
    /\ life' = [life EXCEPT ![p] = "released"]
    /\ queued' = queued \ {p}
    /\ owed' = owed \ {p}
    /\ UNCHANGED <<api, pc, registryVars, FirstKeyframeCountdown, bForceNextKeyframe, cudaVars,
                   encoder, bKeyframe, sendVars, controlVars>>

\* Mutant: the encoder is taken out of ActiveEncoders without the lock.
ReleaseVideoEncoderUnlocked(p) ==
    /\ life[p] = "released" /\ pc[p] = "idle"
    /\ life' = [life EXCEPT ![p] = "gone"]
    /\ ActiveEncoders' = ActiveEncoders \ {p}
    /\ HardwareEncoderId' = [HardwareEncoderId EXCEPT ![p] = None]
    /\ FirstKeyframeCountdown' = [FirstKeyframeCountdown EXCEPT ![p] = 0]
    /\ UNCHANGED <<api, pc, HardwareEncoders, bForceNextKeyframe, owed, cudaVars, workVars,
                   sendVars, controlVars>>

\* The destructor.
ReleaseVideoEncoder(p) ==
    /\ life[p] = "released" /\ pc[p] = "idle"
    /\ ActiveEncodersGuard = None
    /\ life' = [life EXCEPT ![p] = "gone"]
    /\ ActiveEncoders' = ActiveEncoders \ {p}
    /\ HardwareEncoderId' = [HardwareEncoderId EXCEPT ![p] = None]
    /\ FirstKeyframeCountdown' = [FirstKeyframeCountdown EXCEPT ![p] = 0]
    /\ UNCHANGED <<api, pc, HardwareEncoders, bForceNextKeyframe, owed, cudaVars, workVars,
                   sendVars, controlVars>>

-----------------------------------------------------------------------------
(* Pictures *)

\* FVideoSourceP2P::OnPump. The pump waits for a texture before it calls, so
\* that the texture of the picture is valid; a picture for which AdaptFrame
\* returns false changes nothing, nor does the empty one of a watching peer.
OnPump(p) ==
    /\ p = QualityController
    /\ life[p] = "ready"
    /\ p \notin queued
    /\ queued' = queued \union {p}
    /\ UNCHANGED <<api, life, pc, registryVars, flagVars, cudaVars, encoder, bKeyframe, sendVars,
                   controlVars>>

Transmitting(p) == pc[p] \in {"read", "convert", "encode"}

\* FVideoEncoderRTC::Encode up to the test of bForceNextKeyframe in the
\* wrapper; key tells whether WebRTC itself asks for a key frame.
Encode(p, key) ==
    LET e == Current(HardwareEncoderId[p])
    IN  /\ p \in queued /\ pc[p] = "idle" /\ life[p] = "ready"
        /\ queued' = queued \ {p}
        /\ encoder' = [encoder EXCEPT ![p] = e]
        /\ bKeyframe' = [bKeyframe EXCEPT ![p] = key \/ e \in bForceNextKeyframe]
        /\ pc' = [pc EXCEPT ![p] = "read"]
        /\ owed' = IF \E q \in Peers : Transmitting(q) /\ encoder[q] = e THEN {} ELSE owed
        /\ UNCHANGED <<api, life, registryVars, FirstKeyframeCountdown, bForceNextKeyframe,
                       cudaVars, sendVars, controlVars>>

\* bForceNextKeyframe = false. A flag set since it was read is lost.
ClearForced(p) ==
    /\ pc[p] = "read"
    /\ bForceNextKeyframe' = bForceNextKeyframe \ {encoder[p]}
    /\ owed' = IF encoder[p] \in bForceNextKeyframe /\ ~bKeyframe[p] THEN {} ELSE owed
    /\ pc' = [pc EXCEPT ![p] = "convert"]
    /\ UNCHANGED <<api, life, registryVars, FirstKeyframeCountdown, cudaVars, workVars,
                   sendVars, controlVars>>

-----------------------------------------------------------------------------
(* Conversion *)

\* The calls of a conversion; "handle" is a test of the texture's handle.
Stages ==
    IF api = "D3D11"
      THEN <<"handle", "context", "registration", "mapping", "array", "kernel">>
      ELSE <<"handle", "context", "memory", "mipmaps", "array", "kernel">>

\* Mutant: a failure to get the level leaves the mipmapped array.
UnwoundWithoutMipmaps(s) ==
    CASE api = "D3D11"             -> IF s = "registration" THEN {"registration"} ELSE {}
      [] s \in {"mipmaps", "array"} -> {"memory"}
      [] s = "kernel"              -> {"memory", "mipmaps", "array"}
      [] OTHER                     -> {}

\* What the branch for a failed call gives back, among what is held.
\* The branches of D3D11 throw before they give anything back.
Unwound(s) ==
    CASE api = "D3D11" -> IF s = "registration" THEN {"registration"} ELSE {}
      [] s = "mipmaps" -> {"memory"}
      [] s = "array"   -> {"memory", "mipmaps"}
      [] s = "kernel"  -> {"memory", "mipmaps", "array"}
      [] OTHER         -> {}

\* Does the failure of a call pop the context?
Pops(s) == api # "D3D11" /\ s \in {"memory", "mipmaps", "array", "kernel"}

\* Is the input of the encoder, with its old contents, encoded even so?
EncodesAnyway(s) ==
    CASE api = "Vulkan" -> TRUE
      [] api = "D3D12"  -> s # "handle"
      [] api = "D3D11"  -> s \in {"handle", "registration"}

\* What a call that succeeds adds to what is held, but for the context. The
\* array of D3D11 belongs to the mapping.
Acquired(s) ==
    IF s \in {"handle", "context", "kernel"} \/ (api = "D3D11" /\ s = "array") THEN {} ELSE {s}

\* CudaConverter::Convert, SetTextureCudaD3D12 or SetTextureCudaVulkan, one
\* step because SourcesGuard is held throughout. Every call succeeds, and all
\* is given back but the registration of D3D11, which the next one replaces.
Convert(p) ==
    /\ pc[p] = "convert"
    /\ mapped' = [mapped EXCEPT ![encoder[p]] =
                    (@ \union UNION {Acquired(Stages[i]) : i \in DOMAIN Stages})
                      \ {"memory", "mipmaps", "array", "mapping"}]
    /\ pc' = [pc EXCEPT ![p] = "encode"]
    /\ UNCHANGED <<api, life, registryVars, flagVars, contexts, workVars, sendVars,
                   controlVars>>

\* The same when call number n of it fails.
ConvertFails(p, n) ==
    LET s    == Stages[n]
        done == {Stages[i] : i \in 1 .. n - 1}
    IN  /\ pc[p] = "convert" /\ Event
        /\ mapped' = [mapped EXCEPT ![encoder[p]] =
                        (@ \union UNION {Acquired(t) : t \in done}) \ Unwound(s)]
        /\ contexts' = [contexts EXCEPT
              ![p] = IF "context" \in done /\ ~Pops(s) THEN @ + 1 ELSE @]
        /\ pc' = [pc EXCEPT ![p] = IF EncodesAnyway(s) THEN "encode" ELSE "idle"]
        /\ owed' = IF bKeyframe[p] /\ ~EncodesAnyway(s) THEN {} ELSE owed
        /\ bKeyframe' = [bKeyframe EXCEPT ![p] = @ /\ EncodesAnyway(s)]
        /\ encoder' = [encoder EXCEPT ![p] = IF EncodesAnyway(s) THEN @ ELSE NoEncoder]
        /\ UNCHANGED <<api, life, registryVars, FirstKeyframeCountdown, bForceNextKeyframe,
                       queued, sendVars, QualityController>>

-----------------------------------------------------------------------------
(* Delivery *)

\* EncodeFrame, OnEncodedPacket and the lock of OnEncodedImage.
OnEncodedImage(p) ==
    /\ pc[p] = "encode"
    /\ ActiveEncodersGuard = None
    /\ ActiveEncodersGuard' = p
    /\ todo' = [todo EXCEPT ![p] = ActiveEncoders]
    /\ pc' = [pc EXCEPT ![p] = "send"]
    /\ UNCHANGED <<api, life, registryVars, flagVars, cudaVars, workVars, controlVars>>

\* FVideoEncoderFactory::ForceKeyFrame: the flags after it.
AllForced == {Current(r) : r \in {x \in Resolutions : HardwareEncoders[x] # None}}

\* Mutant: ForceKeyFrame takes the lock that OnEncodedImage holds.
SendEncodedImageLocking(p, q) ==
    LET mine  == HardwareEncoderId[q] = encoder[p][1]
        first == mine /\ FirstKeyframeCountdown[q] = 1
    IN  /\ pc[p] = "send" /\ q \in todo[p]
        /\ first => ActiveEncodersGuard = None
        /\ todo' = [todo EXCEPT ![p] = @ \ {q}]
        /\ FirstKeyframeCountdown' = [FirstKeyframeCountdown EXCEPT
              ![q] = IF mine /\ @ > 0 THEN @ - 1 ELSE @]
        /\ bForceNextKeyframe' = IF first THEN bForceNextKeyframe \union AllForced
                                          ELSE bForceNextKeyframe
        /\ owed' = (owed \union (IF first /\ life[q] = "ready" THEN {q} ELSE {}))
                     \ (IF mine /\ life[q] = "ready" /\ bKeyframe[p] THEN {q} ELSE {})
        /\ UNCHANGED <<api, life, pc, registryVars, cudaVars, workVars,
                       ActiveEncodersGuard, controlVars>>

\* Mutant: the countdown runs below zero unseen.
SendEncodedImageUnforced(p, q) ==
    LET mine  == HardwareEncoderId[q] = encoder[p][1]
        first == mine /\ FirstKeyframeCountdown[q] = 1
    IN  /\ pc[p] = "send" /\ q \in todo[p]
        /\ todo' = [todo EXCEPT ![p] = @ \ {q}]
        /\ FirstKeyframeCountdown' = [FirstKeyframeCountdown EXCEPT
              ![q] = IF mine /\ @ > 0 THEN @ - 1 ELSE @]
        /\ owed' = (owed \union (IF first /\ life[q] = "ready" THEN {q} ELSE {}))
                     \ (IF mine /\ life[q] = "ready" /\ bKeyframe[p] THEN {q} ELSE {})
        /\ UNCHANGED <<api, life, pc, registryVars, bForceNextKeyframe, cudaVars,
                       workVars, ActiveEncodersGuard, controlVars>>

\* FVideoEncoderRTC::SendEncodedImage of the peer q.
SendEncodedImage(p, q) ==
    LET mine  == HardwareEncoderId[q] = encoder[p][1]
        first == mine /\ FirstKeyframeCountdown[q] = 1
    IN  /\ pc[p] = "send" /\ q \in todo[p]
        /\ todo' = [todo EXCEPT ![p] = @ \ {q}]
        /\ FirstKeyframeCountdown' = [FirstKeyframeCountdown EXCEPT
              ![q] = IF mine /\ @ > 0 THEN @ - 1 ELSE @]
        /\ bForceNextKeyframe' = IF first THEN bForceNextKeyframe \union AllForced
                                          ELSE bForceNextKeyframe
        /\ owed' = (owed \union (IF first /\ life[q] = "ready" THEN {q} ELSE {}))
                     \ (IF mine /\ life[q] = "ready" /\ bKeyframe[p] THEN {q} ELSE {})
        /\ UNCHANGED <<api, life, pc, registryVars, cudaVars, workVars,
                       ActiveEncodersGuard, controlVars>>

\* OnEncodedImage and Encode return.
EncodeReturn(p) ==
    /\ pc[p] = "send" /\ todo[p] = {}
    /\ ActiveEncodersGuard' = None
    /\ pc' = [pc EXCEPT ![p] = "idle"]
    /\ bKeyframe' = [bKeyframe EXCEPT ![p] = FALSE]
    /\ encoder' = [encoder EXCEPT ![p] = NoEncoder]
    /\ UNCHANGED <<api, life, registryVars, flagVars, cudaVars, queued, todo, controlVars>>

\* FStreamer::SendUnfreezeFrame calls ForceKeyFrame, which takes the lock here.
SendUnfreezeFrame ==
    /\ ActiveEncodersGuard = None /\ Event
    /\ bForceNextKeyframe' = bForceNextKeyframe \union AllForced
    /\ owed' = owed \union {p \in Peers : life[p] = "ready"}
    /\ UNCHANGED <<api, life, pc, registryVars, FirstKeyframeCountdown, cudaVars,
                   workVars, sendVars, QualityController>>

SetQualityController(p) ==
    /\ p # QualityController /\ Event
    /\ QualityController' = p
    /\ UNCHANGED <<api, life, pc, registryVars, flagVars, cudaVars, workVars, sendVars>>

-----------------------------------------------------------------------------
\* What a queue does by itself once a call of WebRTC has begun.
Step(p) ==
    \/ CreateHardwareEncoder(p)
    \/ ClearForced(p)
    \/ Convert(p) \/ \E n \in DOMAIN Stages : ConvertFails(p, n)
    \/ EncodeReturn(p)
    \/ \E q \in Peers : SendEncodedImage(p, q)

Call(p) ==
    \/ CreateVideoEncoder(p)
    \/ \E r \in Resolutions : InitEncode(p, r)
    \/ RegisterEncodeCompleteCallback(p)
    \/ Release(p)
    \/ ReleaseVideoEncoder(p)

Next ==
    \/ \E p \in Peers : \/ Step(p) \/ OnEncodedImage(p) \/ Call(p) \/ OnPump(p)
                        \/ SetQualityController(p)
                        \/ \E key \in BOOLEAN : Encode(p, key)
    \/ SendUnfreezeFrame

Spec == Init /\ [][Next]_vars

\* Threads are scheduled, a lock that comes free again and again is got, the
\* pump's timer runs and a queue takes what is in it.
Fairness ==
    \A p \in Peers : /\ WF_vars(Step(p)) /\ SF_vars(OnEncodedImage(p))
                     /\ WF_vars(OnPump(p))
                     /\ WF_vars(\E key \in BOOLEAN : Encode(p, key))

FairSpec == Spec /\ Fairness

-----------------------------------------------------------------------------
\* OnEncodedImage calls raw pointers: while it walks ActiveEncoders on the
\* queue of one peer, no encoder it has still to visit is destroyed by the
\* queue of another.
SendsToLiving ==
    \A p \in Peers : pc[p] = "send" =>
        \A q \in todo[p] : life[q] \notin {"none", "gone"}

\* Whatever call of a conversion fails, between two conversions of D3D12 and
\* Vulkan nothing of a texture stays mapped and no context stays pushed. (The
\* branches of D3D11 throw before they unmap.)
NothingLeftMapped ==
    api # "D3D11" => /\ \A e \in Encoder : mapped[e] = {}
                     /\ \A p \in Peers : contexts[p] = 0

\* A call of Encode, and with it the queue of the peer, always comes back:
\* neither the nested locks of the delivery nor the locks of two pictures in
\* work block it for ever.
EncodeReturns == \A p \in Peers : []<>(pc[p] = "idle")

\* Peers whose pictures the quality controller makes.
Served(p) ==
    LET c == QualityController
    IN  life[p] = "ready" /\ life[c] = "ready" /\ HardwareEncoderId[p] = HardwareEncoderId[c]

\* A peer for which a key frame was forced, two pictures after it joined or at
\* the end of a freeze, gets one, although another peer's queue makes it;
\* unless its pictures stop or the request was lost in a race noted above.
KeyFrameComes ==
    \A p \in Peers : p \in owed ~> (p \notin owed \/ ~Served(p))
=============================================================================
