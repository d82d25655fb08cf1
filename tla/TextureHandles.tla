--------------------------- MODULE TextureHandles ---------------------------
(***************************************************************************)
(* How a captured texture gets into the server: FSendThread of the plugin, *)
(* FUnrealVideoReceiver (Windows) and the socket with ZFdSocketClient      *)
(* (Linux) of the server.                                                  *)
(*                                                                         *)
(*   D3D11   the handle of the texture is written to shared memory if it   *)
(*           is not the one written last;                                  *)
(*   D3D12   a handle named by a new number is made for every texture; the *)
(*           last MaxCache of them are kept open, and the server opens the *)
(*           name that it reads from shared memory;                        *)
(*   Vulkan  a file descriptor of the texture's memory is sent over a UNIX *)
(*           socket; the last MaxCache are kept open here, the server has  *)
(*           descriptors of its own.                                       *)
(*                                                                         *)
(* The server does not close a descriptor with its texture. It notes every *)
(* number that it receives and closes all it has noted when they are       *)
(* CloseLimit; CUDA closes those it imports. The number of a closed        *)
(* descriptor names a later texture, which is why the model has numbers.   *)
(*                                                                         *)
(* The handshakes of shared memory are those of SharedMemory, here one     *)
(* step; the queue behind PUBLISH_MESSAGE(OnTextureReceived) is that of    *)
(* VideoPump, here without its threads.                                    *)
(***************************************************************************)
EXTENDS TextureCapture, FiniteSets, FiniteSetsExt

CONSTANTS MaxCache,    \* handles that the application keeps open, 60 by default
          CloseLimit,  \* 100 in the code
          MaxQueue,    \* the length the textures in TextureCaches are cut to
          MaxFd        \* bound on the descriptors of the server

\* With MaxCache 0, which the configuration may say, the code looks at the
\* first element of an empty array. The queue is cut to two, and must not be
\* longer: of three numbers that CloseAll closed the first two could be given
\* out again in the other order.
ASSUME HandlesAssumption ==
    /\ MaxCache \in Nat \ {0}
    /\ CloseLimit \in Nat \ {0}
    /\ MaxQueue \in 1 .. 2
    /\ MaxFd \in Nat \ {0}

VARIABLES RHIName,
          Suffix,       \* textures for which a handle was asked
          lastSent,     \* the texture whose handle was written or sent last
          caches,       \* D3D12SharedHandleCaches or VulkanFdCaches, as numbers
          slot,         \* the shared memory: the number and the texture last written
          receiver,     \* FUnrealVideoReceiver: what it has read
          published,    \* the texture of the last OnTextureReceived
          listener,     \* ZFdSocketServer
          client,       \* ZFdSocketClient
          wire,         \* numbers of the textures in the socket
          descriptors,  \* the texture each descriptor of the server names, or 0
          ToCloseCaches,
          TextureCaches, \* descriptors of the textures not yet encoded
          LastTexture,  \* the descriptor of the texture encoded last
          shown         \* the texture whose picture was encoded last

senderVars == <<RHIName, Suffix, lastSent, caches>>

memoryVars == <<slot, receiver>>

socketVars == <<listener, client, wire>>

serverVars == <<descriptors, ToCloseCaches, TextureCaches, LastTexture, shown>>

handleVars == <<senderVars, memoryVars, published, socketVars, serverVars>>

-----------------------------------------------------------------------------
\* Textures are numbered by Suffix in the order in which they are sent; 0 is none.
Numbers == 0 .. MaxFrames

NoTexture == [number |-> 0, texture |-> -1]

Sendings == [number : Numbers, texture : Textures \cup {-1}]

Fds == 1 .. MaxFd

HandlesTypeOK ==
    /\ RHIName \in {"D3D11", "D3D12", "Vulkan"}
    /\ Suffix \in Numbers
    /\ lastSent \in Sendings /\ slot \in Sendings /\ published \in Sendings
    /\ caches \in Seq(Numbers)
    /\ receiver \in [at : {"reading", "opening"}, read : Sendings, handle : Sendings]
    /\ listener \in {"starting", "listening", "elsewhere"}
    /\ client \in {"starting", "connecting", "accepted", "failed"}
    /\ wire \in Seq(Numbers)
    /\ descriptors \in [Fds -> Numbers]
    /\ ToCloseCaches \subseteq Fds
    /\ TextureCaches \in Seq(Fds)
    /\ LastTexture \in Fds \cup {0}
    /\ shown \in Numbers

HandlesInit ==
    /\ RHIName \in {"D3D11", "D3D12", "Vulkan"}
    /\ Suffix = 0
    /\ lastSent = NoTexture /\ slot = NoTexture /\ published = NoTexture
    /\ caches = <<>>
    /\ receiver = [at |-> "reading", read |-> NoTexture, handle |-> NoTexture]
    /\ listener = "starting"
    /\ client = "starting"
    /\ wire = <<>>
    /\ descriptors = [fd \in Fds |-> 0]
    /\ ToCloseCaches = {}
    /\ TextureCaches = <<>>
    /\ LastTexture = 0
    /\ shown = 0

-----------------------------------------------------------------------------
\* The oldest handle is closed to make room for a new one.
Cached(number) ==
    Append(IF Len(caches) >= MaxCache THEN Tail(caches) ELSE caches, number)

\* Mutant: a handle is written only as long as the slot is empty.
WriteD3D11Once(sending) == slot' = IF slot = NoTexture THEN sending ELSE slot

\* The handle of a texture never changes, so it is written unless the same
\* texture was written last.
WriteD3D11(sending) == slot' = IF sending.texture = slot.texture THEN slot ELSE sending

\* CreateSharedHandle, or vkGetMemoryFd, may fail: nothing is sent then. On
\* Linux a texture is lost as well while no server is connected.
SendTextureHandleToShareMemory(t) ==
    LET sending == [number |-> Suffix + 1, texture |-> t]
    IN  /\ Suffix' = Suffix + 1
        /\ \/ UNCHANGED <<caches, slot, lastSent, wire>>
           \/ /\ RHIName = "D3D11"
              /\ WriteD3D11(sending)
              /\ lastSent' = sending
              /\ UNCHANGED <<caches, wire>>
           \/ /\ RHIName = "D3D12"
              /\ caches' = Cached(Suffix + 1)
              /\ slot' = sending
              /\ lastSent' = sending
              /\ UNCHANGED wire
           \/ /\ RHIName = "Vulkan"
              /\ caches' = Cached(Suffix + 1)
              /\ IF client = "accepted"
                 THEN /\ wire' = Append(wire, Suffix + 1)
                      /\ lastSent' = sending
                 ELSE UNCHANGED <<wire, lastSent>>
              /\ UNCHANGED slot

\* The end of the poller's callback.
Send ==
    /\ SendReadBuffer
    /\ SendTextureHandleToShareMemory(ReadBuffer')
    /\ UNCHANGED <<RHIName, receiver, published, listener, client, serverVars>>

-----------------------------------------------------------------------------
\* FUnrealVideoReceiver::Run
ReadSlot ==
    /\ RHIName # "Vulkan"
    /\ receiver.at = "reading"
    /\ slot.number # receiver.read.number
    /\ receiver' = [receiver EXCEPT !.at = "opening", !.read = slot]
    /\ UNCHANGED <<senderVars, slot, published, socketVars, serverVars>>

\* The texture of a D3D12 name that has been closed meanwhile is published too,
\* with a null handle; the encoder passes over it (see TransmitD3D12).
Openable(sending) ==
    RHIName = "D3D12" => \E i \in 1 .. Len(caches) : caches[i] = sending.number

OpenAndPublish ==
    LET sending == receiver.read
        known == IF RHIName = "D3D11" THEN receiver.handle.texture = sending.texture
                                      ELSE receiver.handle.number = sending.number
    IN  /\ receiver.at = "opening"
        /\ receiver' = [receiver EXCEPT !.at = "reading",
                                        !.handle = IF known THEN @ ELSE sending]
        /\ published' = IF known THEN published
                        ELSE IF Openable(sending) THEN sending ELSE NoTexture
        /\ UNCHANGED <<senderVars, slot, socketVars, serverVars>>

-----------------------------------------------------------------------------
\* ZFdSocketServer::Run. The constructor of FSendThread gives it a pointer into
\* a local string: what it finds there when the thread comes to it is undefined.
Listen ==
    /\ RHIName = "Vulkan"
    /\ listener = "starting"
    /\ listener' \in {"listening", "elsewhere"}
    /\ UNCHANGED <<senderVars, memoryVars, published, client, wire, serverVars>>

\* The server connects once.
Connect ==
    /\ RHIName = "Vulkan"
    /\ client = "starting"
    /\ client' = IF listener = "listening" THEN "connecting" ELSE "failed"
    /\ UNCHANGED <<senderVars, memoryVars, published, listener, wire, serverVars>>

Accept ==
    /\ client = "connecting"
    /\ client' = "accepted"
    /\ UNCHANGED <<senderVars, memoryVars, published, listener, wire, serverVars>>

CloseDescriptors ==
    /\ Cardinality(ToCloseCaches) >= CloseLimit
    /\ descriptors' = [fd \in Fds |-> IF fd \in ToCloseCaches THEN 0 ELSE descriptors[fd]]
    /\ ToCloseCaches' = {}

\* The head of the loop of ZFdSocketClient::Run
CloseAll ==
    /\ CloseDescriptors
    /\ UNCHANGED <<senderVars, memoryVars, published, socketVars, TextureCaches,
                   LastTexture, shown>>

Noted(fd) == ToCloseCaches \cup {fd}

\* The system gives the texture the lowest number that is free.
ReceiveDescriptor ==
    /\ wire # <<>>
    /\ Cardinality(ToCloseCaches) < CloseLimit
    /\ \E fd \in Fds : descriptors[fd] = 0
    /\ LET fd == Min({f \in Fds : descriptors[f] = 0})
       IN  /\ descriptors' = [descriptors EXCEPT ![fd] = Head(wire)]
           /\ ToCloseCaches' = Noted(fd)
           /\ TextureCaches' =
                Append(IF Len(TextureCaches) >= MaxQueue THEN Tail(TextureCaches)
                                                         ELSE TextureCaches, fd)
    /\ wire' = Tail(wire)
    /\ published' = [number |-> Head(wire), texture |-> -1]
    /\ UNCHANGED <<senderVars, memoryVars, listener, client, LastTexture, shown>>

\* Mutant: the descriptor is imported without a look at whether it is open.
ConvertUnseen(fd) ==
    /\ shown' = descriptors[fd]
    /\ descriptors' = [descriptors EXCEPT ![fd] = 0]

\* SetTextureCudaVulkan: a descriptor that is closed is passed over, and the
\* import, which closes it, may fail.
Convert(fd) ==
    \/ /\ descriptors[fd] # 0
       /\ shown' = descriptors[fd]
       /\ descriptors' = [descriptors EXCEPT ![fd] = 0]
    \/ UNCHANGED <<shown, descriptors>>

\* GetTexture and Transmit: without a newer texture the last one comes again.
EncodeNext ==
    /\ RHIName = "Vulkan"
    /\ TextureCaches # <<>>
    /\ LastTexture' = Head(TextureCaches)
    /\ TextureCaches' = Tail(TextureCaches)
    /\ Convert(LastTexture')
    /\ UNCHANGED <<senderVars, memoryVars, published, socketVars, ToCloseCaches>>

EncodeAgain ==
    /\ TextureCaches = <<>>
    /\ LastTexture # 0
    /\ Convert(LastTexture)
    /\ UNCHANGED <<senderVars, memoryVars, published, socketVars, ToCloseCaches,
                   TextureCaches, LastTexture>>

-----------------------------------------------------------------------------
vars == <<captureVars, handleVars>>

Init == CaptureInit /\ HandlesInit

Receiving ==
    \/ ReadSlot \/ OpenAndPublish
    \/ CloseAll \/ ReceiveDescriptor
    \/ EncodeNext \/ EncodeAgain

Connecting == Listen \/ Connect \/ Accept

Next ==
    \/ CaptureOnly /\ UNCHANGED handleVars
    \/ Send
    \/ (Receiving \/ Connecting) /\ UNCHANGED captureVars

Spec == Init /\ [][Next]_vars

\* Threads that are not waiting go on, and so does the GPU. Neither the render
\* thread has to present a picture nor the application to end.
Fairness ==
    /\ WF_vars((AddFenceJob \/ TriggerJobAdded) /\ UNCHANGED handleVars)
    /\ WF_vars(GPUCopies /\ UNCHANGED handleVars)
    /\ WF_vars((Poller /\ UNCHANGED handleVars) \/ Send)
    /\ WF_vars((ReadSlot \/ OpenAndPublish) /\ UNCHANGED captureVars)
    /\ WF_vars((CloseAll \/ ReceiveDescriptor) /\ UNCHANGED captureVars)

FairSpec == Spec /\ Fairness

-----------------------------------------------------------------------------
\* The encoder never goes back to the picture of an earlier texture, although
\* the numbers of descriptors that CloseAll closed are given to later textures
\* while the queue still holds them.
NeverShowsOlder == [][shown' >= shown]_vars

\* The application keeps no more handles open than it was told to, and the server
\* no more descriptors than it closes at once, although it closes none with its
\* texture and the numbers it has noted are given out again.
HandlesBounded ==
    /\ Len(caches) <= MaxCache
    /\ Cardinality({fd \in Fds : descriptors[fd] # 0}) <= CloseLimit

\* The texture that was sent last becomes the one the server has published last.
LastTextureArrives ==
    <>[](\/ lastSent.number = published.number
         \/ RHIName = "D3D11" /\ lastSent.texture = published.texture)
=============================================================================
