SPECIFICATION FairSpec
CONSTANTS
    Peers = {p1, p2}
    Resolutions = {r1}
    FirstPeer = p1
    None = None
    Apis = {"D3D11", "D3D12", "Vulkan"}
    MaxEvents <- MCMaxEvents
CHECK_DEADLOCK FALSE
INVARIANTS SendsToLiving NothingLeftMapped
PROPERTIES EncodeReturns KeyFrameComes
