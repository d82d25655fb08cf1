--------------------------- MODULE MCLaunchServers ---------------------------
(***************************************************************************)
(* LaunchServers for TLC: configurations that differ in what is watched,   *)
(* and machines with an integrated adapter, two cards of one make and the  *)
(* software adapter of Windows.                                            *)
(***************************************************************************)
EXTENDS LaunchServers

D3D == {"D3D11", "D3D12"}

Families == << {"compute", "transfer"}, {"graphics", "compute", "transfer"}, {"transfer"} >>

Intel(apis) == Adapter(11, 1, "Intel", TRUE, apis, FALSE, Families)

Card(luid, apis) == Adapter(luid, 2, "NVIDIA", FALSE, apis, TRUE, Families)

Software(apis) == Adapter(14, 3, "Microsoft", FALSE, apis, FALSE, <<>>)

App(rhi, engine, adapters, ours, graphicsadapter, file) ==
    [rhi |-> rhi, engine |-> engine, adapters |-> adapters, ours |-> ours,
     graphicsadapter |-> graphicsadapter, file |-> file]

NoFile == [k \in {} |-> 0]

UseAdapter(rhi) == [k \in {"RHIName", "bUseGraphicsAdapter"} |->
                      IF k = "RHIName" THEN rhi ELSE TRUE]

Windows == << Intel(D3D), Card(12, D3D), Card(13, D3D), Software(D3D) >>

Linux == << Card(12, {"Vulkan"}), Intel({"Vulkan"}), Card(13, {"Vulkan"}) >>

Apps ==
    { App("D3D11", "old", Windows, ours, -1, file) :
        ours \in 1 .. 4, file \in {NoFile, UseAdapter("D3D11")} }
    \union
    { App("D3D12", "new", Windows, ours, -1, file) :
        ours \in 1 .. 4, file \in {UseAdapter("D3D12"), UseAdapter("D3D11")} }
    \union
    { App("Vulkan", "new", Linux, ours, 0, UseAdapter("Vulkan")) : ours \in 1 .. 3 }
    \union
    { App("D3D11", "new", Windows, 2, -1, NoFile) }

AnApp == App("D3D12", "new", Windows, 3, -1, UseAdapter("D3D12"))

Setup(mode, enabled, product, signalling, public, turn, exists, app) ==
    [CloudMode |-> mode, bEnableCloudRender |-> enabled,
     bUseOpenZICloudRenderProduct |-> product, bLaunchSignallingWebServer |-> signalling,
     bCloudPublicAccess |-> public, bLaunchTurnServer |-> turn, serverExists |-> exists,
     app |-> app]

\* Everything is watched on one machine, and little on all machines.
MCSetups ==
    { Setup(mode, {TRUE}, TRUE, signalling, TRUE, turn, exists, AnApp) :
        mode \in {"UE", "OpenZI"}, signalling \in BOOLEAN, turn \in BOOLEAN, exists \in BOOLEAN }
    \union
    { Setup("OpenZIAndUsePixelStreaming", {TRUE}, TRUE, FALSE, FALSE, FALSE, TRUE, app) :
        app \in Apps }
    \union
    { Setup("OpenZI", BOOLEAN, TRUE, TRUE, FALSE, FALSE, TRUE, AnApp),
      Setup("UEAndUsePixelStreaming", {TRUE}, TRUE, FALSE, FALSE, TRUE, TRUE, AnApp),
      Setup("OpenZI", {TRUE}, FALSE, TRUE, TRUE, TRUE, TRUE, AnApp),
      Setup("none", {TRUE}, TRUE, TRUE, TRUE, TRUE, TRUE, AnApp) }
=============================================================================
