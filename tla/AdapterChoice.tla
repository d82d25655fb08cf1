---------------------------- MODULE AdapterChoice ----------------------------
(***************************************************************************)
(* How the rendering server comes to render on the graphics adapter of the *)
(* application that started it.                                            *)
(*                                                                         *)
(* The application names its adapter on the command line, the server reads *)
(* its own configuration file, lets the command line override it, and      *)
(* walks through the adapters that the system enumerates. A texture can be *)
(* shared only between two users of one adapter, and CUDA can read it only *)
(* on that adapter too.                                                    *)
(*                                                                         *)
(* An adapter is a record; the machine lists them in the order in which    *)
(* they are enumerated, and 0 stands for none. The numbers of the command  *)
(* line are printed as signed and read back into unsigned integers of the  *)
(* same width, which changes none of them. The preferred vendor, the head- *)
(* mounted display and PerfHUD are switched off by constants in the code.  *)
(***************************************************************************)
EXTENDS Integers, Sequences, FiniteSets, FiniteSetsExt

(***************************************************************************)
(* luid, deviceId: as the system reports them; no two adapters of a        *)
(* machine share a luid, two cards of one make share the deviceId.         *)
(* apis: the interfaces for which a test device can be created.            *)
(* cuda: is it a device of CUDA too?                                       *)
(* families: the capabilities of its Vulkan queue families.                *)
(***************************************************************************)
Adapter(luid, deviceId, vendor, integrated, apis, cuda, families) ==
    [luid |-> luid, deviceId |-> deviceId, vendor |-> vendor,
     integrated |-> integrated, apis |-> apis, cuda |-> cuda, families |-> families]

\* The first of a set of indices, or 0.
First(indices) == IF indices = {} THEN 0 ELSE Min(indices)

-----------------------------------------------------------------------------
\* The command line that LaunchCloudRenderServer writes: how many arguments
\* there are, and what they say. Without a device to ask, or if the plugin was
\* built for an engine that has none of this interface, there are none.
Params(app) ==
    LET a == app.adapters[app.ours]
        known == \/ app.rhi = "D3D11" /\ app.engine = "old"
                 \/ app.rhi = "D3D12" /\ app.engine = "new"
    IN  [count |-> CASE known -> 5 [] app.rhi = "Vulkan" -> 4 [] OTHER -> 0,
         gpuIndex |-> app.graphicsadapter,
         luid |-> a.luid,
         deviceId |-> a.deviceId]

\* A key is used if the file was read and parsed and the value has the type.
TryReadConfig(file, key, default) == IF key \in DOMAIN file THEN file[key] ELSE default

\* FAppConfig, then main's arguments: on Windows the adapter takes three of
\* them, on Linux two.
Config(file, params, rhi) ==
    LET given == params.count >= (IF rhi = "Vulkan" THEN 4 ELSE 5)
    IN  [rhi |-> TryReadConfig(file, "RHIName", "D3D11"),
         GpuIndex |-> IF params.count >= 2 /\ TryReadConfig(file, "bUseGraphicsAdapter", FALSE)
                      THEN params.gpuIndex
                      ELSE TryReadConfig(file, "GpuIndex", 0),
         luid |-> IF given /\ rhi # "Vulkan" THEN params.luid ELSE 0,
         deviceId |-> IF given THEN params.deviceId ELSE 0]

-----------------------------------------------------------------------------
\* Mutant: two cards of one make are taken for each other.
IsExplicitAdapterByMake(adapter, config) == adapter.deviceId = config.deviceId

IsExplicitAdapter(adapter, config) ==
    adapter.luid = config.luid /\ adapter.deviceId = config.deviceId

\* FD3D11DynamicRHI::InitD3DDevice
ChosenD3D11Adapter(adapters, config) ==
    LET software(a) == a.vendor = "Microsoft" /\ config.GpuIndex < 0
        allowed == { i \in DOMAIN adapters :
                       /\ "D3D11" \in adapters[i].apis
                       /\ ~software(adapters[i])
                       /\ IsExplicitAdapter(adapters[i], config) }
        withoutIntegrated == { i \in allowed : ~adapters[i].integrated }
    IN  IF config.GpuIndex = -1 /\ withoutIntegrated # {}
        THEN First(withoutIntegrated)
        ELSE First(allowed)

\* FD3D12DynamicRHI::FD3D12DynamicRHI
ChosenD3D12Adapter(adapters, config) ==
    LET allowed == { i \in DOMAIN adapters :
                       /\ "D3D12" \in adapters[i].apis
                       /\ IsExplicitAdapter(adapters[i], config) }
        discrete == { i \in allowed : /\ ~adapters[i].integrated
                                      /\ adapters[i].vendor # "Microsoft" }
    IN  IF config.GpuIndex = -1 /\ discrete # {} THEN First(discrete) ELSE First(allowed)

\* FVulkanDynamicRHI: the UUID is passed on and not compared.
FindPhysicalDevice(adapters, config) ==
    First({ i \in DOMAIN adapters : /\ "Vulkan" \in adapters[i].apis
                                    /\ adapters[i].deviceId = config.deviceId })

\* The queue families a Vulkan device is created with: the first that does
\* graphics, and the first that does nothing but transfers. (Asynchronous
\* computing is switched off.)
QueueFamilies(families) ==
    LET graphics == { i \in DOMAIN families : "graphics" \in families[i] }
        transfer == { i \in DOMAIN families :
                        /\ "transfer" \in families[i]
                        /\ families[i] \intersect {"graphics", "compute"} = {} }
    IN  {First(graphics), First(transfer)} \ {0}

CreateVulkanDevice(adapters, config) ==
    LET i == FindPhysicalDevice(adapters, config)
    IN  IF i # 0 /\ QueueFamilies(adapters[i].families) # {} THEN i ELSE 0

\* InitDynamicRHI. Each platform knows its own interfaces only: on Windows the
\* server exits, on Linux it goes on without one.
InitDynamicRHI(app, config) ==
    CASE app.rhi # "Vulkan" /\ config.rhi = "D3D11" -> ChosenD3D11Adapter(app.adapters, config)
      [] app.rhi # "Vulkan" /\ config.rhi = "D3D12" -> ChosenD3D12Adapter(app.adapters, config)
      [] app.rhi = "Vulkan" /\ config.rhi = "Vulkan" -> CreateVulkanDevice(app.adapters, config)
      [] OTHER -> 0

\* InitCudaContext of the three converters: the device of CUDA that is the
\* adapter (IsRHISelectedDevice, cudaD3D11GetDevice), if there is one.
InitCudaContext(app, chosen) ==
    First({ i \in DOMAIN app.adapters : /\ app.adapters[i].cuda
                                        /\ chosen # 0
                                        /\ app.adapters[i].luid = app.adapters[chosen].luid })

\* The server that an application starts, and what it renders with.
Devices(app) ==
    LET chosen == InitDynamicRHI(app, Config(app.file, Params(app), app.rhi))
    IN  [rhi |-> chosen, cuda |-> InitCudaContext(app, chosen)]

\* Vulkan's device id does not tell two cards of one make apart.
Ambiguous(app) ==
    /\ app.rhi = "Vulkan"
    /\ \E i \in DOMAIN app.adapters :
         /\ i # app.ours
         /\ app.adapters[i].deviceId = app.adapters[app.ours].deviceId
=============================================================================
