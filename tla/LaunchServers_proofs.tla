------------------------ MODULE LaunchServers_proofs ------------------------
(***************************************************************************)
(* Proofs about the launching thread, for any configurations and machines, *)
(* and any number of failures and processes; and about the choice of the   *)
(* adapter that the server it launches renders on.                         *)
(***************************************************************************)
EXTENDS LaunchServers, TLAPS

Threads ==
    { "none", "init", "first turn", "first signalling", "loop", "count", "first cloud", "cloud",
      "reboot cloud", "signalling", "reboot signalling", "turn", "reboot turn", "terminating",
      "ended" }

\* The types and, of a running process, that its handle is known.
Control ==
    /\ setup \in Setups
    /\ module \in {"loaded", "created", "off", "stopping", "gone"}
    /\ receivers \subseteq {"input", "video", "audio"}
    /\ watch \in [Servers -> BOOLEAN]
    /\ ExitRequest \in BOOLEAN /\ bInitialized \in BOOLEAN
    /\ DelayCounter \in 0 .. DelaySeconds
    /\ thread \in Threads

Processes ==
    /\ handle \in [Servers -> 0 .. created]
    /\ alive \subseteq 1 .. created
    /\ created \in 0 .. MaxProcesses
    /\ failures \in 0 .. MaxFailures
    /\ alive \subseteq { handle[s] : s \in Servers }

\* A server is launched for the first time, or again after the thread has
\* forgotten it, only when there is no process for it.
NotLaunched ==
    /\ module = "loaded" => thread = "none"
    /\ thread \in {"none", "init", "first turn"} => handle["turn"] = 0
    /\ thread \in {"none", "init", "first turn", "first signalling"} => handle["signalling"] = 0
    /\ ~bInitialized \/ thread = "first cloud" => handle["cloud"] = 0
    /\ thread \in {"first cloud", "cloud", "reboot cloud"} => bInitialized
    /\ thread \in {"none", "init", "first turn", "first signalling"} => ~bInitialized

\* The devices are those of the adapters that the server was told.
DevicesChosen == handle["cloud"] # 0 => devices = Devices(setup.app)

LaunchInv ==
    /\ Control
    /\ Processes
    /\ NotLaunched
    /\ DevicesChosen
    /\ thread = "ended" => alive = {}

-----------------------------------------------------------------------------
(* The choice of the adapter. *)

LEMMA FirstOfAtMostOne ==
    ASSUME NEW n \in Nat, NEW S, S \subseteq {n}
    PROVE  First(S) \in {0, n}
<1>1. CASE S = {}
  BY <1>1 DEF First
<1>2. CASE S = {n}
  <2>1. n \in S /\ \A y \in S : n =< y
    BY <1>2
  <2>2. Min(S) \in S
    BY <2>1 DEF Min
  <2>3. QED
    BY <1>2, <2>2 DEF First
<1>3. QED
  BY <1>1, <1>2

\* Whatever the server was told and whatever interface it starts, the adapter
\* it finds is that of the application, or none; with Vulkan this takes cards
\* of different makes.
LEMMA OwnAdapter ==
    ASSUME NEW app,
           DOMAIN app.adapters \subseteq Nat \ {0}, app.ours \in DOMAIN app.adapters,
           \A i, j \in DOMAIN app.adapters : app.adapters[i].luid = app.adapters[j].luid => i = j,
           \A i \in DOMAIN app.adapters : app.adapters[i].luid # 0,
           ~Ambiguous(app)
    PROVE  Devices(app).rhi \in {0, app.ours} /\ Devices(app).cuda \in {0, app.ours}
<1>. DEFINE a == app.adapters
            c == Config(app.file, Params(app), app.rhi)
            chosen == InitDynamicRHI(app, c)
<1>1. ASSUME app.rhi # "Vulkan" PROVE c.luid \in {0, a[app.ours].luid}
  BY <1>1 DEF Config, Params
<1>2. ASSUME app.rhi = "Vulkan" PROVE c.deviceId = a[app.ours].deviceId
  BY <1>2 DEF Config, Params
<1>. HIDE DEF c
<1>3. ASSUME app.rhi # "Vulkan"
      PROVE  {i \in DOMAIN a : IsExplicitAdapter(a[i], c)} \subseteq {app.ours}
  BY <1>1, <1>3 DEF IsExplicitAdapter
<1>4. app.ours \in Nat
  OBVIOUS
<1>5. chosen \in {0, app.ours}
  <2>1. CASE app.rhi # "Vulkan" /\ c.rhi = "D3D11"
    <3>1. ChosenD3D11Adapter(a, c) \in {0, app.ours}
      BY <1>3, <1>4, <2>1, FirstOfAtMostOne DEF ChosenD3D11Adapter
    <3>2. QED
      BY <2>1, <3>1 DEF InitDynamicRHI
  <2>2. CASE app.rhi # "Vulkan" /\ c.rhi = "D3D12"
    <3>1. ChosenD3D12Adapter(a, c) \in {0, app.ours}
      BY <1>3, <1>4, <2>2, FirstOfAtMostOne DEF ChosenD3D12Adapter
    <3>2. QED
      BY <2>2, <3>1 DEF InitDynamicRHI
  <2>3. CASE app.rhi = "Vulkan" /\ c.rhi = "Vulkan"
    <3>1. {i \in DOMAIN a : "Vulkan" \in a[i].apis /\ a[i].deviceId = c.deviceId} \subseteq {app.ours}
      BY <1>2, <2>3 DEF Ambiguous
    <3>2. FindPhysicalDevice(a, c) \in {0, app.ours}
      BY <1>4, <3>1, FirstOfAtMostOne DEF FindPhysicalDevice
    <3>3. CreateVulkanDevice(a, c) \in {0, app.ours}
      BY <3>2 DEF CreateVulkanDevice
    <3>4. QED
      BY <2>3, <3>3 DEF InitDynamicRHI
  <2>4. CASE /\ ~(app.rhi # "Vulkan" /\ c.rhi \in {"D3D11", "D3D12"})
             /\ ~(app.rhi = "Vulkan" /\ c.rhi = "Vulkan")
    BY <2>4 DEF InitDynamicRHI
  <2>5. QED
    BY <2>1, <2>2, <2>3, <2>4
<1>. HIDE DEF chosen
<1>6. InitCudaContext(app, chosen) \in {0, app.ours}
  <2>. DEFINE same == { i \in DOMAIN a : a[i].cuda /\ chosen # 0 /\ a[i].luid = a[chosen].luid }
  <2>1. same \subseteq {app.ours}
    BY <1>5
  <2>2. First(same) \in {0, app.ours}
    BY <1>4, <2>1, FirstOfAtMostOne
  <2>3. QED
    BY <2>2 DEF InitCudaContext
<1>7. QED
  BY <1>5, <1>6 DEF Devices, chosen, c

-----------------------------------------------------------------------------
(* The processes and their handles. *)

LEMMA TerminateKeeps ==
    ASSUME Processes, NEW S \in SUBSET Servers, Terminate(S), created' = created,
           failures' \in 0 .. MaxFailures
    PROVE  /\ Processes'
           /\ \A t \in Servers : handle'[t] = IF t \in S THEN 0 ELSE handle[t]
<1>1. \A t \in Servers : handle'[t] = IF t \in S THEN 0 ELSE handle[t]
  BY DEF Terminate
<1>2. handle' \in [Servers -> 0 .. created']
  BY SetupsAssumption DEF Terminate, Processes
<1>3. alive' \subseteq { handle'[t] : t \in Servers }
  <2>1. ASSUME NEW p \in alive' PROVE \E t \in Servers : handle'[t] = p
    <3>1. PICK t \in Servers : handle[t] = p
      BY <2>1 DEF Terminate, Processes
    <3>2. t \notin S
      BY <2>1, <3>1 DEF Terminate
    <3>3. QED
      BY <1>1, <3>1, <3>2
  <2>2. QED
    BY <2>1
<1>4. QED
  BY <1>1, <1>2, <1>3 DEF Terminate, Processes

\* A process is created for a server only when its handle was given up: then
\* no running process loses its handle.
LEMMA CreateProcKeeps ==
    ASSUME Processes, NEW s \in Servers, NEW S \in SUBSET Servers, s \in S \/ handle[s] = 0,
           CreateProc(s, S)
    PROVE  /\ Processes'
           /\ \A t \in Servers \ {s} : handle'[t] = IF t \in S THEN 0 ELSE handle[t]
<1>1. CASE /\ failures < MaxFailures
           /\ failures' = failures + 1
           /\ Terminate(S \union {s})
           /\ UNCHANGED created
  <2>1. failures' \in 0 .. MaxFailures
    BY <1>1, SetupsAssumption DEF Processes
  <2>2. QED
    BY <1>1, <2>1, TerminateKeeps
<1>2. CASE /\ created < MaxProcesses
           /\ created' = created + 1
           /\ alive' = (alive \ { handle[t] : t \in S }) \union {created + 1}
           /\ handle' = [t \in Servers |-> IF t = s THEN created + 1
                                           ELSE IF t \in S THEN 0 ELSE handle[t]]
           /\ UNCHANGED failures
  <2>0. created \in Nat /\ MaxProcesses \in Nat
    BY SetupsAssumption DEF Processes
  <2>1. \A t \in Servers \ {s} : handle'[t] = IF t \in S THEN 0 ELSE handle[t]
    BY <1>2
  <2>2. created' \in 0 .. MaxProcesses /\ failures' \in 0 .. MaxFailures
    BY <1>2, <2>0 DEF Processes
  <2>3. handle' \in [Servers -> 0 .. created']
    <3>1. \A t \in Servers : handle[t] \in 0 .. created
      BY DEF Processes
    <3>2. QED
      BY <1>2, <2>0, <3>1
  <2>4. ASSUME NEW p \in alive' PROVE p \in 1 .. created'
    <3>1. p = created + 1 \/ p \in 1 .. created
      BY <1>2, <2>4 DEF Processes
    <3>2. QED
      BY <1>2, <2>0, <3>1
  <2>5. ASSUME NEW p \in alive' PROVE \E t \in Servers : handle'[t] = p
    <3>1. CASE p = created + 1
      BY <1>2, <3>1
    <3>2. CASE p \in alive /\ p \notin { handle[t] : t \in S }
      <4>1. PICK t \in Servers : handle[t] = p
        BY <3>2 DEF Processes
      <4>2. t \notin S
        BY <3>2, <4>1
      <4>3. t # s
        BY <2>0, <3>2, <4>1, <4>2 DEF Processes
      <4>4. QED
        BY <2>1, <4>1, <4>2, <4>3
    <3>3. QED
      BY <1>2, <2>5, <3>1, <3>2
  <2>6. QED
    BY <2>1, <2>2, <2>3, <2>4, <2>5 DEF Processes
<1>3. QED
  BY <1>1, <1>2 DEF CreateProc

-----------------------------------------------------------------------------
(* The steps. *)

LEMMA InitInv == Init => LaunchInv
<1>. SUFFICES ASSUME Init PROVE LaunchInv
  OBVIOUS
<1>1. Control
  <2>1. watch \in [Servers -> BOOLEAN]
    BY DEF Init
  <2>2. ExitRequest \in BOOLEAN /\ bInitialized \in BOOLEAN
    BY DEF Init
  <2>3. DelayCounter \in 0 .. DelaySeconds
    BY DEF Init, DelaySeconds
  <2>4. setup \in Setups /\ module = "loaded" /\ receivers = {} /\ thread \in Threads
    BY DEF Init, Threads
  <2>5. QED
    BY <2>1, <2>2, <2>3, <2>4 DEF Control
<1>2. Processes
  BY SetupsAssumption DEF Init, Processes
<1>3. NotLaunched /\ DevicesChosen /\ (thread = "ended" => alive = {})
  BY DEF Init, NotLaunched, DevicesChosen, Servers
<1>4. QED
  BY <1>1, <1>2, <1>3 DEF LaunchInv

\* The steps that leave the processes alone.
LEMMA ControlSteps ==
    ASSUME LaunchInv, UNCHANGED <<setup, processVars>>,
           \/ CreateInputDevice \/ ThreadInit \/ Created \/ Stop \/ Gone
           \/ TestExitRequest \/ Delay \/ CloudRenderServerDown
           \/ \E s \in Servers : NothingToDo(s)
           \/ UNCHANGED vars
    PROVE  LaunchInv'
<1>. USE DEF LaunchInv, processVars
<1>1. Processes' /\ DevicesChosen'
  <2>1. /\ setup' = setup /\ handle' = handle /\ alive' = alive /\ created' = created
        /\ failures' = failures /\ devices' = devices
    OBVIOUS
  <2>2. Processes'
    BY <2>1 DEF Processes
  <2>3. DevicesChosen'
    BY <2>1 DEF DevicesChosen
  <2>4. QED
    BY <2>2, <2>3
<1>2. Control' /\ NotLaunched' /\ (thread' = "ended" => alive' = {})
  <2>1. CASE CreateInputDevice
    <3>1. watch' \in [Servers -> BOOLEAN]
      <4>. DEFINE cloud == setup.CloudMode \in {"OpenZI", "OpenZIAndUsePixelStreaming"}
      <4>1. cloud \in BOOLEAN /\ watch \in [Servers -> BOOLEAN]
        BY DEF Control
      <4>2. watch' = watch \/ watch' = [watch EXCEPT !["cloud"] = cloud]
        BY <2>1 DEF CreateInputDevice
      <4>. HIDE DEF cloud
      <4>3. QED
        BY <4>1, <4>2
    <3>2. thread' = thread \/ thread' = "init"
      BY <2>1 DEF CreateInputDevice
    <3>3. module' \in {"created", "off"} /\ receivers' \subseteq {"input", "video", "audio"}
      BY <2>1 DEF CreateInputDevice, Control
    <3>4. thread = "none"
      BY <2>1 DEF CreateInputDevice, NotLaunched
    <3>5. QED
      BY <2>1, <3>1, <3>2, <3>3, <3>4 DEF CreateInputDevice, Control, NotLaunched, Threads
  <2>2. CASE ThreadInit
    <3>1. watch' \in [Servers -> BOOLEAN]
      BY <2>2, ZenonT(30) DEF ThreadInit, Control
    <3>2. ExitRequest' \in BOOLEAN
      BY <2>2 DEF ThreadInit
    <3>3. QED
      BY <2>2, <3>1, <3>2 DEF ThreadInit, Control, NotLaunched, Threads
  <2>3. CASE Created
    BY <2>3 DEF Created, Control, NotLaunched, Threads, Servers, threadVars
  <2>4. CASE Stop
    BY <2>4 DEF Stop, Control, NotLaunched, Threads, Servers, threadVars
  <2>5. CASE Gone
    BY <2>5 DEF Gone, Control, NotLaunched, Threads, Servers, threadVars
  <2>6. CASE TestExitRequest
    BY <2>6 DEF TestExitRequest, Control, NotLaunched, Threads
  <2>7. CASE Delay
    <3>1. bInitialized' \in BOOLEAN
      <4>1. bInitialized \in BOOLEAN /\ (DelayCounter = DelaySeconds) \in BOOLEAN
        BY DEF Control
      <4>2. bInitialized' = bInitialized \/ bInitialized' = (DelayCounter = DelaySeconds)
        BY <2>7, ZenonT(30) DEF Delay
      <4>3. QED
        BY <4>1, <4>2, Zenon
    <3>2. DelayCounter' \in 0 .. DelaySeconds
      <4>1. DelayCounter \in 0 .. 3
        BY DEF Control, DelaySeconds
      <4>2. \/ DelayCounter' = DelayCounter
            \/ DelayCounter' = 0
            \/ DelayCounter # 3 /\ DelayCounter' = DelayCounter + 1
        BY <2>7 DEF Delay, DelaySeconds
      <4>3. QED
        BY <4>1, <4>2 DEF DelaySeconds
    <3>3. CASE bInitialized
      <4>1. bInitialized' = bInitialized
        BY <2>7, <3>3 DEF Delay
      <4>2. thread' = "cloud"
        BY <2>7, <3>3 DEF Delay
      <4>3. QED
        BY <2>7, <3>1, <3>2, <3>3, <4>1, <4>2 DEF Delay, Control, NotLaunched, Threads
    <3>4. CASE ~bInitialized
      <4>1. thread' = IF bInitialized' THEN "first cloud" ELSE "loop"
        BY <2>7, <3>4 DEF Delay
      <4>2. QED
        BY <2>7, <3>1, <3>2, <3>4, <4>1 DEF Delay, Control, NotLaunched, Threads
    <3>5. QED
      BY <3>3, <3>4
  <2>8. CASE CloudRenderServerDown
    BY <2>8 DEF CloudRenderServerDown, Control, NotLaunched, Threads
  <2>9. CASE \E s \in Servers : NothingToDo(s)
    <3>1. PICK s \in Servers : NothingToDo(s)
      BY <2>9
    <3>2. thread' = After(s) /\ thread = s
      BY <3>1 DEF NothingToDo
    <3>3. \/ thread = "cloud" /\ thread' = "signalling"
          \/ thread = "signalling" /\ thread' = "turn"
          \/ thread = "turn" /\ thread' = "loop"
      BY <3>2 DEF After, Servers
    <3>4. QED
      BY <3>1, <3>3 DEF NothingToDo, Control, NotLaunched, Threads
  <2>10. CASE UNCHANGED vars
    BY <2>10 DEF vars, threadVars, Control, NotLaunched
  <2>11. QED
    BY <2>1, <2>2, <2>3, <2>4, <2>5, <2>6, <2>7, <2>8, <2>9, <2>10
<1>3. QED
  BY <1>1, <1>2

\* The steps that launch a server.
LEMMA LaunchSteps ==
    ASSUME LaunchInv,
           \/ FirstTurnWebServer \/ FirstSignallingWebServer \/ FirstCloudRenderServer
           \/ TryRebootCloudRenderServer \/ TryRebootSignallingWebServer
           \/ TryRebootTurnWebServer
    PROVE  LaunchInv'
<1>. USE DEF LaunchInv
<1>0. /\ {} \in SUBSET Servers
      /\ \A s \in Servers : {s} \in SUBSET Servers
      /\ Servers = {"turn", "signalling", "cloud"}
  BY DEF Servers
<1>1. CASE FirstTurnWebServer
  <2>1. handle["turn"] = 0
    BY <1>1 DEF FirstTurnWebServer, NotLaunched
  <2>2. /\ Processes'
        /\ handle'["signalling"] = handle["signalling"] /\ handle'["cloud"] = handle["cloud"]
    <3>1. CASE CreateProc("turn", {})
      BY <1>0, <2>1, <3>1, CreateProcKeeps
    <3>2. CASE Terminate({}) /\ UNCHANGED <<created, failures>>
      <4>1. failures' \in 0 .. MaxFailures
        BY <3>2 DEF Processes
      <4>2. QED
        BY <1>0, <3>2, <4>1, TerminateKeeps
    <3>3. CASE UNCHANGED <<handle, alive, created, failures>>
      BY <3>3 DEF Processes
    <3>4. QED
      BY <1>1, <3>1, <3>2, <3>3 DEF FirstTurnWebServer, LaunchTurnWebServer
  <2>3. Control'
    <3>1. watch' \in [Servers -> BOOLEAN]
      BY <1>1 DEF FirstTurnWebServer, LaunchTurnWebServer, Control
    <3>2. QED
      BY <1>1, <3>1 DEF FirstTurnWebServer, Control, Threads
  <2>4. QED
    BY <1>1, <2>2, <2>3 DEF FirstTurnWebServer, NotLaunched, DevicesChosen
<1>2. CASE FirstSignallingWebServer
  <2>1. handle["signalling"] = 0
    BY <1>2 DEF FirstSignallingWebServer, NotLaunched
  <2>2. Processes' /\ handle'["cloud"] = handle["cloud"]
    <3>1. CASE CreateProc("signalling", {})
      BY <1>0, <2>1, <3>1, CreateProcKeeps
    <3>2. CASE UNCHANGED <<handle, alive, created, failures>>
      BY <3>2 DEF Processes
    <3>3. QED
      BY <1>2, <3>1, <3>2 DEF FirstSignallingWebServer, LaunchSignallingWebServer
  <2>3. QED
    BY <1>2, <2>2 DEF FirstSignallingWebServer, Control, Threads, NotLaunched, DevicesChosen
<1>3. ASSUME NEW S \in SUBSET {"cloud"}, "cloud" \in S \/ handle["cloud"] = 0,
             LaunchCloudRenderServer(S)
      PROVE  Processes' /\ (UNCHANGED setup => DevicesChosen')
  <2>1. CASE CreateProc("cloud", S) /\ devices' = Devices(setup.app)
    BY <1>0, <1>3, <2>1, CreateProcKeeps DEF DevicesChosen
  <2>2. CASE Terminate(S) /\ UNCHANGED <<created, failures, devices>>
    <3>1. failures' \in 0 .. MaxFailures
      BY <2>2 DEF Processes
    <3>2. Processes' /\ handle'["cloud"] \in {0, handle["cloud"]}
      BY <1>0, <1>3, <2>2, <3>1, TerminateKeeps
    <3>3. QED
      BY <2>2, <3>2 DEF DevicesChosen
  <2>3. QED
    BY <1>3, <2>1, <2>2 DEF LaunchCloudRenderServer
<1>4. CASE FirstCloudRenderServer
  <2>1. handle["cloud"] = 0
    BY <1>4 DEF FirstCloudRenderServer, NotLaunched
  <2>2. CASE LaunchCloudRenderServer({})
    BY <1>3, <1>4, <2>1, <2>2 DEF FirstCloudRenderServer, Control, Threads, NotLaunched
  <2>3. CASE UNCHANGED processVars
    BY <1>4, <2>3 DEF FirstCloudRenderServer, Control, Processes, Threads, NotLaunched,
                      DevicesChosen, processVars
  <2>4. QED
    BY <1>4, <2>2, <2>3 DEF FirstCloudRenderServer
<1>5. CASE TryRebootCloudRenderServer
  BY <1>3, <1>5 DEF TryRebootCloudRenderServer, Control, Threads, NotLaunched
<1>6. CASE TryRebootSignallingWebServer
  <2>1. Processes' /\ handle'["cloud"] = handle["cloud"]
    <3>1. CreateProc("signalling", {"signalling"})
      BY <1>6 DEF TryRebootSignallingWebServer, LaunchSignallingWebServer
    <3>2. QED
      BY <1>0, <3>1, CreateProcKeeps
  <2>2. QED
    BY <1>6, <2>1 DEF TryRebootSignallingWebServer, Control, Threads, NotLaunched, DevicesChosen
<1>7. CASE TryRebootTurnWebServer
  <2>1. Processes' /\ handle'["cloud"] = handle["cloud"]
    <3>1. CASE CreateProc("turn", {"turn"})
      BY <1>0, <3>1, CreateProcKeeps
    <3>2. CASE Terminate({"turn"}) /\ UNCHANGED <<created, failures>>
      <4>1. failures' \in 0 .. MaxFailures
        BY <3>2 DEF Processes
      <4>2. QED
        BY <1>0, <3>2, <4>1, TerminateKeeps
    <3>3. QED
      BY <1>7, <3>1, <3>2 DEF TryRebootTurnWebServer, LaunchTurnWebServer
  <2>2. Control'
    <3>1. watch' \in [Servers -> BOOLEAN]
      BY <1>7 DEF TryRebootTurnWebServer, LaunchTurnWebServer, Control
    <3>2. QED
      BY <1>7, <3>1 DEF TryRebootTurnWebServer, Control, Threads
  <2>3. QED
    BY <1>7, <2>1, <2>2 DEF TryRebootTurnWebServer, NotLaunched, DevicesChosen
<1>8. QED
  BY <1>1, <1>2, <1>4, <1>5, <1>6, <1>7

\* The steps that end processes, or find that they have ended.
LEMMA EndSteps ==
    ASSUME LaunchInv,
           SignallingWebServerDown \/ TurnWebServerDown \/ TerminateAll \/ Die
    PROVE  LaunchInv'
<1>. USE DEF LaunchInv
<1>0. /\ \A s \in Servers : {s} \in SUBSET Servers
      /\ Servers \in SUBSET Servers
      /\ Servers = {"turn", "signalling", "cloud"}
  BY DEF Servers
<1>1. ASSUME UNCHANGED failures PROVE failures' \in 0 .. MaxFailures
  BY <1>1 DEF Processes
<1>2. CASE SignallingWebServerDown
  <2>1. Processes' /\ handle'["cloud"] = 0
    BY <1>0, <1>1, <1>2, TerminateKeeps DEF SignallingWebServerDown
  <2>2. QED
    BY <1>2, <2>1 DEF SignallingWebServerDown, Control, Threads, NotLaunched, DevicesChosen
<1>3. CASE TurnWebServerDown
  <2>1. Processes' /\ handle'["cloud"] = handle["cloud"]
    BY <1>0, <1>1, <1>3, TerminateKeeps DEF TurnWebServerDown
  <2>2. QED
    BY <1>3, <2>1 DEF TurnWebServerDown, Control, Threads, NotLaunched, DevicesChosen
<1>4. CASE TerminateAll
  <2>1. Processes' /\ \A s \in Servers : handle'[s] = 0
    BY <1>0, <1>1, <1>4, TerminateKeeps DEF TerminateAll
  <2>2. alive' = {}
    BY <2>1 DEF Processes
  <2>3. QED
    BY <1>0, <1>4, <2>1, <2>2 DEF TerminateAll, Control, Threads, NotLaunched, DevicesChosen
<1>5. CASE Die
  <2>1. Processes'
    BY <1>5, SetupsAssumption DEF Die, Processes
  <2>2. QED
    BY <1>5, <2>1 DEF Die, Control, threadVars, NotLaunched, DevicesChosen
<1>6. QED
  BY <1>2, <1>3, <1>4, <1>5

LEMMA NextInv == LaunchInv /\ [Next]_vars => LaunchInv'
<1>. SUFFICES ASSUME LaunchInv, [Next]_vars PROVE LaunchInv'
  OBVIOUS
<1>1. CASE \/ CreateInputDevice \/ Created \/ Stop \/ Gone
           \/ ThreadInit \/ TestExitRequest \/ Delay \/ CloudRenderServerDown
           \/ \E s \in Servers : NothingToDo(s)
           \/ UNCHANGED vars
  <2>1. UNCHANGED <<setup, processVars>>
    BY <1>1 DEF CreateInputDevice, Created, Stop, Gone, ThreadInit, TestExitRequest, Delay,
                CloudRenderServerDown, NothingToDo, vars, processVars
  <2>2. QED
    BY <1>1, <2>1, ControlSteps
<1>2. QED
  BY <1>1, LaunchSteps, EndSteps DEF Next, Run

-----------------------------------------------------------------------------
\* The invariant of the launching thread, whatever fails.
THEOREM LaunchInvariant == Spec => [](LaunchInv /\ TypeOK)
<1>1. LaunchInv => TypeOK
  BY DEF LaunchInv, Control, Processes, TypeOK, DelaySeconds
<1>2. QED
  BY <1>1, InitInv, NextInv, PTL DEF Spec

\* No handle is overwritten while its process runs, so that every process can
\* still be terminated, and when the thread has ended none is left.
THEOREM NoServerLeft == Spec => []NoOrphans
<1>1. LaunchInv => NoOrphans
  BY DEF LaunchInv, Processes, NoOrphans
<1>2. QED
  BY <1>1, LaunchInvariant, PTL

\* On every machine and with every configuration, the rendering server started
\* last renders and encodes on the adapter of the application, or not at all.
THEOREM SameAdapter == Spec => []RendersOnSameAdapter
<1>1. LaunchInv => RendersOnSameAdapter
  <2>. SUFFICES ASSUME LaunchInv, handle["cloud"] # 0, ~Ambiguous(setup.app)
                PROVE  /\ devices.rhi \in {0, setup.app.ours}
                       /\ devices.cuda \in {0, setup.app.ours}
    BY DEF RendersOnSameAdapter, IsRunning
  <2>1. devices = Devices(setup.app) /\ setup \in Setups
    BY DEF LaunchInv, DevicesChosen, Control
  <2>2. QED
    BY <2>1, OwnAdapter, SetupsAssumption
<1>2. QED
  BY <1>1, LaunchInvariant, PTL
=============================================================================
