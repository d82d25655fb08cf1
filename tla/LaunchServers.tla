---------------------------- MODULE LaunchServers ----------------------------
(***************************************************************************)
(* The thread of the Unreal plugin that starts the servers and watches     *)
(* them: FLaunchServerThreadBase with its two subclasses, and the module   *)
(* that creates it (FOpenZICloudRenderModule::CreateInputDevice).          *)
(*                                                                         *)
(* There are up to three processes: the TURN server, the signalling server *)
(* and the rendering server. One that dies is started again, together with *)
(* those that depend on it.                                                *)
(*                                                                         *)
(* Processes are numbered in the order in which they are created; 0 stands *)
(* for an invalid handle. A process that is terminated ends at once. The   *)
(* thread sleeps for a second at every turn of its loop, which is an       *)
(* interleaving like any other here. If the application itself crashes,    *)
(* nobody terminates its servers; that is not followed.                    *)
(***************************************************************************)
EXTENDS AdapterChoice

CONSTANTS Setups,       \* the configurations and machines to look at
          MaxFailures,  \* bound on processes that die or cannot be created
          MaxProcesses  \* bound on the processes created

\* The adapters of a machine are numbered from 1, the application renders on one
\* of them, and no two have the same LUID, which is never 0.
ASSUME SetupsAssumption ==
    /\ MaxFailures \in Nat /\ MaxProcesses \in Nat
    /\ \A s \in Setups :
          LET adapters == s.app.adapters
          IN  /\ DOMAIN adapters \subseteq Nat \ {0}
              /\ s.app.ours \in DOMAIN adapters
              /\ \A i, j \in DOMAIN adapters : adapters[i].luid = adapters[j].luid => i = j
              /\ \A i \in DOMAIN adapters : adapters[i].luid # 0

DelaySeconds == 3

Servers == {"turn", "signalling", "cloud"}

VARIABLES setup,         \* configuration and machine, never changes
          module,        \* how far the module has come
          receivers,     \* the other threads the module has created
          watch,         \* bWatch...Server
          handle,        \* the process handles
          alive,         \* the processes that run
          created,       \* how many processes were created
          failures,      \* how many died or could not be created
          devices,       \* what the rendering server started last renders with
          ExitRequest,
          bInitialized,
          DelayCounter,
          thread         \* where the launching thread is

threadVars == <<ExitRequest, bInitialized, DelayCounter, thread>>

processVars == <<handle, alive, created, failures, devices>>

vars == <<setup, module, receivers, watch, processVars, threadVars>>

-----------------------------------------------------------------------------
TypeOK ==
    /\ setup \in Setups
    /\ module \in {"loaded", "created", "off", "stopping", "gone"}
    /\ receivers \subseteq {"input", "video", "audio"}
    /\ watch \in [Servers -> BOOLEAN]
    /\ handle \in [Servers -> 0 .. created]
    /\ alive \subseteq 1 .. created
    /\ created \in 0 .. MaxProcesses
    /\ failures \in 0 .. MaxFailures
    /\ ExitRequest \in BOOLEAN /\ bInitialized \in BOOLEAN
    /\ DelayCounter \in 0 .. DelaySeconds + 1

Init ==
    /\ setup \in Setups
    /\ module = "loaded"
    /\ receivers = {}
    /\ watch = [s \in Servers |-> TRUE]
    /\ handle = [s \in Servers |-> 0]
    /\ alive = {}
    /\ created = 0
    /\ failures = 0
    /\ devices = [rhi |-> 0, cuda |-> 0]
    /\ ExitRequest = FALSE
    /\ bInitialized = FALSE
    /\ DelayCounter = 0
    /\ thread = "none"

-----------------------------------------------------------------------------
IsRunning(s) == handle[s] # 0 /\ handle[s] \in alive

\* The handles and the processes after some servers were terminated.
Terminate(servers) ==
    /\ alive' = alive \ { handle[s] : s \in servers }
    /\ handle' = [s \in Servers |-> IF s \in servers THEN 0 ELSE handle[s]]

\* CreateProc for server s, after "servers" were terminated.
CreateProc(s, servers) ==
    \/ /\ created < MaxProcesses
       /\ created' = created + 1
       /\ alive' = (alive \ { handle[t] : t \in servers }) \union {created + 1}
       /\ handle' = [t \in Servers |-> IF t = s THEN created + 1
                                       ELSE IF t \in servers THEN 0 ELSE handle[t]]
       /\ UNCHANGED failures
    \/ /\ failures < MaxFailures
       /\ failures' = failures + 1
       /\ Terminate(servers \union {s})
       /\ UNCHANGED created

\* LaunchTurnWebServer: a server that is not wanted is not watched any more.
LaunchTurnWebServer(servers) ==
    \/ /\ setup.bCloudPublicAccess /\ setup.bLaunchTurnServer
       /\ CreateProc("turn", servers)
       /\ UNCHANGED watch
    \/ /\ ~(setup.bCloudPublicAccess /\ setup.bLaunchTurnServer)
       /\ watch' = [watch EXCEPT !["turn"] = FALSE]
       /\ Terminate(servers)
       /\ UNCHANGED <<created, failures>>

LaunchSignallingWebServer(servers) == CreateProc("signalling", servers)

LaunchCloudRenderServer(servers) ==
    \/ /\ setup.serverExists
       /\ CreateProc("cloud", servers)
       /\ devices' = Devices(setup.app)
    \/ /\ ~setup.serverExists
       /\ Terminate(servers)
       /\ UNCHANGED <<created, failures, devices>>

-----------------------------------------------------------------------------
\* CreateInputDevice, up to the creation of the launching thread. The flag
\* bEnableCloudRender has no initial value: without the key it may be either,
\* and the setup gives the set of values it may have.
CreateInputDevice ==
    /\ module = "loaded"
    /\ \E bEnableCloudRender \in setup.bEnableCloudRender :
         \/ /\ bEnableCloudRender
            /\ setup.bUseOpenZICloudRenderProduct
            /\ setup.CloudMode \in {"UE", "OpenZI", "UEAndUsePixelStreaming",
                                    "OpenZIAndUsePixelStreaming"}
            /\ module' = "created"
            /\ receivers' = IF setup.CloudMode = "OpenZI" THEN {"input", "video"} ELSE {}
            /\ watch' = [watch EXCEPT !["cloud"] =
                           setup.CloudMode \in {"OpenZI", "OpenZIAndUsePixelStreaming"}]
            /\ thread' = "init"
         \/ /\ \/ ~bEnableCloudRender
               \/ ~setup.bUseOpenZICloudRenderProduct
               \/ setup.CloudMode = "none"
            /\ module' = "off"
            /\ UNCHANGED <<receivers, watch, thread>>
    /\ UNCHANGED <<setup, processVars, ExitRequest, bInitialized, DelayCounter>>

\* FLaunchServerThreadBase::Init, for which the creation of the thread waits.
ThreadInit ==
    /\ thread = "init"
    /\ watch' = [watch EXCEPT !["signalling"] = @ /\ setup.bLaunchSignallingWebServer]
    /\ ExitRequest' = (\A s \in Servers : ~watch'[s])
    /\ thread' = "first turn"
    /\ UNCHANGED <<setup, module, receivers, processVars, bInitialized, DelayCounter>>

\* The rest of the constructor of FLaunchCustomServerThread, and of
\* CreateInputDevice: the thread runs already.
Created ==
    /\ module = "created"
    /\ thread \notin {"none", "init"}
    /\ module' = "off"
    /\ watch' = [watch EXCEPT !["cloud"] = @ /\ setup.serverExists]
    /\ receivers' = IF setup.CloudMode = "OpenZI" THEN receivers \union {"audio"} ELSE receivers
    /\ UNCHANGED <<setup, processVars, threadVars>>

\* ~FLaunchServerThreadBase: Kill calls Stop and waits for the thread.
Stop ==
    /\ module = "off"
    /\ module' = "stopping"
    /\ ExitRequest' = (ExitRequest \/ thread # "none")
    /\ UNCHANGED <<setup, receivers, watch, processVars, bInitialized, DelayCounter, thread>>

Gone ==
    /\ module = "stopping"
    /\ thread \in {"none", "ended"}
    /\ module' = "gone"
    /\ receivers' = {}
    /\ UNCHANGED <<setup, watch, processVars, threadVars>>

-----------------------------------------------------------------------------
\* FLaunchServerThreadBase::Run, before the loop
FirstTurnWebServer ==
    /\ thread = "first turn"
    /\ thread' = "first signalling"
    /\ \/ watch["turn"] /\ LaunchTurnWebServer({})
       \/ ~watch["turn"] /\ UNCHANGED <<watch, handle, alive, created, failures>>
    /\ UNCHANGED <<setup, module, receivers, devices, ExitRequest, bInitialized, DelayCounter>>

FirstSignallingWebServer ==
    /\ thread = "first signalling"
    /\ thread' = "loop"
    /\ \/ watch["signalling"] /\ LaunchSignallingWebServer({})
       \/ ~watch["signalling"] /\ UNCHANGED <<handle, alive, created, failures>>
    /\ UNCHANGED <<setup, module, receivers, watch, devices, ExitRequest, bInitialized,
                   DelayCounter>>

TestExitRequest ==
    /\ thread = "loop"
    /\ thread' = IF ExitRequest THEN "terminating" ELSE "count"
    /\ UNCHANGED <<setup, module, receivers, watch, processVars, ExitRequest, bInitialized,
                   DelayCounter>>

\* Mutant: the counter is not set back.
DelayUncounted ==
    /\ thread = "count"
    /\ IF bInitialized THEN UNCHANGED <<bInitialized, DelayCounter>>
       ELSE /\ DelayCounter' = IF DelayCounter > DelaySeconds THEN DelayCounter
                               ELSE DelayCounter + 1
            /\ bInitialized' = (DelayCounter = DelaySeconds)
    /\ thread' = CASE bInitialized -> "cloud"
                   [] ~bInitialized /\ bInitialized' -> "first cloud"
                   [] ~bInitialized' -> "loop"
    /\ UNCHANGED <<setup, module, receivers, watch, processVars, ExitRequest>>

\* The rendering server is started when the loop comes round for the fourth
\* time after the signalling server was started.
Delay ==
    /\ thread = "count"
    /\ IF bInitialized THEN UNCHANGED <<bInitialized, DelayCounter>>
       ELSE /\ DelayCounter' = IF DelayCounter = DelaySeconds THEN 0 ELSE DelayCounter + 1
            /\ bInitialized' = (DelayCounter = DelaySeconds)
    /\ thread' = CASE bInitialized -> "cloud"
                   [] ~bInitialized /\ bInitialized' -> "first cloud"
                   [] ~bInitialized' -> "loop"
    /\ UNCHANGED <<setup, module, receivers, watch, processVars, ExitRequest>>

FirstCloudRenderServer ==
    /\ thread = "first cloud"
    /\ thread' = "cloud"
    /\ \/ watch["cloud"] /\ LaunchCloudRenderServer({})
       \/ ~watch["cloud"] /\ UNCHANGED processVars
    /\ UNCHANGED <<setup, module, receivers, watch, ExitRequest, bInitialized, DelayCounter>>

\* What the thread looks at in turn, and where it goes on.
After(s) == CASE s = "cloud" -> "signalling" [] s = "signalling" -> "turn" [] s = "turn" -> "loop"

NothingToDo(s) ==
    /\ thread = s
    /\ ~watch[s] \/ IsRunning(s)
    /\ thread' = After(s)
    /\ UNCHANGED <<setup, module, receivers, watch, processVars, ExitRequest, bInitialized,
                   DelayCounter>>

CloudRenderServerDown ==
    /\ thread = "cloud"
    /\ watch["cloud"] /\ ~IsRunning("cloud")
    /\ thread' = "reboot cloud"
    /\ UNCHANGED <<setup, module, receivers, watch, processVars, ExitRequest, bInitialized,
                   DelayCounter>>

TryRebootCloudRenderServer ==
    /\ thread = "reboot cloud"
    /\ LaunchCloudRenderServer({"cloud"})
    /\ thread' = "signalling"
    /\ UNCHANGED <<setup, module, receivers, watch, ExitRequest, bInitialized, DelayCounter>>

\* Mutant: the rendering server goes on without its signalling server.
SignallingWebServerDownOnly ==
    /\ thread = "signalling"
    /\ watch["signalling"] /\ ~IsRunning("signalling")
    /\ bInitialized' = FALSE
    /\ thread' = "reboot signalling"
    /\ UNCHANGED <<setup, module, receivers, watch, processVars, ExitRequest, DelayCounter>>

SignallingWebServerDown ==
    /\ thread = "signalling"
    /\ watch["signalling"] /\ ~IsRunning("signalling")
    /\ Terminate({"cloud"})
    /\ bInitialized' = FALSE
    /\ thread' = "reboot signalling"
    /\ UNCHANGED <<setup, module, receivers, watch, created, failures, devices, ExitRequest,
                   DelayCounter>>

TryRebootSignallingWebServer ==
    /\ thread = "reboot signalling"
    /\ LaunchSignallingWebServer({"signalling"})
    /\ thread' = "turn"
    /\ UNCHANGED <<setup, module, receivers, watch, devices, ExitRequest, bInitialized,
                   DelayCounter>>

TurnWebServerDown ==
    /\ thread = "turn"
    /\ watch["turn"] /\ ~IsRunning("turn")
    /\ Terminate({"signalling"})
    /\ thread' = "reboot turn"
    /\ UNCHANGED <<setup, module, receivers, watch, created, failures, devices, ExitRequest,
                   bInitialized, DelayCounter>>

TryRebootTurnWebServer ==
    /\ thread = "reboot turn"
    /\ LaunchTurnWebServer({"turn"})
    /\ thread' = "loop"
    /\ UNCHANGED <<setup, module, receivers, devices, ExitRequest, bInitialized, DelayCounter>>

\* The end of Run, and Exit.
TerminateAll ==
    /\ thread = "terminating"
    /\ Terminate(Servers)
    /\ thread' = "ended"
    /\ UNCHANGED <<setup, module, receivers, watch, created, failures, devices, ExitRequest,
                   bInitialized, DelayCounter>>

\* A process ends by itself.
Die ==
    /\ failures < MaxFailures
    /\ \E p \in alive : alive' = alive \ {p}
    /\ failures' = failures + 1
    /\ UNCHANGED <<setup, module, receivers, watch, handle, created, devices, threadVars>>

-----------------------------------------------------------------------------
Run ==
    \/ ThreadInit
    \/ FirstTurnWebServer \/ FirstSignallingWebServer
    \/ TestExitRequest \/ Delay \/ FirstCloudRenderServer
    \/ \E s \in Servers : NothingToDo(s)
    \/ CloudRenderServerDown \/ TryRebootCloudRenderServer
    \/ SignallingWebServerDown \/ TryRebootSignallingWebServer
    \/ TurnWebServerDown \/ TryRebootTurnWebServer
    \/ TerminateAll

Next ==
    \/ CreateInputDevice \/ Created \/ Stop \/ Gone
    \/ Run
    \/ Die

Spec == Init /\ [][Next]_vars

\* The threads of the application run. Nothing makes a process die or the
\* application end.
Fairness == WF_vars(CreateInputDevice) /\ WF_vars(Created) /\ WF_vars(Gone) /\ WF_vars(Run)

FairSpec == Spec /\ Fairness

-----------------------------------------------------------------------------
\* Every process that runs can still be terminated, and none is left when the
\* thread has ended: no handle is overwritten while its process runs.
NoOrphans ==
    /\ alive \subseteq { handle[s] : s \in Servers }
    /\ thread = "ended" => alive = {}

\* The rendering server renders and encodes on the adapter of the application,
\* or not at all. With Vulkan this takes cards of different makes.
RendersOnSameAdapter ==
    IsRunning("cloud") /\ ~Ambiguous(setup.app) =>
        /\ devices.rhi \in {0, setup.app.ours}
        /\ devices.cuda \in {0, setup.app.ours}

Wanted(s) ==
    CASE s = "turn" -> setup.bCloudPublicAccess /\ setup.bLaunchTurnServer
      [] s = "signalling" -> setup.bLaunchSignallingWebServer
      [] s = "cloud" -> /\ setup.CloudMode \in {"OpenZI", "OpenZIAndUsePixelStreaming"}
                        /\ setup.serverExists

\* Once nothing fails any more, all the servers that were asked for come up and
\* stay up, until the application ends.
AllComeUp ==
    <>[](thread # "none" /\ module = "off" => \A s \in Servers : Wanted(s) => IsRunning(s))
=============================================================================
