------------------------------ MODULE Doorbell ------------------------------
(***************************************************************************)
(* examples/doorbell/main.c, the part that follows the network: start-up   *)
(* of application_main, the delegate that copies every SimpleLink event    *)
(* and passes it to the iotkit task with iotk_spawn, and the handlers that *)
(* keep the application's flags.                                           *)
(*                                                                         *)
(* Three threads meet here: the driver thread of SimpleLink runs the       *)
(* delegate; the application thread starts up and then runs iotk_run,      *)
(* which executes spawned calls and delivers server events; the NWP acts   *)
(* on its own.  The iotkit core is external: a bounded queue of calls that *)
(* exists from iotk_init on, and a server link that goes up some time      *)
(* after iotk_start.                                                       *)
(***************************************************************************)
EXTENDS SimpleLink

CONSTANTS
    SpawnCap,       \* calls iotk_spawn can hold
    MaxServer,      \* bound: server events
    MallocMayFail

ASSUME AppAssumption ==
    /\ SpawnCap \in Nat \ {0}
    /\ MaxServer \in Nat
    /\ MallocMayFail \in BOOLEAN

VARIABLES
    app,        \* where application_main is
    flags,      \* APP_CONTEXT.flags
    spawnq,     \* ids of the events waiting in spawned calls, oldest first
    heap,       \* SL_EVENT_MSG copies allocated and not freed
    leaked,     \* of those, the ones no call will ever free
    server,     \* server link: "off", "starting", "up", "login"
    served,     \* server events so far
    startsDue,  \* history: Wi-Fi connections, and server disconnects that cleared
                \* FLAG_IP_ACQUIRED, less the calls of iotk_start
    adrift      \* history: why flags may differ from the Wi-Fi record

appState == <<flags, startsDue>>
coreState == <<server, served>>
queueState == <<spawnq, heap, leaked>>
vars == <<slVars, app, appState, queueState, coreState, adrift>>

Init ==
    /\ SlInit
    /\ app = "start1"               \* lines 500-502 are the initial state
    /\ flags = {}
    /\ spawnq = << >> /\ heap = 0 /\ leaked = 0
    /\ server = "off" /\ served = 0
    /\ startsDue = 0
    /\ adrift = {}

Ready == app \in {"create", "loop"}  \* iotk_init is done: the spawn queue exists
-----------------------------------------------------------------------------
(* application_main.                                                       *)

At(l, next) == app = l /\ app' = next

StartUp ==
    /\ \/ At("start1", "started1") /\ StartBegin
       \/ At("started1", "reset") /\ StartEnd
       \/ At("reset", "profiles") /\ ResetToSta
       \/ At("stop", "delegate") /\ Stop
       \/ At("delegate", "start2") /\ SetDelegate
       \/ At("start2", "started2") /\ StartBegin
       \/ At("started2", "init") /\ StartEnd
       \/ At("init", "create") /\ UNCHANGED slVars
       \/ At("create", "loop") /\ UNCHANGED slVars
    \* a record left standing by sl_stop is one the flags never heard of
    /\ adrift' = IF app = "stop" /\ connected THEN {"missed"}
                 ELSE IF app = "stop" THEN {} ELSE adrift
    /\ UNCHANGED <<appState, queueState, coreState>>

Profiles ==                 \* sl_wlan_profile_remove asserts, then sl_wlan_profile_add
    /\ app = "profiles"
    /\ app' = IF role # STOP THEN "stop" ELSE "halted"
    /\ UNCHANGED <<slVars, appState, queueState, coreState, adrift>>
-----------------------------------------------------------------------------
(* _sl_event_callback, on the driver thread.                               *)

Lost == adrift' = adrift \cup {"missed"}

NoDelegate ==
    /\ ~delegate
    /\ Lost
    /\ UNCHANGED queueState

NoMemory ==
    /\ delegate
    /\ MallocMayFail
    /\ Lost
    /\ UNCHANGED queueState

Spawned ==
    /\ delegate
    /\ Ready /\ Len(spawnq) < SpawnCap
    /\ spawnq' = Append(spawnq, ev.id)
    /\ heap' = heap + 1
    /\ adrift' = IF ev.id \in Down THEN adrift \ {"missed"} ELSE adrift
    /\ UNCHANGED leaked

NotSpawned ==               \* iotk_spawn fails; its result is not looked at
    /\ delegate
    /\ ~Ready \/ Len(spawnq) = SpawnCap
    /\ heap' = heap + 1
    /\ leaked' = leaked + 1
    /\ Lost
    /\ UNCHANGED spawnq

EventCallback ==
    /\ Fire
    /\ NoDelegate \/ NoMemory \/ Spawned \/ NotSpawned
    /\ UNCHANGED <<app, appState, coreState>>
-----------------------------------------------------------------------------
(* _app_on_sl_event, in the iotkit task.                                   *)

RunSpawnedNoFree ==         \* wrong: the copy is not freed
    /\ app = "loop"
    /\ spawnq # << >>
    /\ spawnq' = Tail(spawnq)
    /\ UNCHANGED <<slVars, app, heap, leaked>>

RunSpawned ==
    /\ app = "loop"
    /\ spawnq # << >>
    /\ spawnq' = Tail(spawnq)
    /\ heap' = heap - 1
    /\ UNCHANGED <<slVars, app, leaked>>

OnConnected ==
    /\ RunSpawned
    /\ Head(spawnq) = "CONNECT"
    /\ flags' = flags \cup {"STA_CONNECTED"}
    /\ UNCHANGED <<startsDue, coreState, adrift>>

OnDisconnectedKeepsIp ==    \* wrong
    /\ RunSpawned
    /\ Head(spawnq) \in Down
    /\ flags' = flags \ {"STA_CONNECTED"}
    /\ adrift' = adrift \ {"wiped"}
    /\ UNCHANGED <<startsDue, coreState>>

OnDisconnected ==
    /\ RunSpawned
    /\ Head(spawnq) \in Down
    /\ flags' = flags \ {"STA_CONNECTED", "IP_ACQUIRED"}
    /\ adrift' = adrift \ {"wiped"}
    /\ UNCHANGED <<startsDue, coreState>>

OnIpAcquiredAlways ==       \* wrong: the flag is not tested
    /\ RunSpawned
    /\ Head(spawnq) = "IP_ACQUIRED"
    /\ flags' = flags \cup {"IP_ACQUIRED"}
    /\ startsDue' = startsDue - 1
    /\ server' = IF server = "off" THEN "starting" ELSE server
    /\ UNCHANGED <<served, adrift>>

OnIpAcquiredInverted ==     \* wrong: the test is the wrong way round
    /\ RunSpawned
    /\ Head(spawnq) = "IP_ACQUIRED"
    /\ IF "IP_ACQUIRED" \in flags
         THEN /\ startsDue' = startsDue - 1
              /\ server' = IF server = "off" THEN "starting" ELSE server
         ELSE UNCHANGED <<startsDue, server>>
    /\ UNCHANGED <<flags, served, adrift>>

OnIpAcquired ==
    /\ RunSpawned
    /\ Head(spawnq) = "IP_ACQUIRED"
    /\ IF "IP_ACQUIRED" \notin flags
         THEN /\ flags' = flags \cup {"IP_ACQUIRED"}
              /\ startsDue' = startsDue - 1
              /\ server' = IF server = "off" THEN "starting" ELSE server
         ELSE UNCHANGED <<flags, startsDue, server>>
    /\ UNCHANGED <<served, adrift>>

OnIgnored ==
    /\ RunSpawned
    /\ Head(spawnq) \notin Down \cup {"CONNECT", "IP_ACQUIRED"}
    /\ UNCHANGED <<appState, coreState, adrift>>

OnSlEvent == OnConnected \/ OnDisconnected \/ OnIpAcquired \/ OnIgnored
-----------------------------------------------------------------------------
(* _app_on_iotk_event, in the iotkit task.                                 *)

ServerEvent(from, to) ==
    /\ app = "loop"
    /\ served < MaxServer
    /\ served' = served + 1
    /\ server = from
    /\ server' = to
    /\ UNCHANGED <<slVars, app, queueState>>

OnIotkConnected ==          \* and sends the login request
    /\ ServerEvent("starting", "up")
    /\ flags' = flags \cup {"IOTK_CONNECTED"}
    /\ UNCHANGED <<startsDue, adrift>>

OnLoginAck ==
    /\ \/ ServerEvent("up", "login") /\ flags' = flags \cup {"IOTK_LOGGED_ON"}
       \/ ServerEvent("up", "up") /\ UNCHANGED flags        \* err_code # 0
    /\ UNCHANGED <<startsDue, adrift>>

OnIotkDisconnected ==       \* clears the Wi-Fi flags too
    /\ \E from \in {"up", "login"} : ServerEvent(from, "starting")
    /\ flags' = {}
    /\ startsDue' = startsDue + (IF "IP_ACQUIRED" \in flags THEN 1 ELSE 0)
    /\ adrift' = IF flags \cap {"STA_CONNECTED", "IP_ACQUIRED"} # {}
                   THEN adrift \cup {"wiped"} ELSE adrift

OnIotkEvent == OnIotkConnected \/ OnLoginAck \/ OnIotkDisconnected
-----------------------------------------------------------------------------
Background ==
    /\ Nwp \/ Driver
    /\ startsDue' = startsDue + (IF assoc' /\ ~assoc THEN 1 ELSE 0)
    /\ UNCHANGED <<app, flags, queueState, coreState, adrift>>

Next ==
    \/ StartUp \/ Profiles
    \/ EventCallback
    \/ OnSlEvent
    \/ OnIotkEvent
    \/ Background

(* The application thread and the driver thread keep running; the NWP and  *)
(* the server owe nothing.                                                 *)
Fairness ==
    /\ WF_vars(StartUp) /\ WF_vars(Profiles)
    /\ WF_vars(EventCallback)
    /\ WF_vars(OnSlEvent)
    /\ WF_vars(Driver /\ UNCHANGED <<app, appState, queueState, coreState, adrift>>)

Spec == Init /\ [][Next]_vars /\ Fairness
-----------------------------------------------------------------------------
(* Properties.                                                             *)

Kinds == {"CONNECT", "IP_ACQUIRED", "CONNECT_FAILED", "AP_CLIENT", "OTHER"} \cup Down

(* Types of the application's and of the driver's variables.               *)
TypeOK ==
    /\ role \in Roles /\ connected \in BOOLEAN /\ ip \in BOOLEAN /\ delegate \in BOOLEAN
    /\ ssid \in [net : Nets \cup {"none"}, end : 0 .. 32]
    /\ nwp \in {OFF, STA, AP}
    /\ \A i \in 1 .. Len(inbox) : inbox[i].id \in Kinds
    /\ drv \in {"idle", "fire", "clear", "clear_ip"}
    /\ flags \subseteq {"STA_CONNECTED", "IP_ACQUIRED", "IOTK_CONNECTED", "IOTK_LOGGED_ON"}
    /\ \A i \in 1 .. Len(spawnq) : spawnq[i] \in Kinds
    /\ startsDue \in Int
    /\ adrift \subseteq {"missed", "wiped"}

Settled == app = "loop" /\ spawnq = << >> /\ drv = "idle"

(* When nothing is on its way from the driver to the application, the      *)
(* flags say what the Wi-Fi record says: the queue kept order and no       *)
(* handler forgot a flag.  The exceptions are exactly an event lost since  *)
(* the last delivered disconnect (no delegate yet, no memory, the spawn    *)
(* queue full or not created) and a server disconnect, which wipes the     *)
(* Wi-Fi flags while the Wi-Fi is up; a disconnect repairs both.           *)
FlagsFollowWifi ==
    Settled /\ adrift = {} =>
        /\ "STA_CONNECTED" \in flags <=> connected
        /\ "IP_ACQUIRED" \in flags <=> ip

(* iotk_start is called at most once for each connection of the Wi-Fi,     *)
(* however often its lease is renewed and whatever events are late or      *)
(* lost; only a server disconnect, which clears FLAG_IP_ACQUIRED under a   *)
(* lease that stands, makes a renewal start the core once more.            *)
StartsPerConnection == startsDue >= 0

(* Every copy of an event belongs to exactly one waiting call or is        *)
(* leaked; one is leaked only where iotk_spawn failed.                     *)
HeapAccounting == heap = Len(spawnq) + leaked

(* The role sl.c believes in, which start, stop and every event handler    *)
(* write, is the one the NWP runs in, whenever the application looks; it   *)
(* is an error code or SL_ROLE_STOP when the NWP does not run.             *)
RoleIsTrue ==
    app \notin {"started1", "started2"} =>
        IF nwp = OFF THEN role \in StartErrors ELSE role = nwp

(* An address without a connection is never recorded, at no point between  *)
(* the steps of the two threads, but for the one in the disconnect handler *)
(* between the store of the connection and that of the address.            *)
IpNeedsConnection == ip => connected \/ drv = "clear_ip"

(* A device that holds a lease starts the iotkit core, unless the Wi-Fi    *)
(* goes down again, an event was lost, or it never started up.  Once       *)
(* started the core never is off again, so this is about its first start.  *)
LeaseStartsIotk ==
    leased /\ app # "halted" ~> ~leased \/ server # "off" \/ "missed" \in adrift
-----------------------------------------------------------------------------
(* What comments say and the code does not do.                             *)

(* sl.c:356, "make sure simplelink was started", on the assertion before   *)
(* profiles are deleted.                                                   *)
ProfilesNeedStart == [][app = "profiles" /\ app' = "stop" => nwp # OFF]_vars

(* sl.c:970, "Copy new connection SSID and BSSID to global parameters":    *)
(* the name sl_wlan_get_ssid returns once the handler is done is that of   *)
(* the new connection.                                                     *)
SsidIsNew ==
    drv = "fire" /\ ev.id = "CONNECT" => ssid = [net |-> ev.net, end |-> SsidLen[ev.net]]
=============================================================================
