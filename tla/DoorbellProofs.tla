--------------------------- MODULE DoorbellProofs ---------------------------
(***************************************************************************)
(* Theorems about Doorbell, for any networks, queue size and bounds: its   *)
(* invariants; where the news of a lease is (LeaseInv), on which the       *)
(* liveness of the start of the core rests; and what two statements of     *)
(* sl.c that fail in general need in order to be true.                     *)
(***************************************************************************)
EXTENDS Doorbell, FiniteSetTheorems, TLAPS

(* Types of the record, of the queues and of the flags.                    *)

(* What the NWP raises: an event's id, and for a connection its network.   *)
Raised == [id : Kinds \ {"CONNECT"}] \cup [id : {"CONNECT"}, net : Nets]

(* TypeOK, with the types of what is queued: the driver thread's event is  *)
(* one the NWP raised whenever it is handling one.                         *)
TypeInv ==
    /\ TypeOK
    /\ nextMode \in {STA, AP}
    /\ inbox \in Seq(Raised)
    /\ drv # "idle" => ev \in Raised
    /\ spawnq \in Seq(Kinds)

(* The events by kind are events.                                          *)
LEMMA EventTypes ==
    /\ \A n \in Nets : Connect(n) \in Raised
    /\ \A id \in Kinds \ {"CONNECT"} : Event(id) \in Raised
  BY DEF Connect, Event, Raised

(* A raised event is at the end of the inbox.                              *)
LEMMA Appended ==
    ASSUME TypeInv, NEW e \in Raised, inbox' = Append(inbox, e)
    PROVE  /\ inbox' \in Seq(Raised)
           /\ Len(inbox) \in Nat /\ Len(inbox') = Len(inbox) + 1
           /\ \A i \in 1 .. Len(inbox) : inbox'[i] = inbox[i]
           /\ inbox'[Len(inbox) + 1] = e
  BY DEF TypeInv

(* What each action of the NWP raises, and what it leaves alone.           *)
LEMMA NwpRaises ==
    ASSUME TypeInv, Nwp
    PROVE  /\ UNCHANGED <<nwp, nextMode, role, connected, ip, ssid, delegate, drv, ev>>
           /\ \E e \in Raised :
                /\ inbox' = Append(inbox, e)
                /\ \/ nwp = STA /\ e.id = "CONNECT" /\ assoc' = TRUE
                   \/ assoc /\ e.id = "IP_ACQUIRED" /\ assoc' = assoc
                   \/ assoc /\ e.id \in Down /\ assoc' = FALSE
                   \/ nwp = STA /\ e.id \in {"CONNECT_FAILED", "OTHER"} /\ assoc' = assoc
                   \/ nwp = AP /\ e.id \in {"AP_CLIENT", "OTHER"} /\ assoc' = assoc
  <1>1. UNCHANGED <<nwp, nextMode, role, connected, ip, ssid, delegate, drv, ev>>
    BY DEF Nwp, NwpAssociate, NwpLease, NwpDrop, NwpReport, slState, drvState
  <1>2. CASE NwpAssociate
    <2>1. PICK n \in Nets : inbox' = Append(inbox, Connect(n))
      BY <1>2 DEF NwpAssociate, Raise
    <2>2. Connect(n) \in Raised /\ Connect(n).id = "CONNECT"
      BY EventTypes DEF Connect
    <2> QED
      BY <1>1, <1>2, <2>1, <2>2 DEF NwpAssociate
  <1>3. CASE NwpLease
    <2>1. inbox' = Append(inbox, Event("IP_ACQUIRED")) /\ assoc /\ assoc' = assoc
      BY <1>3 DEF NwpLease, Raise
    <2>2. Event("IP_ACQUIRED") \in Raised /\ Event("IP_ACQUIRED").id = "IP_ACQUIRED"
      BY EventTypes DEF Event, Kinds
    <2> QED
      BY <1>1, <2>1, <2>2
  <1>4. CASE NwpDrop
    <2>1. inbox' = Append(inbox, Event("DISCONNECT")) /\ assoc /\ assoc' = FALSE
      BY <1>4 DEF NwpDrop, Raise
    <2>2. Event("DISCONNECT") \in Raised /\ Event("DISCONNECT").id \in Down
      BY EventTypes DEF Event, Kinds, Down
    <2> QED
      BY <1>1, <2>1, <2>2
  <1>5. CASE NwpReport
    <2>1. PICK id \in IF nwp = AP THEN {"AP_CLIENT", "OTHER"} ELSE {"CONNECT_FAILED", "OTHER"} :
             inbox' = Append(inbox, Event(id)) /\ assoc' = assoc /\ nwp # OFF
      BY <1>5 DEF NwpReport, Raise
    <2>2. Event(id) \in Raised /\ Event(id).id = id
      BY EventTypes DEF Event, Kinds
    <2>3. nwp \in {STA, AP}
      BY <2>1 DEF TypeInv, TypeOK
    <2> QED
      BY <1>1, <2>1, <2>2, <2>3
  <1> QED
    BY <1>1, <1>2, <1>3, <1>4, <1>5 DEF Nwp

(* A handler takes the oldest event and shifts the others.                 *)
LEMMA TakeShifts ==
    ASSUME TypeInv, NEW ids, Take(ids)
    PROVE  /\ drv = "idle" /\ drv' = "fire"
           /\ Len(inbox) \in Nat /\ Len(inbox) >= 1
           /\ ev' = inbox[1] /\ inbox[1] \in Raised /\ ev'.id \in ids
           /\ inbox' \in Seq(Raised) /\ Len(inbox') = Len(inbox) - 1
           /\ \A i \in 1 .. Len(inbox') : inbox'[i] = inbox[i + 1]
           /\ UNCHANGED <<delegate, nwp, nextMode, assoc>>
  BY DEF Take, TypeInv

(* A name of the Wi-Fi fits its buffer, whatever it is copied over.        *)
LEMMA SsidFits ==
    ASSUME TypeInv, NEW n \in Nets
    PROVE  CopySsid(n) \in [net : Nets \cup {"none"}, end : 0 .. 32]
  <1>1. SsidLen[n] \in 1 .. 32 /\ ssid.end \in 0 .. 32
    BY NetAssumption DEF TypeInv, TypeOK
  <1> QED
    BY <1>1 DEF CopySsid

(* Ids of what is queued.                                                  *)
LEMMA RaisedIds ==
    \A e \in Raised : e.id \in Kinds /\ (e.id = "CONNECT" => e.net \in Nets)
  BY DEF Raised, Kinds

(* Initially nothing is queued and nothing runs.                           *)
LEMMA TypeInit == Init => TypeInv
  <1> SUFFICES ASSUME Init PROVE TypeInv
    OBVIOUS
  <1>1. /\ inbox = << >> /\ spawnq = << >> /\ drv = "idle" /\ flags = {} /\ adrift = {}
        /\ startsDue = 0 /\ role = STOP /\ connected = FALSE /\ ip = FALSE /\ delegate = FALSE
        /\ ssid = [net |-> "none", end |-> 0] /\ nwp = OFF /\ nextMode \in {STA, AP}
    BY DEF Init, SlInit
  <1>2. inbox \in Seq(Raised) /\ spawnq \in Seq(Kinds) /\ Len(inbox) = 0 /\ Len(spawnq) = 0
    BY <1>1
  <1>3. ssid \in [net : Nets \cup {"none"}, end : 0 .. 32]
    BY <1>1
  <1>4. /\ \A i \in 1 .. Len(inbox) : inbox[i].id \in Kinds
        /\ \A i \in 1 .. Len(spawnq) : spawnq[i] \in Kinds
    BY <1>2
  <1>5. role \in Roles
    BY <1>1 DEF Roles, StartErrors, STOP
  <1>6. connected \in BOOLEAN /\ ip \in BOOLEAN /\ delegate \in BOOLEAN
    BY <1>1, Zenon
  <1>7. nwp \in {OFF, STA, AP} /\ startsDue \in Int
    BY <1>1
  <1>8. TypeOK
    BY <1>1, <1>3, <1>4, <1>5, <1>6, <1>7, Zenon DEF TypeOK
  <1> QED
    BY <1>1, <1>2, <1>8 DEF TypeInv

(* The handlers write what the record can hold.                            *)
LEMMA DriverTypes ==
    ASSUME TypeInv, Driver, UNCHANGED <<flags, spawnq, adrift>>, startsDue' \in Int
    PROVE  TypeInv'
  <1>1. ASSUME NEW ids, Take(ids), role' \in Roles, connected' \in BOOLEAN, ip' \in BOOLEAN,
               ssid' \in [net : Nets \cup {"none"}, end : 0 .. 32]
        PROVE  TypeInv'
    <2>1. /\ drv' = "fire" /\ ev' \in Raised /\ inbox' \in Seq(Raised)
          /\ UNCHANGED <<delegate, nwp, nextMode>>
      BY <1>1, TakeShifts
    <2>2. \A i \in 1 .. Len(inbox') : inbox'[i].id \in Kinds
      BY <2>1, RaisedIds
    <2> QED
      BY <1>1, <2>1, <2>2 DEF TypeInv, TypeOK
  <1>2. CASE HandleConnect
    <2>1. Take({"CONNECT"}) /\ role' = STA /\ connected' = TRUE /\ ip' = ip /\ ssid' = CopySsid(ev'.net)
      BY <1>2 DEF HandleConnect
    <2>2. ev'.net \in Nets
      BY <2>1, TakeShifts, RaisedIds
    <2>3. role' \in Roles /\ ip' \in BOOLEAN
      BY <2>1 DEF TypeInv, TypeOK, Roles
    <2>4. ssid' \in [net : Nets \cup {"none"}, end : 0 .. 32]
      BY <2>1, <2>2, SsidFits
    <2> QED
      BY <1>1, <2>1, <2>3, <2>4
  <1>3. CASE HandleDown
    BY <1>1, <1>3 DEF HandleDown, TypeInv, TypeOK, Roles
  <1>4. CASE HandleApClient
    BY <1>1, <1>4 DEF HandleApClient, TypeInv, TypeOK, Roles
  <1>5. CASE HandleIpAcquired
    BY <1>1, <1>5 DEF HandleIpAcquired, TypeInv, TypeOK
  <1>6. CASE HandleOther
    BY <1>1, <1>6 DEF HandleOther, TypeInv, TypeOK, slState
  <1>7. CASE ClearConnected
    BY <1>7 DEF ClearConnected, nwpState, TypeInv, TypeOK
  <1>8. CASE ClearIp
    BY <1>8 DEF ClearIp, nwpState, TypeInv, TypeOK
  <1> QED
    BY <1>2, <1>3, <1>4, <1>5, <1>6, <1>7, <1>8 DEF Driver

(* Nor does the NWP raise anything of another type.                        *)
LEMMA NwpTypes ==
    ASSUME TypeInv, Nwp, UNCHANGED <<flags, spawnq, adrift>>, startsDue' \in Int
    PROVE  TypeInv'
  <1>1. PICK e \in Raised : inbox' = Append(inbox, e)
    BY NwpRaises
  <1>2. inbox' \in Seq(Raised)
    BY <1>1, Appended
  <1>3. \A i \in 1 .. Len(inbox') : inbox'[i].id \in Kinds
    BY <1>2, RaisedIds
  <1>4. UNCHANGED <<nwp, nextMode, role, connected, ip, ssid, delegate, drv, ev>>
    BY NwpRaises
  <1> QED
    BY <1>2, <1>3, <1>4 DEF TypeInv, TypeOK

(* The calls of start-up write roles the NWP can report.                   *)
LEMMA StartUpTypes ==
    ASSUME TypeInv, StartUp
    PROVE  TypeInv'
  <1>1. UNCHANGED <<spawnq, flags, startsDue>> /\ adrift' \subseteq {"missed", "wiped"}
    BY DEF StartUp, appState, queueState, TypeInv, TypeOK
  <1>2. CASE StartBegin
    BY <1>1, <1>2 DEF StartBegin, drvState, TypeInv, TypeOK
  <1>3. CASE StartEnd
    BY <1>1, <1>3 DEF StartEnd, nwpState, drvState, TypeInv, TypeOK, Roles
  <1>4. CASE ResetToSta
    <2>1. Event("USER_DISCONNECT") \in Raised
      BY EventTypes DEF Kinds, Down
    <2>2. inbox' \in Seq(Raised)
      BY <1>4, <2>1 DEF ResetToSta, TypeInv
    <2>3. \A i \in 1 .. Len(inbox') : inbox'[i].id \in Kinds
      BY <2>2, RaisedIds
    <2> QED
      BY <1>1, <1>4, <2>2, <2>3 DEF ResetToSta, slState, drvState, TypeInv, TypeOK
  <1>5. CASE Stop
    <2>1. CASE UNCHANGED slVars
      BY <1>1, <2>1 DEF slVars, slState, nwpState, drvState, TypeInv, TypeOK
    <2>2. CASE role # STOP
      <3>1. inbox' = << >>
        BY <1>5, <2>2 DEF Stop, slVars, slState, STOP
      <3>2. inbox' \in Seq(Raised) /\ Len(inbox') = 0
        BY <3>1
      <3> QED
        BY <1>1, <1>5, <2>2, <3>2 DEF Stop, drvState, TypeInv, TypeOK, Roles, StartErrors, STOP
    <2> QED
      BY <1>5, <2>1, <2>2 DEF Stop
  <1>6. CASE SetDelegate
    BY <1>1, <1>6 DEF SetDelegate, slState, nwpState, drvState, TypeInv, TypeOK
  <1>7. CASE UNCHANGED slVars
    BY <1>1, <1>7 DEF slVars, slState, nwpState, drvState, TypeInv, TypeOK
  <1> QED
    BY <1>2, <1>3, <1>4, <1>5, <1>6, <1>7 DEF StartUp

(* The delegate queues the id of the event in hand, or nothing.            *)
LEMMA CallbackTypes ==
    ASSUME TypeInv, EventCallback
    PROVE  TypeInv'
  <1>1. /\ UNCHANGED <<role, connected, ip, ssid, delegate, nwp, nextMode, inbox, ev, flags, startsDue>>
        /\ drv = "fire" /\ drv' \in {"idle", "clear"} /\ adrift' \subseteq adrift \cup {"missed"}
    BY DEF EventCallback, Fire, slState, nwpState, appState, Lost, NoDelegate, NoMemory, Spawned, NotSpawned
  <1>2. spawnq' = spawnq \/ spawnq' = Append(spawnq, ev.id)
    BY DEF EventCallback, queueState, NoDelegate, NoMemory, Spawned, NotSpawned
  <1>3. ev \in Raised /\ ev.id \in Kinds
    BY <1>1, RaisedIds DEF TypeInv
  <1>4. spawnq' \in Seq(Kinds)
    BY <1>2, <1>3 DEF TypeInv
  <1> QED
    BY <1>1, <1>3, <1>4 DEF TypeInv, TypeOK

(* The iotkit task takes calls from the queue and sets known flags.        *)
LEMMA TaskTypes ==
    ASSUME TypeInv, OnSlEvent \/ OnIotkEvent
    PROVE  TypeInv'
  <1>1. /\ UNCHANGED slVars
        /\ adrift' \subseteq adrift \cup {"wiped"}
        /\ flags' \subseteq flags \cup {"STA_CONNECTED", "IP_ACQUIRED", "IOTK_CONNECTED", "IOTK_LOGGED_ON"}
    BY DEF OnSlEvent, OnIotkEvent, OnConnected, OnDisconnected, OnIpAcquired, OnIgnored, OnIotkConnected,
           OnLoginAck, OnIotkDisconnected, RunSpawned, ServerEvent, appState
  <1>2. spawnq' = spawnq \/ (spawnq # << >> /\ spawnq' = Tail(spawnq))
    BY DEF OnSlEvent, OnIotkEvent, OnConnected, OnDisconnected, OnIpAcquired, OnIgnored, OnIotkConnected,
           OnLoginAck, OnIotkDisconnected, RunSpawned, ServerEvent, queueState
  <1>3. spawnq' \in Seq(Kinds) /\ \A i \in 1 .. Len(spawnq') : spawnq'[i] \in Kinds
    BY <1>2 DEF TypeInv
  <1>4. startsDue' \in {startsDue - 1, startsDue, startsDue + 1, startsDue + 0}
    BY DEF OnSlEvent, OnIotkEvent, OnConnected, OnDisconnected, OnIpAcquired, OnIgnored, OnIotkConnected,
           OnLoginAck, OnIotkDisconnected, appState
  <1>5. startsDue' \in Int
    BY <1>4 DEF TypeInv, TypeOK
  <1> QED
    BY <1>1, <1>3, <1>5 DEF slVars, slState, nwpState, drvState, TypeInv, TypeOK

(* Every step keeps the types.                                             *)
LEMMA TypeStep == TypeInv /\ [Next]_vars => TypeInv'
  <1> SUFFICES ASSUME TypeInv, [Next]_vars PROVE TypeInv'
    OBVIOUS
  <1>1. CASE Background
    <2>1. startsDue' \in Int
      BY <1>1 DEF Background, TypeInv, TypeOK
    <2> QED
      BY <1>1, <2>1, DriverTypes, NwpTypes DEF Background, queueState
  <1>2. CASE Profiles \/ UNCHANGED vars
    BY <1>2 DEF Profiles, vars, slVars, slState, nwpState, drvState, appState, queueState, TypeInv, TypeOK
  <1> QED
    BY <1>1, <1>2, StartUpTypes, CallbackTypes, TaskTypes DEF Next

(* The types hold for any networks, names and bounds; in particular a name *)
(* never outgrows the buffer the strings are copied into.                  *)
THEOREM TypesKept == Spec => []TypeOK
  <1>1. TypeInv => TypeOK
    BY DEF TypeInv
  <1> QED
    BY <1>1, TypeInit, TypeStep, PTL DEF Spec
-----------------------------------------------------------------------------
(* Accounting of event copies.                                             *)

(* The counts are integers and agree; nothing bounds them from above.      *)
HeapInv ==
    /\ heap \in Int /\ leaked \in Int
    /\ HeapAccounting

(* It holds initially: nothing is allocated, nothing is queued.            *)
LEMMA HeapInit == Init => HeapInv
  BY DEF Init, HeapInv, HeapAccounting

(* An executed call leaves the queue and its copy is freed.                *)
LEMMA RunSpawnedHeap ==
    ASSUME TypeInv, HeapInv, RunSpawned
    PROVE  HeapInv'
  <1>1. spawnq # << >> /\ spawnq' = Tail(spawnq) /\ heap' = heap - 1 /\ leaked' = leaked
    BY DEF RunSpawned
  <1>2. Len(spawnq') = Len(spawnq) - 1 /\ Len(spawnq) \in Nat
    BY <1>1 DEF TypeInv
  <1> QED
    BY <1>1, <1>2 DEF HeapInv, HeapAccounting

(* A copy is made for each event passed on; it is queued or leaked.        *)
LEMMA CallbackHeap ==
    ASSUME TypeInv, HeapInv, EventCallback
    PROVE  HeapInv'
  <1>1. Len(spawnq) \in Nat
    BY DEF TypeInv
  <1>2. CASE Spawned
    <2>1. spawnq' = Append(spawnq, ev.id) /\ heap' = heap + 1 /\ leaked' = leaked
      BY <1>2 DEF Spawned
    <2>2. Len(spawnq') = Len(spawnq) + 1
      BY <2>1 DEF TypeInv
    <2> QED
      BY <1>1, <2>1, <2>2 DEF HeapInv, HeapAccounting
  <1>3. CASE NotSpawned
    BY <1>1, <1>3 DEF NotSpawned, HeapInv, HeapAccounting
  <1>4. CASE NoDelegate \/ NoMemory
    BY <1>4 DEF NoDelegate, NoMemory, queueState, HeapInv, HeapAccounting
  <1> QED
    BY <1>2, <1>3, <1>4 DEF EventCallback

(* Every step keeps the accounting.                                        *)
LEMMA HeapStep == TypeInv /\ HeapInv /\ [Next]_vars => HeapInv'
  <1> SUFFICES ASSUME TypeInv, HeapInv, [Next]_vars PROVE HeapInv'
    OBVIOUS
  <1>1. CASE OnSlEvent
    BY <1>1, RunSpawnedHeap DEF OnSlEvent, OnConnected, OnDisconnected, OnIpAcquired, OnIgnored
  <1>2. ASSUME StartUp \/ Profiles \/ OnIotkEvent \/ Background \/ UNCHANGED vars
        PROVE  HeapInv'
    <2>1. UNCHANGED <<spawnq, heap, leaked>>
      BY <1>2 DEF StartUp, Profiles, OnIotkEvent, OnIotkConnected, OnLoginAck, OnIotkDisconnected,
                  ServerEvent, Background, vars, queueState
    <2> QED
      BY <2>1 DEF HeapInv, HeapAccounting
  <1> QED
    BY <1>1, <1>2, CallbackHeap DEF Next

(* No copy of an event is freed twice or forgotten, except that the copies *)
(* iotk_spawn refused are leaked, for every size of the spawn queue.       *)
THEOREM CopiesAccounted == Spec => []HeapAccounting
  <1>1. HeapInv => HeapAccounting
    BY DEF HeapInv
  <1> QED
    BY <1>1, TypeInit, TypeStep, HeapInit, HeapStep, PTL DEF Spec
-----------------------------------------------------------------------------
(* The role of the NWP.                                                    *)

(* The events the NWP raises in a mode; none when it does not run.         *)
RaisedBy(mode) ==
    CASE mode = STA -> Kinds \ {"AP_CLIENT"}
      [] mode = AP  -> {"AP_CLIENT", "OTHER"}
      [] OTHER      -> {}

(* The events waiting are of the mode the NWP runs in, so that no handler  *)
(* writes another role than its mode; before each start it does not run,   *)
(* the driver thread rests and sl.c knows that it is stopped.              *)
RoleInv ==
    /\ assoc => nwp = STA
    /\ \A i \in 1 .. Len(inbox) : inbox[i].id \in RaisedBy(nwp)
    /\ app \in {"start1", "delegate", "start2"} => nwp = OFF /\ role = STOP /\ drv = "idle"
    /\ app = "stop" => role # STOP
    /\ RoleIsTrue

(* It holds initially: the NWP does not run.                               *)
LEMMA RoleInit == Init => RoleInv
  BY DEF Init, SlInit, RoleInv, RoleIsTrue, STOP, OFF, STA, AP, StartErrors

(* A handler writes the role of the mode its event was raised in.          *)
LEMMA DriverRole ==
    ASSUME TypeInv, RoleInv, Driver, app' = app
    PROVE  RoleInv'
  <1>1. ASSUME NEW ids, Take(ids),
               \/ role' = role
               \/ role' = STA /\ ids \in SUBSET (Down \cup {"CONNECT", "CONNECT_FAILED"})
               \/ role' = AP /\ ids = {"AP_CLIENT"}
        PROVE  RoleInv'
    <2>1. /\ inbox[1].id \in ids /\ Len(inbox) \in Nat /\ Len(inbox) >= 1
          /\ Len(inbox') = Len(inbox) - 1
          /\ \A i \in 1 .. Len(inbox') : inbox'[i] = inbox[i + 1]
          /\ nwp' = nwp /\ assoc' = assoc
      BY <1>1, TakeShifts
    <2>2. inbox[1].id \in RaisedBy(nwp) /\ nwp \in {OFF, STA, AP}
      BY <2>1 DEF RoleInv, TypeInv, TypeOK
    <2>3. nwp # OFF
      BY <2>2 DEF RaisedBy, OFF, STA, AP
    <2>4. app \notin {"start1", "delegate", "start2"}
      BY <2>3 DEF RoleInv
    <2>5. role' = role \/ role' = nwp
      BY <1>1, <2>1, <2>2, <2>3 DEF RaisedBy, Down, Kinds, OFF, STA, AP
    <2>6. \A i \in 1 .. Len(inbox') : inbox'[i].id \in RaisedBy(nwp')
      BY <2>1 DEF RoleInv
    <2>7. app = "stop" => role' # STOP
      BY <2>2, <2>3, <2>5 DEF RoleInv, STOP, STA, AP
    <2>8. RoleIsTrue'
      BY <2>1, <2>3, <2>5 DEF RoleInv, RoleIsTrue
    <2> QED
      BY <2>1, <2>4, <2>6, <2>7, <2>8 DEF RoleInv
  <1>2. CASE ClearConnected \/ ClearIp
    <2>1. UNCHANGED <<role, nwp, assoc, inbox>> /\ drv # "idle"
      BY <1>2 DEF ClearConnected, ClearIp, nwpState
    <2> QED
      BY <2>1 DEF RoleInv, RoleIsTrue
  <1>3. CASE HandleOther
    BY <1>1, <1>3 DEF HandleOther, slState
  <1> QED
    BY <1>1, <1>2, <1>3 DEF Driver, HandleConnect, HandleDown, HandleApClient, HandleIpAcquired

(* The NWP raises the events of its mode.                                  *)
LEMMA NwpRole ==
    ASSUME TypeInv, RoleInv, Nwp, app' = app
    PROVE  RoleInv'
  <1>1. UNCHANGED <<nwp, role, drv>>
    BY NwpRaises
  <1>2. PICK e \in Raised :
          /\ inbox' = Append(inbox, e)
          /\ \/ nwp = STA /\ e.id = "CONNECT" /\ assoc' = TRUE
             \/ assoc /\ e.id = "IP_ACQUIRED" /\ assoc' = assoc
             \/ assoc /\ e.id \in Down /\ assoc' = FALSE
             \/ nwp = STA /\ e.id \in {"CONNECT_FAILED", "OTHER"} /\ assoc' = assoc
             \/ nwp = AP /\ e.id \in {"AP_CLIENT", "OTHER"} /\ assoc' = assoc
    BY NwpRaises
  <1>3. /\ Len(inbox) \in Nat /\ Len(inbox') = Len(inbox) + 1
        /\ \A i \in 1 .. Len(inbox) : inbox'[i] = inbox[i]
        /\ inbox'[Len(inbox) + 1] = e
    BY <1>2, Appended
  <1>4. e.id \in RaisedBy(nwp)
    BY <1>2 DEF RoleInv, RaisedBy, Kinds, Down, STA, AP
  <1>5. \A i \in 1 .. Len(inbox') : inbox'[i].id \in RaisedBy(nwp)
    BY <1>3, <1>4 DEF RoleInv
  <1>6. assoc' => nwp = STA
    BY <1>2 DEF RoleInv
  <1> QED
    BY <1>1, <1>5, <1>6 DEF RoleInv, RoleIsTrue

(* Start and stop write the role the NWP has then.                         *)
LEMMA StartUpRole ==
    ASSUME TypeInv, RoleInv, StartUp
    PROVE  RoleInv'
  <1>1. ASSUME At("start1", "started1") \/ At("start2", "started2"), StartBegin
        PROVE  RoleInv'
    <2>1. /\ app' \in {"started1", "started2"} /\ nwp = OFF /\ inbox' = inbox /\ assoc' = assoc
      BY <1>1 DEF At, StartBegin, RoleInv
    <2>2. Len(inbox) = 0
      <3>1. Len(inbox) \in Nat
        BY DEF TypeInv
      <3>2. CASE Len(inbox) >= 1
        BY <2>1, <3>1, <3>2 DEF RoleInv, RaisedBy, OFF, STA, AP
      <3> QED
        BY <3>1, <3>2
    <2>3. ~assoc
      BY <2>1 DEF RoleInv, OFF, STA
    <2> QED
      BY <2>1, <2>2, <2>3 DEF RoleInv, RoleIsTrue
  <1>2. ASSUME At("started1", "reset") \/ At("started2", "init"), StartEnd
        PROVE  RoleInv'
    <2>1. app' \in {"reset", "init"} /\ UNCHANGED <<nwp, inbox, assoc>>
      BY <1>2 DEF At, StartEnd, nwpState
    <2>2. RoleIsTrue'
      BY <1>2, <2>1 DEF StartEnd, RoleIsTrue
    <2> QED
      BY <2>1, <2>2 DEF RoleInv
  <1>3. ASSUME At("reset", "profiles"), ResetToSta
        PROVE  RoleInv'
    <2>1. app = "reset" /\ app' = "profiles" /\ UNCHANGED <<nwp, role>>
      BY <1>3 DEF At, ResetToSta, slState
    <2>2. RoleIsTrue'
      BY <2>1 DEF RoleInv, RoleIsTrue
    <2>3. CASE UNCHANGED <<assoc, inbox>>
      BY <2>1, <2>2, <2>3 DEF RoleInv
    <2>4. CASE assoc' = FALSE /\ assoc /\ inbox' = Append(inbox, Event("USER_DISCONNECT"))
      <3>1. Event("USER_DISCONNECT") \in Raised /\ Event("USER_DISCONNECT").id = "USER_DISCONNECT"
        BY EventTypes DEF Kinds, Down, Event
      <3>2. /\ Len(inbox) \in Nat /\ Len(inbox') = Len(inbox) + 1
            /\ \A i \in 1 .. Len(inbox) : inbox'[i] = inbox[i]
            /\ inbox'[Len(inbox) + 1] = Event("USER_DISCONNECT")
        BY <2>4, <3>1, Appended
      <3>3. "USER_DISCONNECT" \in RaisedBy(nwp)
        BY <2>4 DEF RoleInv, RaisedBy, Kinds, Down, STA, AP
      <3>4. \A i \in 1 .. Len(inbox') : inbox'[i].id \in RaisedBy(nwp)
        BY <3>1, <3>2, <3>3 DEF RoleInv
      <3> QED
        BY <2>1, <2>2, <2>4, <3>4 DEF RoleInv
    <2> QED
      BY <1>3, <2>3, <2>4 DEF ResetToSta
  <1>4. ASSUME At("stop", "delegate"), Stop
        PROVE  RoleInv'
    <2>1. role # STOP /\ app' = "delegate"
      BY <1>4 DEF At, RoleInv
    <2>2. /\ role' = STOP /\ nwp' = OFF /\ assoc' = FALSE /\ inbox' = << >> /\ drv' = "idle"
      BY <1>4, <2>1 DEF Stop, slVars, slState, drvState
    <2>3. Len(inbox') = 0
      BY <2>2
    <2> QED
      BY <2>1, <2>2, <2>3 DEF RoleInv, RoleIsTrue, STOP, StartErrors
  <1>5. ASSUME At("delegate", "start2") /\ SetDelegate
        PROVE  RoleInv'
    BY <1>5 DEF At, SetDelegate, slState, nwpState, drvState, RoleInv, RoleIsTrue
  <1>6. ASSUME At("init", "create") \/ At("create", "loop"), UNCHANGED slVars
        PROVE  RoleInv'
    BY <1>6 DEF At, slVars, slState, nwpState, drvState, RoleInv, RoleIsTrue
  <1> QED
    BY <1>1, <1>2, <1>3, <1>4, <1>5, <1>6 DEF StartUp

(* Every step keeps it.                                                    *)
LEMMA RoleStep == TypeInv /\ RoleInv /\ [Next]_vars => RoleInv'
  <1> SUFFICES ASSUME TypeInv, RoleInv, [Next]_vars PROVE RoleInv'
    OBVIOUS
  <1>1. CASE Background
    BY <1>1, DriverRole, NwpRole DEF Background
  <1>2. CASE Profiles
    <2>1. /\ app = "profiles" /\ app' \in {"stop", "halted"} /\ (app' = "stop" => role # STOP)
          /\ UNCHANGED <<role, nwp, assoc, inbox, drv>>
      BY <1>2 DEF Profiles, slVars, slState, nwpState, drvState
    <2> QED
      BY <2>1 DEF RoleInv, RoleIsTrue
  <1>3. CASE EventCallback
    <2>1. drv = "fire" /\ UNCHANGED <<role, nwp, assoc, inbox, app>>
      BY <1>3 DEF EventCallback, Fire, slState, nwpState
    <2> QED
      BY <2>1 DEF RoleInv, RoleIsTrue
  <1>4. ASSUME OnSlEvent \/ OnIotkEvent \/ UNCHANGED vars
        PROVE  RoleInv'
    <2>1. UNCHANGED <<role, nwp, assoc, inbox, drv, app>>
      BY <1>4 DEF OnSlEvent, OnIotkEvent, OnConnected, OnDisconnected, OnIpAcquired, OnIgnored,
                  OnIotkConnected, OnLoginAck, OnIotkDisconnected, RunSpawned, ServerEvent,
                  vars, slVars, slState, nwpState, drvState
    <2> QED
      BY <2>1 DEF RoleInv, RoleIsTrue
  <1> QED
    BY <1>1, <1>2, <1>3, <1>4, StartUpRole DEF Next

(* Two threads write the role, at start, at stop and in every handler;     *)
(* whenever the application looks, it is the mode the NWP runs in.         *)
THEOREM RoleAlwaysTrue == Spec => []RoleIsTrue
  <1>1. RoleInv => RoleIsTrue
    BY DEF RoleInv
  <1> QED
    BY <1>1, TypeInit, TypeStep, RoleInit, RoleStep, PTL DEF Spec
-----------------------------------------------------------------------------
(* The address and the connection.                                         *)

(* The driver thread is in the disconnect handler, which clears the record *)
(* in two steps when it ends.                                              *)
Clearing == drv \in {"clear", "clear_ip"} \/ (drv = "fire" /\ ev.id \in Down)

(* Once the driver thread is done with the event in hand and the first n   *)
(* waiting, there is a connection.                                         *)
Standing(n) ==
    \/ \E j \in 1 .. n : /\ inbox[j].id = "CONNECT"
                         /\ \A k \in j + 1 .. n : inbox[k].id \notin Down
    \/ /\ connected /\ ~Clearing
       /\ \A k \in 1 .. n : inbox[k].id \notin Down

(* The event after the first n waiting is an address, or may become one.   *)
Due(n) ==
    \/ n = Len(inbox) /\ assoc
    \/ n < Len(inbox) /\ inbox[n + 1].id = "IP_ACQUIRED"

(* The NWP raises an address only within a connection, and the handlers    *)
(* run in the order the events were raised.                                *)
IpInv ==
    /\ \A n \in 0 .. Len(inbox) : Due(n) => Standing(n)
    /\ IpNeedsConnection

(* Initially there is neither.                                             *)
LEMMA IpInit == Init => IpInv
  <1> SUFFICES ASSUME Init PROVE IpInv
    OBVIOUS
  <1>1. inbox = << >> /\ assoc = FALSE /\ ip = FALSE
    BY DEF Init, SlInit
  <1>2. Len(inbox) = 0
    BY <1>1
  <1> QED
    BY <1>1, <1>2 DEF IpInv, Due, IpNeedsConnection

(* Events raised later do not change what the first n do.                  *)
LEMMA StandingKept ==
    ASSUME NEW n \in Nat, Standing(n), UNCHANGED <<connected, drv, ev>>,
           \A i \in 1 .. n : inbox'[i] = inbox[i]
    PROVE  Standing(n)'
  <1>1. Clearing' <=> Clearing
    BY DEF Clearing
  <1>2. CASE connected /\ ~Clearing /\ \A k \in 1 .. n : inbox[k].id \notin Down
    BY <1>1, <1>2 DEF Standing
  <1>3. ASSUME NEW j \in 1 .. n, inbox[j].id = "CONNECT",
               \A k \in j + 1 .. n : inbox[k].id \notin Down
        PROVE  Standing(n)'
    <2>1. inbox'[j].id = "CONNECT" /\ \A k \in j + 1 .. n : inbox'[k].id \notin Down
      BY <1>3
    <2> QED
      BY <2>1 DEF Standing
  <1> QED
    BY <1>2, <1>3 DEF Standing

(* Handling the oldest event moves what it does from the inbox to the      *)
(* record.                                                                 *)
LEMMA StandingTaken ==
    ASSUME TypeInv, NEW ids, Take(ids), NEW n \in 1 .. Len(inbox), Standing(n),
           inbox[1].id = "CONNECT" => connected',
           inbox[1].id # "CONNECT" => connected' = connected
    PROVE  Standing(n - 1)'
  <1>1. /\ drv = "idle" /\ drv' = "fire" /\ ev' = inbox[1]
        /\ Len(inbox) \in Nat /\ Len(inbox) >= 1 /\ Len(inbox') = Len(inbox) - 1
        /\ \A i \in 1 .. Len(inbox') : inbox'[i] = inbox[i + 1]
    BY TakeShifts
  <1>2. \A k \in 1 .. n - 1 : inbox'[k] = inbox[k + 1]
    BY <1>1
  <1>3. Clearing' <=> inbox[1].id \in Down
    BY <1>1 DEF Clearing
  <1>4. ASSUME NEW j \in 1 .. n, inbox[j].id = "CONNECT",
               \A k \in j + 1 .. n : inbox[k].id \notin Down
        PROVE  Standing(n - 1)'
    <2>1. \A k \in j .. n - 1 : inbox'[k].id \notin Down
      BY <1>2, <1>4
    <2>2. CASE j = 1
      <3>1. connected' /\ ~Clearing'
        BY <1>3, <1>4, <2>2 DEF Down
      <3> QED
        BY <2>1, <2>2, <3>1 DEF Standing
    <2>3. CASE j # 1
      <3>1. j - 1 \in 1 .. n - 1 /\ inbox'[j - 1].id = "CONNECT"
        BY <1>2, <1>4, <2>3
      <3> QED
        BY <2>1, <3>1 DEF Standing
    <2> QED
      BY <2>2, <2>3
  <1>5. CASE connected /\ \A k \in 1 .. n : inbox[k].id \notin Down
    <2>1. ~Clearing'
      <3>1. 1 \in 1 .. n
        OBVIOUS
      <3> QED
        BY <1>3, <1>5, <3>1
    <2>2. connected'
      BY <1>5, Zenon
    <2>3. \A k \in 1 .. n - 1 : inbox'[k].id \notin Down
      BY <1>2, <1>5
    <2> QED
      BY <2>1, <2>2, <2>3 DEF Standing
  <1> QED
    BY <1>4, <1>5 DEF Standing

(* The handlers keep it: an address is recorded within a connection.       *)
LEMMA DriverIp ==
    ASSUME TypeInv, IpInv, Driver
    PROVE  IpInv'
  <1>1. ASSUME NEW ids, Take(ids),
               inbox[1].id = "CONNECT" => connected',
               inbox[1].id # "CONNECT" => connected' = connected,
               inbox[1].id # "IP_ACQUIRED" => ip' = ip
        PROVE  IpInv'
    <2>1. /\ drv = "idle" /\ drv' = "fire" /\ ev' = inbox[1]
          /\ Len(inbox) \in Nat /\ Len(inbox) >= 1 /\ Len(inbox') = Len(inbox) - 1
          /\ \A i \in 1 .. Len(inbox') : inbox'[i] = inbox[i + 1]
          /\ assoc' = assoc
      BY <1>1, TakeShifts
    <2>2. ASSUME NEW n \in 0 .. Len(inbox'), Due(n)'
          PROVE  Standing(n)'
      <3>1. n + 1 \in 1 .. Len(inbox) /\ n + 1 \in 0 .. Len(inbox) /\ (n + 1) - 1 = n
        BY <2>1
      <3>2. Due(n + 1)
        BY <2>1, <2>2 DEF Due
      <3>3. Standing(n + 1)
        BY <3>1, <3>2 DEF IpInv
      <3>4. Standing((n + 1) - 1)'
        BY <1>1, <3>1, <3>3, StandingTaken
      <3> QED
        BY <3>1, <3>4
    <2>4. IpNeedsConnection'
      <3>1. CASE inbox[1].id = "IP_ACQUIRED"
        <4>1. Due(0) /\ 0 \in 0 .. Len(inbox)
          BY <2>1, <3>1 DEF Due
        <4>2. connected
          BY <4>1 DEF IpInv, Standing
        <4> QED
          BY <1>1, <3>1, <4>2 DEF IpNeedsConnection
      <3>2. CASE inbox[1].id # "IP_ACQUIRED"
        <4>1. ip => connected
          BY <2>1 DEF IpInv, IpNeedsConnection
        <4>2. connected => connected'
          BY <1>1, Zenon
        <4>3. ip' = ip
          BY <1>1, <3>2
        <4> QED
          BY <4>1, <4>2, <4>3, Zenon DEF IpNeedsConnection
      <3> QED
        BY <3>1, <3>2
    <2> QED
      BY <2>2, <2>4 DEF IpInv
  <1>2. \A ids : Take(ids) => inbox[1].id \in ids
    BY TakeShifts
  <1>3. CASE HandleConnect
    <2>1. Take({"CONNECT"}) /\ connected' = TRUE /\ ip' = ip
      BY <1>3 DEF HandleConnect
    <2>2. inbox[1].id = "CONNECT"
      BY <1>2, <2>1
    <2> QED
      BY <1>1, <2>1, <2>2
  <1>4. CASE HandleDown
    <2>1. Take(Down \cup {"CONNECT_FAILED"}) /\ connected' = connected /\ ip' = ip
      BY <1>4 DEF HandleDown
    <2>2. inbox[1].id # "CONNECT"
      BY <1>2, <2>1 DEF Down
    <2> QED
      BY <1>1, <2>1, <2>2
  <1>5. CASE HandleApClient
    <2>1. Take({"AP_CLIENT"}) /\ connected' = connected /\ ip' = ip
      BY <1>5 DEF HandleApClient
    <2>2. inbox[1].id = "AP_CLIENT"
      BY <1>2, <2>1
    <2> QED
      BY <1>1, <2>1, <2>2
  <1>6. CASE HandleIpAcquired
    <2>1. Take({"IP_ACQUIRED"}) /\ connected' = connected
      BY <1>6 DEF HandleIpAcquired
    <2>2. inbox[1].id = "IP_ACQUIRED"
      BY <1>2, <2>1
    <2> QED
      BY <1>1, <2>1, <2>2
  <1>7. CASE HandleOther
    <2>1. Take({"OTHER"}) /\ connected' = connected /\ ip' = ip
      BY <1>7 DEF HandleOther, slState
    <2>2. inbox[1].id = "OTHER"
      BY <1>2, <2>1
    <2> QED
      BY <1>1, <2>1, <2>2
  <1>8. CASE ClearConnected \/ ClearIp
    <2>1. drv \in {"clear", "clear_ip"} /\ (ip' = FALSE \/ drv' = "clear_ip") /\ UNCHANGED <<assoc, inbox>>
      BY <1>8 DEF ClearConnected, ClearIp, nwpState
    <2>2. \A n \in 0 .. Len(inbox) : Standing(n) => Standing(n)'
      BY <2>1 DEF Standing, Clearing
    <2>3. \A n \in 0 .. Len(inbox) : Due(n)' => Due(n)
      BY <2>1 DEF Due
    <2> QED
      BY <2>1, <2>2, <2>3 DEF IpInv, IpNeedsConnection
  <1> QED
    BY <1>3, <1>4, <1>5, <1>6, <1>7, <1>8 DEF Driver

(* An address is raised after the connection it belongs to.                *)
LEMMA RaisedIp ==
    ASSUME TypeInv, IpInv, UNCHANGED <<connected, ip, drv, ev>>,
           NEW e \in Raised, inbox' = Append(inbox, e),
           \/ e.id = "CONNECT"
           \/ assoc' = FALSE /\ e.id # "IP_ACQUIRED"
           \/ assoc' = assoc /\ (e.id = "IP_ACQUIRED" => assoc) /\ e.id \notin Down
    PROVE  IpInv'
  <1>1. /\ Len(inbox) \in Nat /\ Len(inbox') = Len(inbox) + 1
        /\ \A i \in 1 .. Len(inbox) : inbox'[i] = inbox[i]
        /\ inbox'[Len(inbox) + 1] = e
    BY Appended
  <1>2. \A n \in 0 .. Len(inbox) : Standing(n) => Standing(n)'
    <2> SUFFICES ASSUME NEW n \in 0 .. Len(inbox), Standing(n) PROVE Standing(n)'
      OBVIOUS
    <2>1. n \in Nat /\ \A i \in 1 .. n : inbox'[i] = inbox[i]
      BY <1>1
    <2> QED
      BY <2>1, StandingKept
  <1>3. ASSUME NEW n \in 0 .. Len(inbox'), Due(n)'
        PROVE  Standing(n)'
    <2>1. CASE n \in 0 .. Len(inbox)
      <3>1. Due(n)
        BY <1>1, <1>3, <2>1 DEF Due
      <3> QED
        BY <1>2, <2>1, <3>1 DEF IpInv
    <2>2. CASE n = Len(inbox) + 1 /\ e.id = "CONNECT"
      <3>1. inbox'[n].id = "CONNECT" /\ n \in 1 .. n
        BY <1>1, <2>2
      <3>2. \A k \in n + 1 .. n : FALSE
        BY <1>1, <2>2
      <3> QED
        BY <3>1, <3>2 DEF Standing
    <2>3. CASE n = Len(inbox) + 1 /\ e.id # "CONNECT"
      <3>1. assoc' = assoc /\ e.id \notin Down /\ Due(Len(inbox)) /\ Len(inbox) \in 0 .. Len(inbox)
        BY <1>1, <1>3, <2>3 DEF Due
      <3>2. CASE connected /\ ~Clearing /\ \A k \in 1 .. Len(inbox) : inbox[k].id \notin Down
        <4>1. connected' /\ ~Clearing'
          BY <3>2 DEF Clearing
        <4>2. \A k \in 1 .. n : inbox'[k].id \notin Down
          BY <1>1, <2>3, <3>1, <3>2
        <4> QED
          BY <4>1, <4>2 DEF Standing
      <3>3. ASSUME NEW j \in 1 .. Len(inbox), inbox[j].id = "CONNECT",
                   \A k \in j + 1 .. Len(inbox) : inbox[k].id \notin Down
            PROVE  Standing(n)'
        <4>1. j \in 1 .. n /\ inbox'[j].id = "CONNECT"
          BY <1>1, <2>3, <3>3
        <4>2. \A k \in j + 1 .. n : inbox'[k].id \notin Down
          BY <1>1, <2>3, <3>1, <3>3
        <4> QED
          BY <4>1, <4>2 DEF Standing
      <3>4. Standing(Len(inbox))
        BY <3>1 DEF IpInv
      <3> QED
        BY <3>2, <3>3, <3>4 DEF Standing
    <2> QED
      BY <1>1, <2>1, <2>2, <2>3
  <1> QED
    BY <1>3 DEF IpInv, IpNeedsConnection

(* A start clears the address; a stop leaves no event behind.              *)
LEMMA StartUpIp ==
    ASSUME TypeInv, RoleInv, IpInv, StartUp
    PROVE  IpInv'
  <1>1. ASSUME UNCHANGED <<connected, drv, ev, inbox, assoc>>, ip' \in {ip, FALSE}
        PROVE  IpInv'
    <2>1. \A n \in 0 .. Len(inbox) : Standing(n) => Standing(n)'
      BY <1>1 DEF Standing, Clearing
    <2>2. \A n \in 0 .. Len(inbox) : Due(n)' => Due(n)
      BY <1>1 DEF Due
    <2>3. \A n \in 0 .. Len(inbox') : Due(n)' => Standing(n)'
      BY <1>1, <2>1, <2>2 DEF IpInv
    <2>4. IpNeedsConnection'
      BY <1>1, Zenon DEF IpInv, IpNeedsConnection
    <2> QED
      BY <2>3, <2>4 DEF IpInv
  <1>2. CASE StartBegin
    BY <1>1, <1>2 DEF StartBegin, drvState
  <1>3. CASE ResetToSta
    <2>1. CASE UNCHANGED <<assoc, inbox>>
      BY <1>1, <1>3, <2>1 DEF ResetToSta, slState, drvState
    <2>2. CASE assoc' = FALSE /\ inbox' = Append(inbox, Event("USER_DISCONNECT"))
      <3>1. Event("USER_DISCONNECT") \in Raised /\ Event("USER_DISCONNECT").id = "USER_DISCONNECT"
        BY EventTypes DEF Kinds, Down, Event
      <3>2. UNCHANGED <<connected, ip, drv, ev>>
        BY <1>3 DEF ResetToSta, slState, drvState
      <3> QED
        BY <2>2, <3>1, <3>2, RaisedIp
    <2> QED
      BY <1>3, <2>1, <2>2 DEF ResetToSta
  <1>4. ASSUME At("stop", "delegate"), Stop
        PROVE  IpInv'
    <2>1. role # STOP
      BY <1>4 DEF At, RoleInv
    <2>2. assoc' = FALSE /\ inbox' = << >> /\ ip' = ip /\ connected' = connected /\ drv = "idle"
      BY <1>4, <2>1 DEF Stop, slVars, slState
    <2>3. Len(inbox') = 0
      BY <2>2
    <2> QED
      BY <2>2, <2>3 DEF IpInv, Due, IpNeedsConnection
  <1>5. CASE StartEnd \/ SetDelegate \/ UNCHANGED slVars
    BY <1>1, <1>5 DEF StartEnd, SetDelegate, slVars, slState, nwpState, drvState
  <1> QED
    BY <1>2, <1>3, <1>4, <1>5 DEF StartUp

(* Every step keeps it.                                                    *)
LEMMA IpStep == TypeInv /\ RoleInv /\ IpInv /\ [Next]_vars => IpInv'
  <1> SUFFICES ASSUME TypeInv, RoleInv, IpInv, [Next]_vars PROVE IpInv'
    OBVIOUS
  <1>1. CASE Driver
    BY <1>1, DriverIp
  <1>2. CASE Nwp
    <2>1. UNCHANGED <<connected, ip, drv, ev>>
      BY <1>2, NwpRaises
    <2>2. PICK e \in Raised :
            /\ inbox' = Append(inbox, e)
            /\ \/ nwp = STA /\ e.id = "CONNECT" /\ assoc' = TRUE
               \/ assoc /\ e.id = "IP_ACQUIRED" /\ assoc' = assoc
               \/ assoc /\ e.id \in Down /\ assoc' = FALSE
               \/ nwp = STA /\ e.id \in {"CONNECT_FAILED", "OTHER"} /\ assoc' = assoc
               \/ nwp = AP /\ e.id \in {"AP_CLIENT", "OTHER"} /\ assoc' = assoc
      BY <1>2, NwpRaises
    <2>3. \/ e.id = "CONNECT"
          \/ assoc' = FALSE /\ e.id # "IP_ACQUIRED"
          \/ assoc' = assoc /\ (e.id = "IP_ACQUIRED" => assoc) /\ e.id \notin Down
      BY <2>2 DEF Down
    <2> QED
      BY <2>1, <2>2, <2>3, RaisedIp
  <1>3. ASSUME \/ Profiles \/ EventCallback \/ OnSlEvent \/ OnIotkEvent
               \/ UNCHANGED vars
        PROVE  IpInv'
    <2>1. UNCHANGED <<connected, ip, ev, inbox, assoc>> /\ (drv = "clear_ip" => drv' = drv)
      BY <1>3 DEF OnSlEvent, OnIotkEvent, OnConnected, OnDisconnected, OnIpAcquired, OnIgnored,
                  OnIotkConnected, OnLoginAck, OnIotkDisconnected, RunSpawned, ServerEvent, Profiles,
                  EventCallback, Fire, vars, slVars, slState, nwpState, drvState
    <2>2. Clearing' <=> Clearing
      <3>1. CASE EventCallback
        BY <3>1 DEF EventCallback, Fire, Clearing
      <3>2. CASE UNCHANGED slVars
        BY <3>2 DEF slVars, drvState, Clearing
      <3> QED
        BY <1>3, <3>1, <3>2
           DEF OnSlEvent, OnIotkEvent, OnConnected, OnDisconnected, OnIpAcquired, OnIgnored,
               OnIotkConnected, OnLoginAck, OnIotkDisconnected, RunSpawned, ServerEvent, Profiles, vars
    <2>3. \A n \in 0 .. Len(inbox) : Standing(n) => Standing(n)'
      BY <2>1, <2>2 DEF Standing
    <2>4. \A n \in 0 .. Len(inbox) : Due(n)' => Due(n)
      BY <2>1 DEF Due
    <2> QED
      BY <2>1, <2>3, <2>4 DEF IpInv, IpNeedsConnection
  <1> QED
    BY <1>1, <1>2, <1>3, StartUpIp DEF Next, Background

(* The record never holds an address without a connection, for any order   *)
(* in which the NWP raises events and the threads take turns, but between  *)
(* the two stores that clear it.                                           *)
THEOREM IpOnlyConnected == Spec => []IpNeedsConnection
  <1>1. IpInv => IpNeedsConnection
    BY DEF IpInv
  <1> QED
    BY <1>1, TypeInit, TypeStep, RoleInit, RoleStep, IpInit, IpStep, PTL DEF Spec
-----------------------------------------------------------------------------
(* The flags and the record.                                               *)

(* The two events with a flag of their own, their flags, and what the      *)
(* record says of them.                                                    *)
Sources == {"CONNECT", "IP_ACQUIRED"}
Flag(id) == IF id = "CONNECT" THEN "STA_CONNECTED" ELSE "IP_ACQUIRED"
Known(id) == IF id = "CONNECT" THEN connected ELSE ip

(* No disconnect waits to be executed; after the last one that does, the   *)
(* event comes; hence once all waiting calls are executed its flag is set. *)
NoDown == \A j \in 1 .. Len(spawnq) : spawnq[j] \notin Down
LastIs(id) ==
    \E i \in 1 .. Len(spawnq) : /\ spawnq[i] = id
                                /\ \A j \in i + 1 .. Len(spawnq) : spawnq[j] \notin Down
Coming(id) == LastIs(id) \/ (Flag(id) \in flags /\ NoDown)

(* The delegate is about to be told of the event; the application was told *)
(* of every event, and a flag wiped by the server is about to be cleared.  *)
Firing(id) == drv = "fire" /\ ev.id = id
Told == "missed" \notin adrift /\ ("wiped" \notin adrift \/ ~NoDown)

(* What the flag will be is what the record says, up to the event the      *)
(* driver thread has in hand: it is recorded before the delegate runs when *)
(* it sets the record and after when it clears it.                         *)
Followed(id) ==
    /\ Firing(id) => Known(id)
    /\ Told /\ ~Firing(id) => (Coming(id) <=> Known(id) /\ drv \notin {"clear", "clear_ip"})

(* Before the iotkit task runs there are no flags; between the stores of   *)
(* the connection and of the address there is no connection.               *)
FollowInv ==
    /\ \A id \in Sources : Followed(id)
    /\ drv = "clear_ip" => ~connected
    /\ ~Ready => spawnq = << >>
    /\ app # "loop" => flags = {} /\ "wiped" \notin adrift

(* An event passed on changes what comes of it.                            *)
LEMMA PassedOn ==
    ASSUME TypeInv, NEW e \in Kinds, NEW id \in Sources,
           spawnq' = Append(spawnq, e), flags' = flags
    PROVE  /\ NoDown' <=> NoDown /\ e \notin Down
           /\ LastIs(id)' <=> e = id \/ (e \notin Down /\ LastIs(id))
           /\ Coming(id)' <=> e = id \/ (e \notin Down /\ Coming(id))
  <1>1. /\ Len(spawnq) \in Nat /\ Len(spawnq') = Len(spawnq) + 1
        /\ \A i \in 1 .. Len(spawnq) : spawnq'[i] = spawnq[i]
        /\ spawnq'[Len(spawnq) + 1] = e
    BY DEF TypeInv
  <1>2. id \notin Down
    BY DEF Sources, Down
  <1>3. NoDown' <=> NoDown /\ e \notin Down
    BY <1>1 DEF NoDown
  <1>4. LastIs(id)' <=> e = id \/ (e \notin Down /\ LastIs(id))
    <2>1. CASE e = id
      <3>1. /\ Len(spawnq') \in 1 .. Len(spawnq') /\ spawnq'[Len(spawnq')] = id
            /\ \A j \in Len(spawnq') + 1 .. Len(spawnq') : FALSE
        BY <1>1, <2>1
      <3> QED
        BY <2>1, <3>1 DEF LastIs
    <2>2. CASE e # id
      <3>1. ASSUME NEW i \in 1 .. Len(spawnq'), spawnq'[i] = id,
                   \A j \in i + 1 .. Len(spawnq') : spawnq'[j] \notin Down
            PROVE  e \notin Down /\ LastIs(id)
        <4>1. i \in 1 .. Len(spawnq) /\ spawnq[i] = id
          BY <1>1, <2>2, <3>1
        <4>2. \A j \in i + 1 .. Len(spawnq) : spawnq[j] \notin Down
          BY <1>1, <3>1, <4>1
        <4>3. e \notin Down
          BY <1>1, <3>1, <4>1
        <4> QED
          BY <4>1, <4>2, <4>3 DEF LastIs
      <3>2. ASSUME e \notin Down, NEW i \in 1 .. Len(spawnq), spawnq[i] = id,
                   \A j \in i + 1 .. Len(spawnq) : spawnq[j] \notin Down
            PROVE  LastIs(id)'
        <4>1. i \in 1 .. Len(spawnq') /\ spawnq'[i] = id
          BY <1>1, <3>2
        <4>2. \A j \in i + 1 .. Len(spawnq') : spawnq'[j] \notin Down
          BY <1>1, <3>2
        <4> QED
          BY <4>1, <4>2 DEF LastIs
      <3> QED
        BY <2>2, <3>1, <3>2 DEF LastIs
    <2> QED
      BY <2>1, <2>2
  <1> QED
    BY <1>2, <1>3, <1>4 DEF Coming

(* Executing the oldest call takes it from what is coming.                 *)
LEMMA Executed ==
    ASSUME TypeInv, NEW id \in Sources, spawnq # << >>, spawnq' = Tail(spawnq)
    PROVE  /\ Head(spawnq) = spawnq[1]
           /\ NoDown <=> NoDown' /\ spawnq[1] \notin Down
           /\ LastIs(id) <=> LastIs(id)' \/ (spawnq[1] = id /\ NoDown')
  <1>1. /\ Len(spawnq) \in Nat /\ Len(spawnq) >= 1 /\ Len(spawnq') = Len(spawnq) - 1
        /\ \A i \in 1 .. Len(spawnq') : spawnq'[i] = spawnq[i + 1]
        /\ Head(spawnq) = spawnq[1]
    BY DEF TypeInv
  <1>2. \A i \in 2 .. Len(spawnq) : i - 1 \in 1 .. Len(spawnq') /\ spawnq[i] = spawnq'[i - 1]
    BY <1>1
  <1>3. NoDown <=> NoDown' /\ spawnq[1] \notin Down
    <2>1. NoDown => NoDown' /\ spawnq[1] \notin Down
      BY <1>1 DEF NoDown
    <2>2. NoDown' /\ spawnq[1] \notin Down => NoDown
      <3> SUFFICES ASSUME NoDown', spawnq[1] \notin Down, NEW j \in 1 .. Len(spawnq)
                   PROVE  spawnq[j] \notin Down
        BY DEF NoDown
      <3>1. CASE j = 1
        BY <3>1
      <3>2. CASE j # 1
        BY <1>1, <1>2, <3>2 DEF NoDown
      <3> QED
        BY <3>1, <3>2
    <2> QED
      BY <2>1, <2>2
  <1>4. ASSUME NEW i \in 1 .. Len(spawnq), spawnq[i] = id,
               \A j \in i + 1 .. Len(spawnq) : spawnq[j] \notin Down
        PROVE  LastIs(id)' \/ (spawnq[1] = id /\ NoDown')
    <2>1. CASE i = 1
      <3>1. \A j \in 1 .. Len(spawnq') : spawnq'[j] \notin Down
        BY <1>1, <1>4, <2>1
      <3> QED
        BY <1>4, <2>1, <3>1 DEF NoDown
    <2>2. CASE i # 1
      <3>1. i - 1 \in 1 .. Len(spawnq') /\ spawnq'[i - 1] = id
        BY <1>1, <1>2, <1>4, <2>2
      <3>2. \A j \in (i - 1) + 1 .. Len(spawnq') : spawnq'[j] \notin Down
        BY <1>1, <1>4, <2>2
      <3> QED
        BY <3>1, <3>2 DEF LastIs
    <2> QED
      BY <2>1, <2>2
  <1>5. ASSUME NEW i \in 1 .. Len(spawnq'), spawnq'[i] = id,
               \A j \in i + 1 .. Len(spawnq') : spawnq'[j] \notin Down
        PROVE  LastIs(id)
    <2>1. i + 1 \in 1 .. Len(spawnq) /\ spawnq[i + 1] = id
      BY <1>1, <1>5
    <2>2. \A j \in (i + 1) + 1 .. Len(spawnq) : j - 1 \in i + 1 .. Len(spawnq') /\ spawnq[j] = spawnq'[j - 1]
      BY <1>1, <1>2
    <2>3. \A j \in (i + 1) + 1 .. Len(spawnq) : spawnq[j] \notin Down
      BY <1>5, <2>2
    <2> QED
      BY <2>1, <2>3 DEF LastIs
  <1>6. ASSUME spawnq[1] = id, NoDown'
        PROVE  LastIs(id)
    <2>1. 1 \in 1 .. Len(spawnq)
      BY <1>1
    <2>2. \A j \in 1 + 1 .. Len(spawnq) : spawnq[j] \notin Down
      <3> SUFFICES ASSUME NEW j \in 1 + 1 .. Len(spawnq) PROVE spawnq[j] \notin Down
        OBVIOUS
      <3>1. j - 1 \in 1 .. Len(spawnq') /\ spawnq[j] = spawnq'[j - 1]
        BY <1>1, <1>2
      <3> QED
        BY <1>6, <3>1 DEF NoDown
    <2> QED
      BY <1>6, <2>1, <2>2 DEF LastIs
  <1> QED
    BY <1>1, <1>3, <1>4, <1>5, <1>6 DEF LastIs

(* With nothing waiting the flags are what is coming.                      *)
LEMMA NothingWaits ==
    ASSUME spawnq = << >>, NEW id
    PROVE  NoDown /\ (Coming(id) <=> Flag(id) \in flags)
  <1>1. Len(spawnq) = 0
    OBVIOUS
  <1> QED
    BY <1>1 DEF NoDown, LastIs, Coming

(* Initially neither flags nor record say anything.                        *)
LEMMA FollowInit == Init => FollowInv
  <1> SUFFICES ASSUME Init PROVE FollowInv
    OBVIOUS
  <1>1. /\ spawnq = << >> /\ flags = {} /\ adrift = {} /\ drv = "idle"
        /\ connected = FALSE /\ ip = FALSE
    BY DEF Init, SlInit
  <1>2. ASSUME NEW id \in Sources
        PROVE  Followed(id)
    <2>1. ~Coming(id)
      BY <1>1, NothingWaits
    <2>2. ~Known(id) /\ ~Firing(id)
      BY <1>1 DEF Known, Firing
    <2> QED
      BY <2>1, <2>2 DEF Followed
  <1> QED
    BY <1>1, <1>2 DEF FollowInv

(* A handler records its own event, and what is coming is as before.       *)
LEMMA DriverFollow ==
    ASSUME TypeInv, FollowInv, Driver, UNCHANGED <<app, spawnq, flags, adrift>>
    PROVE  FollowInv'
  <1>1. ASSUME NEW id \in Sources
        PROVE  /\ NoDown' <=> NoDown
               /\ Coming(id)' <=> Coming(id)
               /\ Told' <=> Told
    BY DEF NoDown, LastIs, Coming, Told
  <1>2. ASSUME NEW ids, Take(ids), NEW id \in Sources,
               ev'.id = id => Known(id)', ev'.id # id => Known(id)' = Known(id)
        PROVE  Followed(id)'
    <2>1. drv = "idle" /\ drv' = "fire"
      BY <1>2, TakeShifts
    <2>2. ~Firing(id) /\ (Firing(id)' <=> ev'.id = id)
      BY <2>1 DEF Firing
    <2>3. Followed(id)
      BY DEF FollowInv
    <2>4. CASE ev'.id = id
      BY <1>2, <2>2, <2>4 DEF Followed
    <2>5. CASE ev'.id # id
      <3>1. Told => (Coming(id) <=> Known(id))
        BY <2>1, <2>2, <2>3 DEF Followed
      <3>2. ~Firing(id)' /\ drv' \notin {"clear", "clear_ip"}
        BY <2>1, <2>2, <2>5
      <3>3. Told' => (Coming(id)' <=> Known(id)')
        BY <1>1, <1>2, <2>5, <3>1, Zenon
      <3> QED
        BY <3>2, <3>3 DEF Followed
    <2> QED
      BY <2>4, <2>5
  <1>3. \A ids : Take(ids) => ev'.id \in ids
    BY TakeShifts
  <1>4. ASSUME NEW id \in Sources
        PROVE  Followed(id)'
    <2>1. CASE HandleConnect
      <3>1. Take({"CONNECT"}) /\ connected' = TRUE /\ ip' = ip /\ ev'.id = "CONNECT"
        BY <1>3, <2>1 DEF HandleConnect
      <3> QED
        BY <1>2, <3>1 DEF Known, Sources
    <2>2. CASE HandleIpAcquired
      <3>1. Take({"IP_ACQUIRED"}) /\ ip' = TRUE /\ connected' = connected /\ ev'.id = "IP_ACQUIRED"
        BY <1>3, <2>2 DEF HandleIpAcquired
      <3> QED
        BY <1>2, <3>1 DEF Known, Sources
    <2>3. CASE HandleDown \/ HandleApClient \/ HandleOther
      <3>1. PICK ids \in {Down \cup {"CONNECT_FAILED"}, {"AP_CLIENT"}, {"OTHER"}} :
               Take(ids) /\ connected' = connected /\ ip' = ip
        BY <2>3 DEF HandleDown, HandleApClient, HandleOther, slState
      <3>2. ev'.id # id
        BY <1>3, <3>1 DEF Down, Sources
      <3> QED
        BY <1>2, <3>1, <3>2 DEF Known
    <2>4. CASE ClearConnected
      <3>1. drv \in {"clear", "clear_ip"} /\ drv' \in {"clear", "clear_ip"} /\ ~Firing(id) /\ ~Firing(id)'
        BY <2>4 DEF ClearConnected, Firing
      <3> QED
        BY <1>1, <3>1 DEF FollowInv, Followed
    <2>5. CASE ClearIp
      <3>1. drv \in {"clear", "clear_ip"} /\ ~Firing(id) /\ ~Firing(id)' /\ connected' = connected /\ ip' = FALSE
        BY <2>5 DEF ClearIp, Firing
      <3>2. ~connected
        BY <2>5 DEF ClearIp, FollowInv
      <3>3. ~Known(id)'
        BY <3>1, <3>2 DEF Known
      <3> QED
        BY <1>1, <3>1, <3>3 DEF FollowInv, Followed
    <2> QED
      BY <2>1, <2>2, <2>3, <2>4, <2>5 DEF Driver
  <1>5. drv' = "clear_ip" => ~connected'
    <2>1. CASE ClearConnected \/ ClearIp
      BY <2>1 DEF ClearConnected, ClearIp
    <2>2. CASE \E ids : Take(ids)
      BY <2>2 DEF Take
    <2> QED
      BY <2>1, <2>2 DEF Driver, HandleConnect, HandleDown, HandleApClient, HandleIpAcquired, HandleOther
  <1> QED
    BY <1>4, <1>5 DEF FollowInv, Ready

(* The delegate passes the event on, or the flags are adrift.              *)
LEMMA CallbackFollow ==
    ASSUME TypeInv, FollowInv, EventCallback
    PROVE  FollowInv'
  <1>1. /\ drv = "fire" /\ drv' = (IF ev.id \in Down THEN "clear" ELSE "idle")
        /\ UNCHANGED <<connected, ip, flags, app>>
    BY DEF EventCallback, Fire, slState, appState
  <1>2. ev.id \in Kinds
    BY <1>1, RaisedIds DEF TypeInv
  <1>3. \A id \in Sources : ~Firing(id)' /\ (Known(id)' <=> Known(id))
    BY <1>1 DEF Firing, Known
  <1>4. CASE NoDelegate \/ NoMemory \/ NotSpawned
    <2>1. ~Told' /\ (Ready' <=> Ready)
      BY <1>1, <1>4 DEF NoDelegate, NoMemory, NotSpawned, Lost, Told, Ready
    <2>2. spawnq' = spawnq /\ ("wiped" \in adrift' <=> "wiped" \in adrift)
      BY <1>4 DEF NoDelegate, NoMemory, NotSpawned, Lost, queueState
    <2> QED
      BY <1>1, <1>3, <2>1, <2>2 DEF FollowInv, Followed
  <1>5. CASE Spawned
    <2>1. /\ Ready /\ Ready' /\ spawnq' = Append(spawnq, ev.id)
          /\ adrift' = IF ev.id \in Down THEN adrift \ {"missed"} ELSE adrift
      BY <1>1, <1>5 DEF Spawned, Ready
    <2>2. ASSUME NEW id \in Sources
          PROVE  Followed(id)'
      <3>1. /\ NoDown' <=> NoDown /\ ev.id \notin Down
            /\ Coming(id)' <=> ev.id = id \/ (ev.id \notin Down /\ Coming(id))
        BY <1>1, <1>2, <2>1, PassedOn
      <3>2. id \notin Down
        BY DEF Sources, Down
      <3>3. CASE ev.id \in Down
        BY <1>1, <1>3, <3>1, <3>2, <3>3 DEF Followed
      <3>4. CASE ev.id = id
        <4>1. Known(id)
          BY <1>1, <3>4 DEF FollowInv, Followed, Firing
        <4> QED
          BY <1>1, <1>3, <3>1, <3>2, <3>4, <4>1 DEF Followed
      <3>5. CASE ev.id # id /\ ev.id \notin Down
        <4>1. Told' => Told
          BY <2>1, <3>1, <3>5 DEF Told
        <4>2. Told => (Coming(id) <=> Known(id))
          BY <1>1, <3>5 DEF FollowInv, Followed, Firing
        <4>3. Told' => (Coming(id)' <=> Known(id)')
          BY <1>3, <3>1, <3>5, <4>1, <4>2
        <4> QED
          BY <1>1, <1>3, <3>5, <4>3 DEF Followed
      <3> QED
        BY <3>3, <3>4, <3>5
    <2>3. app # "loop" => flags' = {} /\ "wiped" \notin adrift'
      BY <1>1, <2>1 DEF FollowInv
    <2> QED
      BY <1>1, <2>1, <2>2, <2>3 DEF FollowInv
  <1> QED
    BY <1>4, <1>5 DEF EventCallback

(* Before the iotkit task runs the flags are empty: a start or a stop that *)
(* changes the record finds nothing recorded, or leaves the flags adrift.  *)
LEMMA StartUpFollow ==
    ASSUME TypeInv, RoleInv, IpInv, FollowInv, StartUp
    PROVE  FollowInv'
  <1>1. /\ UNCHANGED <<spawnq, flags>> /\ app # "loop" /\ flags = {} /\ "wiped" \notin adrift
        /\ "wiped" \notin adrift'
    BY DEF StartUp, At, appState, queueState, FollowInv
  <1>2. (~Ready' => spawnq' = << >>) /\ (app' # "loop" => flags' = {})
    BY <1>1 DEF StartUp, At, Ready, FollowInv
  <1>3. ASSUME NEW id \in Sources
        PROVE  (NoDown' <=> NoDown) /\ (Coming(id)' <=> Coming(id))
    BY <1>1 DEF NoDown, LastIs, Coming
  <1>4. ASSUME app # "stop", UNCHANGED <<drv, ev, connected>>, ip' = ip \/ (ip' = FALSE /\ app \in {"start1", "start2"})
        PROVE  \A id \in Sources : Followed(id)'
    <2> TAKE id \in Sources
    <2>1. adrift' = adrift
      BY <1>4 DEF StartUp
    <2>2. (Told' <=> Told) /\ (Firing(id)' <=> Firing(id)) /\ Followed(id)
      BY <1>1, <1>3, <1>4, <2>1 DEF Told, Firing, FollowInv
    <2>3. CASE Known(id)' = Known(id)
      <3>1. drv' = drv
        BY <1>4
      <3> QED
        BY <1>3, <2>2, <2>3, <3>1, Zenon DEF Followed
    <2>4. CASE app \in {"start1", "start2"} /\ ip' = FALSE /\ id = "IP_ACQUIRED"
      <3>1. drv = "idle" /\ spawnq = << >>
        BY <2>4 DEF RoleInv, FollowInv, Ready
      <3>2. ~Coming(id) /\ ~Firing(id) /\ ~Known(id)'
        BY <1>1, <2>4, <3>1, NothingWaits DEF Firing, Known
      <3> QED
        BY <1>3, <2>2, <3>2 DEF Followed
    <2> QED
      BY <1>4, <2>3, <2>4 DEF Known, Sources
  <1>5. ASSUME app = "stop", Stop
        PROVE  \A id \in Sources : Followed(id)'
    <2> TAKE id \in Sources
    <2>1. drv = "idle" /\ drv' = "idle" /\ connected' = connected /\ ip' = ip
      BY <1>5 DEF RoleInv, Stop, slVars, slState, drvState
    <2>2. ~Firing(id)' /\ ~Coming(id)'
      <3>1. spawnq = << >>
        BY <1>5 DEF FollowInv, Ready
      <3> QED
        BY <1>1, <1>3, <2>1, <3>1, NothingWaits DEF Firing
    <2>3. Told' => ~connected
      BY <1>5 DEF StartUp, Told
    <2>4. ip => connected
      BY <2>1 DEF IpInv, IpNeedsConnection
    <2>5. Told' => ~Known(id)'
      BY <2>1, <2>3, <2>4 DEF Known
    <2> QED
      BY <2>2, <2>5 DEF Followed
  <1>6. \A id \in Sources : Followed(id)'
    <2>1. CASE app = "stop"
      BY <1>5, <2>1 DEF StartUp, At
    <2>2. CASE app # "stop"
      <3>1. CASE StartBegin /\ app \in {"start1", "start2"}
        BY <1>4, <2>2, <3>1 DEF StartBegin, drvState
      <3>2. CASE StartEnd \/ ResetToSta \/ SetDelegate \/ UNCHANGED slVars
        BY <1>4, <2>2, <3>2 DEF StartEnd, ResetToSta, SetDelegate, slVars, slState, drvState
      <3> QED
        BY <2>2, <3>1, <3>2 DEF StartUp, At
    <2> QED
      BY <2>1, <2>2
  <1>7. drv' = "clear_ip" => ~connected'
    <2>1. drv' = drv /\ connected' = connected
      BY DEF StartUp, StartBegin, StartEnd, ResetToSta, Stop, SetDelegate, slVars, slState, drvState
    <2> QED
      BY <2>1 DEF FollowInv
  <1> QED
    BY <1>1, <1>2, <1>6, <1>7 DEF FollowInv

(* The handlers of the iotkit task execute the oldest call.                *)
LEMMA SlEventFollow ==
    ASSUME TypeInv, FollowInv, OnSlEvent
    PROVE  FollowInv'
  <1>1. /\ app = "loop" /\ spawnq # << >> /\ spawnq' = Tail(spawnq)
        /\ UNCHANGED <<app, drv, ev, connected, ip>>
    BY DEF OnSlEvent, OnConnected, OnDisconnected, OnIpAcquired, OnIgnored, RunSpawned,
           slVars, slState, drvState
  <1>2. \A id \in Sources :
          /\ Head(spawnq) = spawnq[1]
          /\ NoDown <=> NoDown' /\ spawnq[1] \notin Down
          /\ LastIs(id) <=> LastIs(id)' \/ (spawnq[1] = id /\ NoDown')
    BY <1>1, Executed
  <1>3. ASSUME NEW id \in Sources,
               spawnq[1] \in Down => Flag(id) \notin flags',
               spawnq[1] = id => Flag(id) \in flags',
               spawnq[1] \notin Down \cup {id} => (Flag(id) \in flags' <=> Flag(id) \in flags),
               Told' => Told
        PROVE  Followed(id)'
    <2>1. id \notin Down
      BY DEF Sources, Down
    <2>2. Coming(id)' <=> Coming(id)
      BY <1>2, <1>3, <2>1 DEF Coming
    <2>3. (Firing(id)' <=> Firing(id)) /\ (Known(id)' <=> Known(id)) /\ drv' = drv
      BY <1>1 DEF Firing, Known
    <2> QED
      BY <1>3, <2>2, <2>3 DEF FollowInv, Followed
  <1>4. ASSUME spawnq[1] \notin Down, adrift' = adrift
        PROVE  Told' => Told
    BY <1>2, <1>4 DEF Told, Sources
  <1>5. Head(spawnq) = spawnq[1]
    BY <1>2 DEF Sources
  <1>6. CASE OnConnected
    <2>1. spawnq[1] = "CONNECT" /\ flags' = flags \cup {"STA_CONNECTED"} /\ adrift' = adrift
      BY <1>5, <1>6 DEF OnConnected
    <2> QED
      BY <1>1, <1>3, <1>4, <2>1 DEF FollowInv, Flag, Sources, Down, Ready
  <1>7. CASE OnIpAcquired
    <2>1. spawnq[1] = "IP_ACQUIRED" /\ flags' = flags \cup {"IP_ACQUIRED"} /\ adrift' = adrift
      BY <1>5, <1>7 DEF OnIpAcquired
    <2> QED
      BY <1>1, <1>3, <1>4, <2>1 DEF FollowInv, Flag, Sources, Down, Ready
  <1>8. CASE OnDisconnected
    <2>1. /\ spawnq[1] \in Down /\ flags' = flags \ {"STA_CONNECTED", "IP_ACQUIRED"}
          /\ adrift' = adrift \ {"wiped"}
      BY <1>5, <1>8 DEF OnDisconnected
    <2>2. Told' => Told
      BY <1>2, <2>1 DEF Told, Sources
    <2> QED
      BY <1>1, <1>3, <2>1, <2>2 DEF FollowInv, Flag, Sources, Down, Ready
  <1>9. CASE OnIgnored
    <2>1. spawnq[1] \notin Down \cup Sources /\ UNCHANGED <<flags, adrift>>
      BY <1>5, <1>9 DEF OnIgnored, Sources, appState
    <2> QED
      BY <1>1, <1>3, <1>4, <2>1 DEF FollowInv, Ready
  <1> QED
    BY <1>6, <1>7, <1>8, <1>9 DEF OnSlEvent

(* The server's events set flags of their own, but a server disconnect     *)
(* clears all of them.                                                     *)
LEMMA IotkEventFollow ==
    ASSUME TypeInv, FollowInv, OnIotkEvent
    PROVE  FollowInv'
  <1>1. app = "loop" /\ UNCHANGED <<app, spawnq, drv, ev, connected, ip>>
    BY DEF OnIotkEvent, OnIotkConnected, OnLoginAck, OnIotkDisconnected, ServerEvent,
           slVars, slState, drvState, queueState
  <1>2. (NoDown' <=> NoDown) /\ (Ready' <=> Ready) /\ \A id \in Sources : LastIs(id)' <=> LastIs(id)
    BY <1>1 DEF NoDown, LastIs, Ready
  <1>3. ASSUME NEW id \in Sources, Told' => Told,
               Told' /\ NoDown => (Flag(id) \in flags' <=> Flag(id) \in flags)
        PROVE  Followed(id)'
    <2>1. Told' => (Coming(id)' <=> Coming(id))
      BY <1>2, <1>3 DEF Coming
    <2>2. (Firing(id)' <=> Firing(id)) /\ (Known(id)' <=> Known(id)) /\ drv' = drv
      BY <1>1 DEF Firing, Known
    <2> QED
      BY <1>3, <2>1, <2>2 DEF FollowInv, Followed
  <1>4. CASE OnIotkConnected \/ OnLoginAck
    <2>1. /\ adrift' = adrift
          /\ \A id \in Sources : Flag(id) \in flags' <=> Flag(id) \in flags
      BY <1>4 DEF OnIotkConnected, OnLoginAck, Flag
    <2>2. Told' => Told
      BY <1>2, <2>1 DEF Told
    <2> QED
      BY <1>1, <1>3, <2>1, <2>2 DEF FollowInv, Ready
  <1>5. CASE OnIotkDisconnected
    <2>1. /\ flags' = {}
          /\ adrift' = IF flags \cap {"STA_CONNECTED", "IP_ACQUIRED"} # {}
                         THEN adrift \cup {"wiped"} ELSE adrift
      BY <1>5 DEF OnIotkDisconnected
    <2>2. Told' => Told
      BY <1>2, <2>1 DEF Told
    <2>3. ASSUME NEW id \in Sources, Told', NoDown
          PROVE  Flag(id) \in flags' <=> Flag(id) \in flags
      BY <1>2, <2>1, <2>3 DEF Told, Flag
    <2> QED
      BY <1>1, <1>3, <2>2, <2>3 DEF FollowInv, Ready
  <1> QED
    BY <1>4, <1>5 DEF OnIotkEvent

(* Every step keeps it.                                                    *)
LEMMA FollowStep ==
    TypeInv /\ RoleInv /\ IpInv /\ FollowInv /\ [Next]_vars => FollowInv'
  <1> SUFFICES ASSUME TypeInv, RoleInv, IpInv, FollowInv, [Next]_vars PROVE FollowInv'
    OBVIOUS
  <1>1. CASE Background /\ Driver
    BY <1>1, DriverFollow DEF Background, appState, queueState
  <1>2. CASE (Background /\ Nwp) \/ Profiles \/ UNCHANGED vars
    <2>1. /\ UNCHANGED <<spawnq, flags, adrift, drv, ev, connected, ip>>
          /\ (Ready' <=> Ready) /\ (app' = "loop" <=> app = "loop")
      BY <1>2, NwpRaises DEF Background, Profiles, vars, slVars, slState, drvState, appState,
                             queueState, Ready
    <2>2. \A id \in Sources : Followed(id)' <=> Followed(id)
      BY <2>1 DEF Followed, Firing, Known, Told, Coming, LastIs, NoDown
    <2> QED
      BY <2>1, <2>2 DEF FollowInv
  <1> QED
    BY <1>1, <1>2, CallbackFollow, StartUpFollow, SlEventFollow, IotkEventFollow
       DEF Next, Background

(* Whenever nothing is on its way, for any size of the spawn queue and any *)
(* interleaving of driver thread, iotkit task and server, the flags of the *)
(* application say what sl.c recorded.                                     *)
THEOREM FlagsFollow == Spec => []FlagsFollowWifi
  <1>1. TypeInv /\ FollowInv => FlagsFollowWifi
    <2> SUFFICES ASSUME TypeInv, FollowInv, Settled, adrift = {}
                 PROVE  /\ "STA_CONNECTED" \in flags <=> connected
                        /\ "IP_ACQUIRED" \in flags <=> ip
      BY DEF FlagsFollowWifi
    <2>1. \A id \in Sources : Flag(id) \in flags <=> Known(id)
      BY NothingWaits DEF Settled, FollowInv, Followed, Told, Firing
    <2> QED
      BY <2>1 DEF Sources, Flag, Known
  <1> QED
    BY <1>1, TypeInit, TypeStep, RoleInit, RoleStep, IpInit, IpStep, FollowInit, FollowStep, PTL
       DEF Spec
-----------------------------------------------------------------------------
(* The starts of the core.                                                 *)

(* What is between the NWP and the iotkit task: the calls waiting, the     *)
(* event in the driver's hand, and the events raised, in this order.  How  *)
(* many disconnects are among them, and whether the last of them, if any,  *)
(* is followed by an address.                                              *)
DownsSpawned == {i \in 1 .. Len(spawnq) : spawnq[i] \in Down}
DownsRaised == {i \in 1 .. Len(inbox) : inbox[i].id \in Down}
DownFired == drv = "fire" /\ ev.id \in Down
Downs == Cardinality(DownsSpawned) + (IF DownFired THEN 1 ELSE 0) + Cardinality(DownsRaised)
LastRaised ==
    \E j \in 1 .. Len(inbox) : /\ inbox[j].id = "IP_ACQUIRED"
                               /\ \A k \in j + 1 .. Len(inbox) : inbox[k].id \notin Down
Fresh ==
    \/ LastRaised
    \/ /\ \A k \in 1 .. Len(inbox) : inbox[k].id \notin Down
       /\ \/ Firing("IP_ACQUIRED")
          \/ ~DownFired /\ LastIs("IP_ACQUIRED")

(* How often iotk_start may still be called before the Wi-Fi connects      *)
(* again: now if the flag is clear and an address is or may come on its    *)
(* way, and once after each disconnect that is on its way but the last,    *)
(* and after that one under the same condition.                            *)
Cleared == IF "IP_ACQUIRED" \in flags THEN 0 ELSE 1
Spent == IF assoc \/ Fresh THEN 0 ELSE 1
Owed == Cleared + Downs - Spent

(* No more starts are ahead than are due.                                  *)
StartInv == startsDue >= 0 /\ startsDue >= Owed

(* A set of positions moved one place to the front loses the first.        *)
LEMMA Shifted ==
    ASSUME NEW m \in Nat, NEW P \in SUBSET (1 .. m)
    PROVE  /\ Cardinality(P) \in Nat
           /\ Cardinality({i \in 1 .. m - 1 : i + 1 \in P}) =
                Cardinality(P) - (IF 1 \in P THEN 1 ELSE 0)
  <1> DEFINE R == P \ {1}
             Q == {i \in 1 .. m - 1 : i + 1 \in P}
             f == [i \in R |-> i - 1]
  <1>1. IsFiniteSet(1 .. m)
    BY FS_Interval
  <1>2. IsFiniteSet(P)
    BY <1>1, FS_Subset
  <1>3. IsFiniteSet(R) /\ Cardinality(R) = (IF 1 \in P THEN Cardinality(P) - 1 ELSE Cardinality(P))
    BY <1>2, FS_RemoveElement
  <1>4. f \in [R -> Q]
    OBVIOUS
  <1>5. f \in Surjection(R, Q)
    <2>1. ASSUME NEW q \in Q PROVE \E r \in R : f[r] = q
      <3>1. q + 1 \in R /\ f[q + 1] = q
        OBVIOUS
      <3> QED
        BY <3>1
    <2> QED
      BY <1>4, <2>1 DEF Surjection
  <1>6. f \in Injection(R, Q)
    BY <1>4 DEF Injection, IsInjective
  <1>7. Cardinality(Q) = Cardinality(R)
    BY <1>3, <1>5, <1>6, FS_Surjection
  <1>8. Cardinality(P) \in Nat
    BY <1>2, FS_CardinalityType
  <1> QED
    BY <1>3, <1>7, <1>8

(* A place after the last one makes it one more.                           *)
LEMMA Lengthened ==
    ASSUME NEW m \in Nat, NEW P \in SUBSET (1 .. m)
    PROVE  Cardinality(P) \in Nat /\ Cardinality(P \cup {m + 1}) = Cardinality(P) + 1
  <1>1. IsFiniteSet(1 .. m)
    BY FS_Interval
  <1>2. IsFiniteSet(P)
    BY <1>1, FS_Subset
  <1>3. m + 1 \notin P
    OBVIOUS
  <1> QED
    BY <1>2, <1>3, FS_AddElement, FS_CardinalityType

(* The counts are natural numbers; a disconnect waiting is counted.        *)
LEMMA DownsTypes ==
    ASSUME TypeInv
    PROVE  /\ Cardinality(DownsSpawned) \in Nat /\ Cardinality(DownsRaised) \in Nat
           /\ Downs \in Nat /\ Cleared \in 0 .. 1 /\ Spent \in 0 .. 1 /\ Owed \in Int
           /\ DownsSpawned # {} => Cardinality(DownsSpawned) >= 1
           /\ DownsRaised # {} => Cardinality(DownsRaised) >= 1
  <1>1. /\ Len(spawnq) \in Nat /\ Len(inbox) \in Nat
        /\ DownsSpawned \in SUBSET (1 .. Len(spawnq)) /\ DownsRaised \in SUBSET (1 .. Len(inbox))
    BY DEF TypeInv, DownsSpawned, DownsRaised
  <1>2. Cardinality(DownsSpawned) \in Nat /\ Cardinality(DownsRaised) \in Nat
    BY <1>1, Lengthened
  <1>3. IsFiniteSet(1 .. Len(spawnq)) /\ IsFiniteSet(1 .. Len(inbox))
    BY <1>1, FS_Interval
  <1>4. IsFiniteSet(DownsSpawned) /\ IsFiniteSet(DownsRaised)
    BY <1>1, <1>3, FS_Subset
  <1>5. /\ Cardinality(DownsSpawned) = 0 => DownsSpawned = {}
        /\ Cardinality(DownsRaised) = 0 => DownsRaised = {}
    BY <1>4, FS_EmptySet
  <1>6. Cleared \in 0 .. 1 /\ Spent \in 0 .. 1
    BY DEF Cleared, Spent
  <1>7. Downs \in Nat
    BY <1>2 DEF Downs
  <1> QED
    BY <1>2, <1>5, <1>6, <1>7 DEF Owed

(* An event raised.                                                        *)
LEMMA StartsRaised ==
    ASSUME TypeInv, NEW e \in Raised, inbox' = Append(inbox, e), UNCHANGED <<drv, ev, spawnq>>
    PROVE  /\ Downs' = Downs + (IF e.id \in Down THEN 1 ELSE 0)
           /\ Fresh' <=> e.id = "IP_ACQUIRED" \/ (e.id \notin Down /\ Fresh)
  <1>1. /\ Len(inbox) \in Nat /\ Len(inbox') = Len(inbox) + 1
        /\ \A i \in 1 .. Len(inbox) : inbox'[i] = inbox[i]
        /\ inbox'[Len(inbox) + 1] = e
    BY Appended
  <1>2. /\ DownsRaised \in SUBSET (1 .. Len(inbox))
        /\ DownsRaised' = IF e.id \in Down THEN DownsRaised \cup {Len(inbox) + 1} ELSE DownsRaised
    BY <1>1 DEF DownsRaised
  <1>3. Cardinality(DownsRaised') = Cardinality(DownsRaised) + (IF e.id \in Down THEN 1 ELSE 0)
    <2>1. CASE e.id \in Down
      BY <1>1, <1>2, <2>1, Lengthened
    <2>2. CASE e.id \notin Down
      BY <1>1, <1>2, <2>2, DownsTypes
    <2> QED
      BY <2>1, <2>2
  <1>4. DownsSpawned' = DownsSpawned /\ (DownFired' <=> DownFired)
    BY DEF DownsSpawned, DownFired
  <1>5. Downs' = Downs + (IF e.id \in Down THEN 1 ELSE 0)
    <2>1. Cardinality(DownsSpawned) \in Nat /\ Cardinality(DownsRaised) \in Nat
      BY DownsTypes
    <2>2. CASE DownFired
      BY <1>3, <1>4, <2>1, <2>2 DEF Downs
    <2>3. CASE ~DownFired
      BY <1>3, <1>4, <2>1, <2>3 DEF Downs
    <2> QED
      BY <2>2, <2>3
  <1>6. LastRaised' <=> e.id = "IP_ACQUIRED" \/ (e.id \notin Down /\ LastRaised)
    <2>1. CASE e.id = "IP_ACQUIRED"
      <3>1. /\ Len(inbox') \in 1 .. Len(inbox') /\ inbox'[Len(inbox')].id = "IP_ACQUIRED"
            /\ \A k \in Len(inbox') + 1 .. Len(inbox') : FALSE
        BY <1>1, <2>1
      <3> QED
        BY <2>1, <3>1 DEF LastRaised
    <2>2. ASSUME e.id # "IP_ACQUIRED", NEW j \in 1 .. Len(inbox'), inbox'[j].id = "IP_ACQUIRED",
                 \A k \in j + 1 .. Len(inbox') : inbox'[k].id \notin Down
          PROVE  e.id \notin Down /\ LastRaised
      <3>1. j \in 1 .. Len(inbox) /\ inbox[j].id = "IP_ACQUIRED"
        BY <1>1, <2>2
      <3>2. \A k \in j + 1 .. Len(inbox) : inbox[k].id \notin Down
        BY <1>1, <2>2, <3>1
      <3>3. e.id \notin Down
        BY <1>1, <2>2, <3>1
      <3> QED
        BY <3>1, <3>2, <3>3 DEF LastRaised
    <2>3. ASSUME e.id \notin Down, NEW j \in 1 .. Len(inbox), inbox[j].id = "IP_ACQUIRED",
                 \A k \in j + 1 .. Len(inbox) : inbox[k].id \notin Down
          PROVE  LastRaised'
      <3>1. j \in 1 .. Len(inbox') /\ inbox'[j].id = "IP_ACQUIRED"
        BY <1>1, <2>3
      <3>2. \A k \in j + 1 .. Len(inbox') : inbox'[k].id \notin Down
        BY <1>1, <2>3
      <3> QED
        BY <3>1, <3>2 DEF LastRaised
    <2> QED
      BY <2>1, <2>2, <2>3 DEF LastRaised
  <1>7. (\A k \in 1 .. Len(inbox') : inbox'[k].id \notin Down)
        <=> e.id \notin Down /\ \A k \in 1 .. Len(inbox) : inbox[k].id \notin Down
    BY <1>1
  <1>8. (Firing("IP_ACQUIRED")' <=> Firing("IP_ACQUIRED")) /\ (LastIs("IP_ACQUIRED")' <=> LastIs("IP_ACQUIRED"))
    BY DEF Firing, LastIs
  <1> QED
    BY <1>4, <1>5, <1>6, <1>7, <1>8 DEF Fresh, Down

(* An event taken in hand.                                                 *)
LEMMA StartsTaken ==
    ASSUME TypeInv, NEW ids, Take(ids), UNCHANGED spawnq
    PROVE  Downs' = Downs /\ (Fresh' <=> Fresh)
  <1>1. /\ drv = "idle" /\ drv' = "fire" /\ ev' = inbox[1]
        /\ Len(inbox) \in Nat /\ Len(inbox) >= 1 /\ Len(inbox') = Len(inbox) - 1
        /\ \A i \in 1 .. Len(inbox') : inbox'[i] = inbox[i + 1]
    BY TakeShifts
  <1>2. /\ DownsRaised \in SUBSET (1 .. Len(inbox))
        /\ DownsRaised' = {i \in 1 .. Len(inbox) - 1 : i + 1 \in DownsRaised}
        /\ 1 \in DownsRaised <=> inbox[1].id \in Down
    BY <1>1 DEF DownsRaised
  <1>3. Cardinality(DownsRaised') = Cardinality(DownsRaised) - (IF inbox[1].id \in Down THEN 1 ELSE 0)
    BY <1>1, <1>2, Shifted
  <1>4. DownsSpawned' = DownsSpawned /\ ~DownFired /\ (DownFired' <=> inbox[1].id \in Down)
    BY <1>1 DEF DownsSpawned, DownFired
  <1>5. Downs' = Downs
    BY <1>3, <1>4, DownsTypes DEF Downs
  <1>6. /\ ~Firing("IP_ACQUIRED") /\ (Firing("IP_ACQUIRED")' <=> inbox[1].id = "IP_ACQUIRED")
        /\ LastIs("IP_ACQUIRED")' <=> LastIs("IP_ACQUIRED")
    BY <1>1 DEF Firing, LastIs
  <1> DEFINE Calm == \A k \in 1 .. Len(inbox) : inbox[k].id \notin Down
  <1>7. \A k \in 2 .. Len(inbox) : k - 1 \in 1 .. Len(inbox') /\ inbox[k] = inbox'[k - 1]
    BY <1>1
  <1>8. Calm <=> inbox[1].id \notin Down /\ Calm'
    <2>1. Calm => inbox[1].id \notin Down /\ Calm'
      BY <1>1
    <2>2. ASSUME inbox[1].id \notin Down, Calm', NEW k \in 1 .. Len(inbox)
          PROVE  inbox[k].id \notin Down
      BY <1>1, <1>7, <2>2
    <2> QED
      BY <2>1, <2>2
  <1>9. LastRaised <=> LastRaised' \/ (inbox[1].id = "IP_ACQUIRED" /\ Calm')
    <2>1. ASSUME NEW j \in 1 .. Len(inbox), inbox[j].id = "IP_ACQUIRED",
                 \A k \in j + 1 .. Len(inbox) : inbox[k].id \notin Down
          PROVE  LastRaised' \/ (inbox[1].id = "IP_ACQUIRED" /\ Calm')
      <3>1. CASE j = 1
        BY <1>1, <2>1, <3>1
      <3>2. CASE j # 1
        <4>1. j - 1 \in 1 .. Len(inbox') /\ inbox'[j - 1].id = "IP_ACQUIRED"
          BY <1>1, <1>7, <2>1, <3>2
        <4>2. \A k \in (j - 1) + 1 .. Len(inbox') : inbox'[k].id \notin Down
          BY <1>1, <2>1, <3>2
        <4> QED
          BY <4>1, <4>2 DEF LastRaised
      <3> QED
        BY <3>1, <3>2
    <2>2. ASSUME NEW j \in 1 .. Len(inbox'), inbox'[j].id = "IP_ACQUIRED",
                 \A k \in j + 1 .. Len(inbox') : inbox'[k].id \notin Down
          PROVE  LastRaised
      <3>1. j + 1 \in 1 .. Len(inbox) /\ inbox[j + 1].id = "IP_ACQUIRED"
        BY <1>1, <2>2
      <3>2. \A k \in (j + 1) + 1 .. Len(inbox) : k - 1 \in j + 1 .. Len(inbox') /\ inbox[k] = inbox'[k - 1]
        BY <1>1, <1>7
      <3>3. \A k \in (j + 1) + 1 .. Len(inbox) : inbox[k].id \notin Down
        BY <2>2, <3>2
      <3> QED
        BY <3>1, <3>3 DEF LastRaised
    <2>3. ASSUME inbox[1].id = "IP_ACQUIRED", Calm'
          PROVE  LastRaised
      <3>1. 1 \in 1 .. Len(inbox) /\ \A k \in 1 + 1 .. Len(inbox) : inbox[k].id \notin Down
        BY <1>1, <1>7, <2>3
      <3> QED
        BY <2>3, <3>1 DEF LastRaised
    <2> QED
      BY <2>1, <2>2, <2>3 DEF LastRaised
  <1> HIDE DEF Calm
  <1>10. /\ Fresh <=> LastRaised \/ (Calm /\ (Firing("IP_ACQUIRED") \/ (~DownFired /\ LastIs("IP_ACQUIRED"))))
         /\ Fresh' <=> \/ LastRaised'
                       \/ Calm' /\ (Firing("IP_ACQUIRED")' \/ (~DownFired' /\ LastIs("IP_ACQUIRED")'))
    BY DEF Fresh, Calm
  <1> QED
    BY <1>4, <1>5, <1>6, <1>8, <1>9, <1>10 DEF Down

(* An event passed on, or lost.                                            *)
LEMMA StartsFired ==
    ASSUME TypeInv, EventCallback
    PROVE  Owed' \in Int /\ Owed' <= Owed
  <1>1. /\ drv = "fire" /\ drv' # "fire" /\ ev.id \in Kinds
        /\ UNCHANGED <<inbox, flags, assoc>>
    BY RaisedIds DEF EventCallback, Fire, nwpState, appState, TypeInv
  <1>2. /\ DownsRaised' = DownsRaised /\ ~DownFired' /\ (DownFired <=> ev.id \in Down)
        /\ (LastRaised' <=> LastRaised) /\ Cleared' = Cleared
        /\ (Firing("IP_ACQUIRED") <=> ev.id = "IP_ACQUIRED") /\ ~Firing("IP_ACQUIRED")'
    BY <1>1 DEF DownsRaised, DownFired, LastRaised, Firing, Cleared
  <1> DEFINE Calm == \A k \in 1 .. Len(inbox) : inbox[k].id \notin Down
  <1>3. Calm' <=> Calm
    BY <1>1
  <1> HIDE DEF Calm
  <1>4. /\ Fresh <=> LastRaised \/ (Calm /\ (Firing("IP_ACQUIRED") \/ (~DownFired /\ LastIs("IP_ACQUIRED"))))
        /\ Fresh' <=> \/ LastRaised'
                      \/ Calm' /\ (Firing("IP_ACQUIRED")' \/ (~DownFired' /\ LastIs("IP_ACQUIRED")'))
    BY DEF Fresh, Calm
  <1>5. CASE spawnq' = Append(spawnq, ev.id)
    <2>1. /\ Len(spawnq) \in Nat /\ Len(spawnq') = Len(spawnq) + 1
          /\ \A i \in 1 .. Len(spawnq) : spawnq'[i] = spawnq[i]
          /\ spawnq'[Len(spawnq) + 1] = ev.id
      BY <1>5 DEF TypeInv
    <2>2. /\ DownsSpawned \in SUBSET (1 .. Len(spawnq))
          /\ DownsSpawned' = IF ev.id \in Down THEN DownsSpawned \cup {Len(spawnq) + 1} ELSE DownsSpawned
      BY <2>1 DEF DownsSpawned
    <2>3. Cardinality(DownsSpawned') = Cardinality(DownsSpawned) + (IF ev.id \in Down THEN 1 ELSE 0)
      <3>1. CASE ev.id \in Down
        BY <2>1, <2>2, <3>1, Lengthened
      <3>2. CASE ev.id \notin Down
        BY <2>1, <2>2, <3>2, DownsTypes
      <3> QED
        BY <3>1, <3>2
    <2>4. Downs' = Downs
      BY <1>2, <2>3, DownsTypes DEF Downs
    <2>5. LastIs("IP_ACQUIRED")' <=> ev.id = "IP_ACQUIRED" \/ (ev.id \notin Down /\ LastIs("IP_ACQUIRED"))
      BY <1>1, <1>5, PassedOn DEF Sources
    <2>6. Fresh' <=> Fresh
      BY <1>2, <1>3, <1>4, <2>5 DEF Down
    <2>7. Spent' = Spent
      BY <1>1, <2>6 DEF Spent
    <2> QED
      BY <1>2, <2>4, <2>7, DownsTypes DEF Owed
  <1>6. CASE spawnq' = spawnq
    <2>1. DownsSpawned' = DownsSpawned /\ (LastIs("IP_ACQUIRED")' <=> LastIs("IP_ACQUIRED"))
      BY <1>6 DEF DownsSpawned, LastIs
    <2>2. Downs' = Downs - (IF ev.id \in Down THEN 1 ELSE 0)
      BY <1>2, <2>1, DownsTypes DEF Downs
    <2>3. ev.id \notin Down => (Fresh' => Fresh)
      BY <1>2, <1>3, <1>4, <2>1
    <2>4. Spent \in 0 .. 1 /\ Spent' \in 0 .. 1 /\ (ev.id \notin Down => Spent' >= Spent)
      BY <1>1, <2>3 DEF Spent
    <2> QED
      BY <1>2, <2>2, <2>4, DownsTypes DEF Owed
  <1> QED
    BY <1>5, <1>6 DEF EventCallback, NoDelegate, NoMemory, Spawned, NotSpawned, queueState

(* A call executed.                                                        *)
LEMMA StartsExecuted ==
    ASSUME TypeInv, RunSpawned
    PROVE  /\ spawnq[1] = Head(spawnq)
           /\ Downs' = Downs - (IF spawnq[1] \in Down THEN 1 ELSE 0)
           /\ spawnq[1] # "IP_ACQUIRED" => Spent' = Spent
           /\ spawnq[1] = "IP_ACQUIRED" => Spent' >= Spent /\ Downs >= Spent
  <1>1. /\ Len(spawnq) \in Nat /\ Len(spawnq) >= 1 /\ Len(spawnq') = Len(spawnq) - 1
        /\ \A i \in 1 .. Len(spawnq') : spawnq'[i] = spawnq[i + 1]
        /\ spawnq # << >> /\ spawnq' = Tail(spawnq)
    BY DEF RunSpawned, TypeInv
  <1>2. /\ DownsSpawned \in SUBSET (1 .. Len(spawnq))
        /\ DownsSpawned' = {i \in 1 .. Len(spawnq) - 1 : i + 1 \in DownsSpawned}
        /\ 1 \in DownsSpawned <=> spawnq[1] \in Down
    BY <1>1 DEF DownsSpawned
  <1>3. Cardinality(DownsSpawned') = Cardinality(DownsSpawned) - (IF spawnq[1] \in Down THEN 1 ELSE 0)
    BY <1>1, <1>2, Shifted
  <1>4. UNCHANGED <<inbox, assoc, drv, ev>>
    BY DEF RunSpawned, slVars, nwpState, drvState
  <1>5. /\ DownsRaised' = DownsRaised /\ (DownFired' <=> DownFired) /\ (LastRaised' <=> LastRaised)
        /\ Firing("IP_ACQUIRED")' <=> Firing("IP_ACQUIRED")
    BY <1>4 DEF DownsRaised, DownFired, LastRaised, Firing
  <1>6. Downs' = Downs - (IF spawnq[1] \in Down THEN 1 ELSE 0)
    BY <1>3, <1>5, DownsTypes DEF Downs
  <1>7. /\ spawnq[1] = Head(spawnq) /\ (NoDown <=> NoDown' /\ spawnq[1] \notin Down)
        /\ LastIs("IP_ACQUIRED") <=> LastIs("IP_ACQUIRED")' \/ (spawnq[1] = "IP_ACQUIRED" /\ NoDown')
    BY <1>1, Executed DEF Sources
  <1> DEFINE Calm == \A k \in 1 .. Len(inbox) : inbox[k].id \notin Down
  <1>8. Calm' <=> Calm
    BY <1>4
  <1>9. Downs = 0 => Calm /\ ~DownFired /\ NoDown
    <2>1. SUFFICES ASSUME Downs = 0 PROVE Calm /\ ~DownFired /\ NoDown
      OBVIOUS
    <2>2. ~DownFired /\ Cardinality(DownsSpawned) = 0 /\ Cardinality(DownsRaised) = 0
      <3>1. Cardinality(DownsSpawned) \in Nat /\ Cardinality(DownsRaised) \in Nat
        BY DownsTypes
      <3> QED
        BY <2>1, <3>1 DEF Downs
    <2>3. DownsSpawned = {} /\ DownsRaised = {}
      BY <2>2, DownsTypes
    <2> QED
      BY <2>2, <2>3 DEF DownsSpawned, DownsRaised, NoDown
  <1> HIDE DEF Calm
  <1>10. /\ Fresh <=> LastRaised \/ (Calm /\ (Firing("IP_ACQUIRED") \/ (~DownFired /\ LastIs("IP_ACQUIRED"))))
         /\ Fresh' <=> \/ LastRaised'
                       \/ Calm' /\ (Firing("IP_ACQUIRED")' \/ (~DownFired' /\ LastIs("IP_ACQUIRED")'))
    BY DEF Fresh, Calm
  <1>11. Fresh' => Fresh
    BY <1>5, <1>7, <1>8, <1>10
  <1>12. spawnq[1] # "IP_ACQUIRED" => (Fresh' <=> Fresh)
    BY <1>5, <1>7, <1>8, <1>10
  <1>13. spawnq[1] = "IP_ACQUIRED" /\ Downs = 0 => Fresh
    BY <1>7, <1>9, <1>10 DEF Down
  <1>14. /\ Spent' >= Spent /\ (spawnq[1] # "IP_ACQUIRED" => Spent' = Spent)
         /\ spawnq[1] = "IP_ACQUIRED" /\ Downs = 0 => Spent = 0
    BY <1>4, <1>11, <1>12, <1>13 DEF Spent
  <1> QED
    BY <1>6, <1>7, <1>14, DownsTypes

(* Initially no start is due and none can come.                            *)
LEMMA StartInvInit == Init => StartInv
  <1> SUFFICES ASSUME Init PROVE StartInv
    OBVIOUS
  <1>1. /\ inbox = << >> /\ spawnq = << >> /\ drv = "idle" /\ flags = {} /\ assoc = FALSE /\ startsDue = 0
    BY DEF Init, SlInit
  <1>2. DownsSpawned = {} /\ DownsRaised = {} /\ ~DownFired /\ ~Fresh
    <2>1. Len(inbox) = 0 /\ Len(spawnq) = 0
      BY <1>1
    <2> QED
      BY <1>1, <2>1 DEF DownsSpawned, DownsRaised, DownFired, Fresh, LastRaised, Firing, LastIs
  <1>3. Downs = 0 /\ Cleared = 1 /\ Spent = 1
    BY <1>1, <1>2, FS_EmptySet DEF Downs, Cleared, Spent
  <1> QED
    BY <1>1, <1>3 DEF StartInv, Owed

(* The Wi-Fi connects, leases and drops; the driver thread works on.       *)
LEMMA BackgroundStarts ==
    ASSUME TypeInv, StartInv, Background
    PROVE  StartInv'
  <1>1. /\ startsDue' = startsDue + (IF assoc' /\ ~assoc THEN 1 ELSE 0)
        /\ UNCHANGED <<flags, spawnq>> /\ startsDue \in Int /\ Cleared' = Cleared
    BY DEF Background, queueState, TypeInv, TypeOK, Cleared
  <1>2. CASE Nwp
    <2>1. UNCHANGED <<drv, ev>>
      BY <1>2, NwpRaises
    <2>2. PICK e \in Raised :
            /\ inbox' = Append(inbox, e)
            /\ \/ nwp = STA /\ e.id = "CONNECT" /\ assoc' = TRUE
               \/ assoc /\ e.id = "IP_ACQUIRED" /\ assoc' = assoc
               \/ assoc /\ e.id \in Down /\ assoc' = FALSE
               \/ nwp = STA /\ e.id \in {"CONNECT_FAILED", "OTHER"} /\ assoc' = assoc
               \/ nwp = AP /\ e.id \in {"AP_CLIENT", "OTHER"} /\ assoc' = assoc
      BY <1>2, NwpRaises
    <2>3. /\ Downs' = Downs + (IF e.id \in Down THEN 1 ELSE 0)
          /\ Fresh' <=> e.id = "IP_ACQUIRED" \/ (e.id \notin Down /\ Fresh)
      BY <1>1, <2>1, <2>2, StartsRaised
    <2>4. CASE e.id = "CONNECT"
      <3>1. e.id \notin Down /\ assoc' = TRUE /\ Downs \in Nat
        BY <2>2, <2>4, DownsTypes DEF Down
      <3>2. Downs' = Downs
        BY <2>3, <3>1
      <3>3. Spent' = 0 /\ Spent = (IF assoc \/ Fresh THEN 0 ELSE 1)
        BY <3>1 DEF Spent
      <3>4. startsDue' = startsDue + (IF assoc THEN 0 ELSE 1)
        BY <1>1, <3>1
      <3> QED
        BY <1>1, <3>2, <3>3, <3>4, DownsTypes DEF StartInv, Owed
    <2>5. CASE assoc /\ e.id \in Down /\ assoc' = FALSE
      <3>1. Downs' = Downs + 1 /\ ~Fresh'
        BY <2>3, <2>5 DEF Down
      <3>2. Spent = 0 /\ Spent' = 1
        BY <2>5, <3>1 DEF Spent
      <3> QED
        BY <1>1, <2>5, <3>1, <3>2, DownsTypes DEF StartInv, Owed
    <2>6. CASE assoc' = assoc /\ e.id \notin Down \cup {"CONNECT"} /\ (e.id = "IP_ACQUIRED" => assoc)
      <3>1. Downs' = Downs
        BY <2>3, <2>6, DownsTypes
      <3>2. assoc' \/ Fresh' <=> assoc \/ Fresh
        BY <2>3, <2>6, Zenon
      <3>3. Spent' = Spent
        BY <3>2 DEF Spent
      <3>4. startsDue' = startsDue + 0
        BY <1>1, <2>6
      <3> QED
        BY <1>1, <3>1, <3>3, <3>4, DownsTypes DEF StartInv, Owed
    <2> QED
      BY <2>2, <2>4, <2>5, <2>6 DEF Down
  <1>3. CASE Driver
    <2>1. assoc' = assoc
      BY <1>3 DEF Driver, HandleConnect, HandleDown, HandleApClient, HandleIpAcquired, HandleOther, Take,
                  ClearConnected, ClearIp, nwpState
    <2>2. Downs' = Downs /\ (Fresh' <=> Fresh)
      <3>1. ASSUME NEW ids, Take(ids) PROVE Downs' = Downs /\ (Fresh' <=> Fresh)
        BY <1>1, <3>1, StartsTaken
      <3>2. CASE ClearConnected \/ ClearIp
        <4>1. UNCHANGED <<inbox, spawnq>> /\ drv # "fire" /\ drv' # "fire"
          BY <1>1, <3>2 DEF ClearConnected, ClearIp, nwpState
        <4>2. /\ DownsSpawned' = DownsSpawned /\ DownsRaised' = DownsRaised /\ (DownFired' <=> DownFired)
          BY <4>1 DEF DownsSpawned, DownsRaised, DownFired
        <4>3. Fresh' <=> Fresh
          BY <4>1, <4>2 DEF Fresh, LastRaised, Firing, LastIs
        <4> QED
          BY <4>2, <4>3 DEF Downs
      <3> QED
        BY <1>3, <3>1, <3>2
           DEF Driver, HandleConnect, HandleDown, HandleApClient, HandleIpAcquired, HandleOther
    <2>3. Spent' = Spent
      BY <2>1, <2>2 DEF Spent
    <2> QED
      BY <1>1, <2>1, <2>2, <2>3, DownsTypes DEF StartInv, Owed
  <1> QED
    BY <1>2, <1>3 DEF Background

(* A reset of the Wi-Fi disconnects it; a stop forgets what it raised.     *)
LEMMA StartUpStarts ==
    ASSUME TypeInv, RoleInv, FollowInv, StartInv, StartUp
    PROVE  StartInv'
  <1>1. UNCHANGED <<flags, spawnq, startsDue>> /\ startsDue \in Int /\ Cleared' = Cleared
    BY DEF StartUp, queueState, appState, TypeInv, TypeOK, Cleared
  <1>2. ASSUME UNCHANGED <<inbox, drv, ev, assoc>>
        PROVE  StartInv'
    <2>1. DownsSpawned' = DownsSpawned /\ DownsRaised' = DownsRaised /\ (DownFired' <=> DownFired)
      BY <1>1, <1>2 DEF DownsSpawned, DownsRaised, DownFired
    <2>2. Fresh' <=> Fresh
      BY <1>1, <1>2, <2>1 DEF Fresh, LastRaised, Firing, LastIs
    <2>3. Downs' = Downs /\ Spent' = Spent
      BY <1>2, <2>1, <2>2 DEF Downs, Spent
    <2> QED
      BY <1>1, <2>3 DEF StartInv, Owed
  <1>3. CASE ResetToSta
    <2>1. CASE assoc /\ assoc' = FALSE /\ inbox' = Append(inbox, Event("USER_DISCONNECT"))
      <3>1. Event("USER_DISCONNECT") \in Raised /\ Event("USER_DISCONNECT").id = "USER_DISCONNECT"
        BY EventTypes DEF Kinds, Down, Event
      <3>2. UNCHANGED <<drv, ev>>
        BY <1>3 DEF ResetToSta, drvState
      <3>3. Downs' = Downs + 1 /\ ~Fresh'
        BY <1>1, <2>1, <3>1, <3>2, StartsRaised DEF Down
      <3>4. Spent = 0 /\ Spent' = 1
        BY <2>1, <3>3 DEF Spent
      <3> QED
        BY <1>1, <3>3, <3>4, DownsTypes DEF StartInv, Owed
    <2>2. CASE UNCHANGED <<assoc, inbox>>
      BY <1>2, <1>3, <2>2 DEF ResetToSta, drvState
    <2> QED
      BY <1>3, <2>1, <2>2 DEF ResetToSta
  <1>4. ASSUME At("stop", "delegate"), Stop
        PROVE  StartInv'
    <2>1. role # STOP /\ app = "stop"
      BY <1>4 DEF At, RoleInv
    <2>2. assoc' = FALSE /\ inbox' = << >> /\ drv' = "idle" /\ spawnq' = << >>
      BY <1>1, <1>4, <2>1 DEF Stop, slVars, slState, drvState, FollowInv, Ready
    <2>3. DownsSpawned' = {} /\ DownsRaised' = {} /\ ~DownFired' /\ ~Fresh'
      <3>1. Len(inbox') = 0 /\ Len(spawnq') = 0
        BY <2>2
      <3> QED
        BY <2>2, <3>1 DEF DownsSpawned, DownsRaised, DownFired, Fresh, LastRaised, Firing, LastIs
    <2>4. Downs' = 0 /\ Spent' = 1 /\ Cleared' \in 0 .. 1
      BY <1>1, <2>2, <2>3, FS_EmptySet, DownsTypes DEF Downs, Spent
    <2> QED
      BY <1>1, <2>4 DEF StartInv, Owed
  <1>5. CASE StartBegin \/ StartEnd \/ SetDelegate \/ UNCHANGED slVars
    BY <1>2, <1>5 DEF StartBegin, StartEnd, SetDelegate, slVars, nwpState, drvState
  <1> QED
    BY <1>3, <1>4, <1>5 DEF StartUp

(* The iotkit task: a start is counted when it clears a debt.              *)
LEMMA TaskStarts ==
    ASSUME TypeInv, StartInv, OnSlEvent
    PROVE  StartInv'
  <1>1. RunSpawned /\ startsDue \in Int
    BY DEF OnSlEvent, OnConnected, OnDisconnected, OnIpAcquired, OnIgnored, TypeInv, TypeOK
  <1>2. /\ spawnq[1] = Head(spawnq)
        /\ Downs' = Downs - (IF spawnq[1] \in Down THEN 1 ELSE 0)
        /\ spawnq[1] # "IP_ACQUIRED" => Spent' = Spent
        /\ spawnq[1] = "IP_ACQUIRED" => Spent' >= Spent /\ Downs >= Spent
    BY <1>1, StartsExecuted
  <1>3. Spent' \in 0 .. 1 /\ Cleared' \in 0 .. 1
    BY DEF Spent, Cleared
  <1>4. CASE OnConnected \/ OnIgnored
    <2>1. startsDue' = startsDue /\ Cleared' = Cleared /\ spawnq[1] \notin Down \cup {"IP_ACQUIRED"}
      BY <1>2, <1>4 DEF OnConnected, OnIgnored, appState, Cleared, Down
    <2> QED
      BY <1>1, <1>2, <2>1, DownsTypes DEF StartInv, Owed
  <1>5. CASE OnDisconnected
    <2>1. startsDue' = startsDue /\ spawnq[1] \in Down /\ spawnq[1] # "IP_ACQUIRED"
      BY <1>2, <1>5 DEF OnDisconnected, Down
    <2> QED
      BY <1>1, <1>2, <1>3, <2>1, DownsTypes DEF StartInv, Owed
  <1>6. CASE OnIpAcquired
    <2>1. spawnq[1] = "IP_ACQUIRED" /\ spawnq[1] \notin Down
      BY <1>2, <1>6 DEF OnIpAcquired, Down
    <2>2. CASE "IP_ACQUIRED" \in flags
      <3>1. startsDue' = startsDue /\ Cleared' = Cleared
        BY <1>6, <2>2 DEF OnIpAcquired, Cleared
      <3> QED
        BY <1>1, <1>2, <1>3, <2>1, <3>1, DownsTypes DEF StartInv, Owed
    <2>3. CASE "IP_ACQUIRED" \notin flags
      <3>1. startsDue' = startsDue - 1 /\ Cleared = 1 /\ Cleared' = 0
        BY <1>6, <2>3 DEF OnIpAcquired, Cleared
      <3> QED
        BY <1>1, <1>2, <1>3, <2>1, <3>1, DownsTypes DEF StartInv, Owed
    <2> QED
      BY <2>2, <2>3
  <1> QED
    BY <1>4, <1>5, <1>6 DEF OnSlEvent

(* Every step keeps it.                                                    *)
LEMMA StartInvStep == TypeInv /\ RoleInv /\ FollowInv /\ StartInv /\ [Next]_vars => StartInv'
  <1> SUFFICES ASSUME TypeInv, RoleInv, FollowInv, StartInv, [Next]_vars PROVE StartInv'
    OBVIOUS
  <1>1. CASE EventCallback
    <2>1. startsDue' = startsDue /\ startsDue \in Int
      BY <1>1 DEF EventCallback, appState, TypeInv, TypeOK
    <2>2. Owed' <= Owed /\ Owed \in Int /\ Owed' \in Int
      BY <1>1, StartsFired, DownsTypes
    <2> QED
      BY <2>1, <2>2 DEF StartInv
  <1>2. ASSUME OnIotkEvent \/ Profiles \/ UNCHANGED vars
        PROVE  StartInv'
    <2>1. UNCHANGED <<inbox, spawnq, drv, ev, assoc>> /\ startsDue \in Int
      BY <1>2 DEF OnIotkEvent, OnIotkConnected, OnLoginAck, OnIotkDisconnected, ServerEvent, Profiles, vars,
                  slVars, nwpState, drvState, queueState, TypeInv, TypeOK
    <2>2. DownsSpawned' = DownsSpawned /\ DownsRaised' = DownsRaised /\ (DownFired' <=> DownFired)
      BY <2>1 DEF DownsSpawned, DownsRaised, DownFired
    <2>3. Fresh' <=> Fresh
      BY <2>1, <2>2 DEF Fresh, LastRaised, Firing, LastIs
    <2>4. Downs' = Downs /\ Spent' = Spent
      BY <2>1, <2>2, <2>3 DEF Downs, Spent
    <2>5. startsDue' >= startsDue /\ Cleared' <= Cleared + (startsDue' - startsDue) /\ startsDue' \in Int
      <3>1. CASE OnIotkDisconnected
        BY <2>1, <3>1 DEF OnIotkDisconnected, Cleared
      <3>2. CASE OnIotkConnected \/ OnLoginAck \/ Profiles \/ UNCHANGED vars
        <4>1. startsDue' = startsDue /\ ("IP_ACQUIRED" \in flags' <=> "IP_ACQUIRED" \in flags)
          BY <3>2 DEF OnIotkConnected, OnLoginAck, Profiles, vars, appState
        <4> QED
          BY <2>1, <4>1 DEF Cleared
      <3> QED
        BY <1>2, <3>1, <3>2 DEF OnIotkEvent
    <2>6. Cleared' \in 0 .. 1
      BY DEF Cleared
    <2> QED
      BY <2>1, <2>4, <2>5, <2>6, DownsTypes DEF StartInv, Owed
  <1> QED
    BY <1>1, <1>2, BackgroundStarts, StartUpStarts, TaskStarts DEF Next

(* For every length of the run, size of the spawn queue and order of the   *)
(* threads, iotk_start is called at most once for each connection of the   *)
(* Wi-Fi, and once more for each server disconnect that cleared the flag:  *)
(* no late, repeated or lost event makes up a start.                       *)
THEOREM StartsOnce == Spec => []StartsPerConnection
  <1>1. StartInv => StartsPerConnection
    BY DEF StartInv, StartsPerConnection
  <1> QED
    BY <1>1, TypeInit, TypeStep, RoleInit, RoleStep, IpInit, IpStep, FollowInit, FollowStep, StartInvInit,
       StartInvStep, PTL DEF Spec
-----------------------------------------------------------------------------
(* What LeaseStartsIotk rests on: a lease is never forgotten on its way.   *)

(* An address waits behind the first n events waiting; one waits to be     *)
(* executed.                                                               *)
Behind(n) == \E j \in n + 1 .. Len(inbox) : inbox[j].id = "IP_ACQUIRED"
Waiting == \E i \in 1 .. Len(spawnq) : spawnq[i] = "IP_ACQUIRED"

(* Where the news of a lease can be: not handled yet, with the delegate,   *)
(* with the iotkit task, arrived, or lost.                                 *)
OnItsWay ==
    \/ Behind(0) \/ Firing("IP_ACQUIRED") \/ Waiting
    \/ server # "off" \/ "missed" \in adrift

LeaseOnItsWay == leased => OnItsWay

(* The flag is set only when the core is started; and while there is a     *)
(* lease every disconnect, of an earlier one, has the address behind it,   *)
(* so that a delivered disconnect, after which no event counts as lost any *)
(* more, never is the last the application hears.                          *)
LeaseInv ==
    /\ server = "off" => "IP_ACQUIRED" \notin flags
    /\ leased =>
         /\ \A k \in 1 .. Len(inbox) : inbox[k].id \in Down => Behind(k)
         /\ drv = "fire" /\ ev.id \in Down => Behind(0)
         /\ OnItsWay

(* Initially there is no lease.                                            *)
LEMMA LeaseInit == Init => LeaseInv
  BY DEF Init, SlInit, LeaseInv

(* An address raised is behind all others; any other event leaves what is  *)
(* behind another where it is.                                             *)
LEMMA RaisedLease ==
    ASSUME TypeInv, LeaseInv, UNCHANGED <<drv, ev, flags, spawnq, adrift, server>>,
           NEW e \in Raised, inbox' = Append(inbox, e),
           \/ e.id = "IP_ACQUIRED"
           \/ e.id \notin Down /\ (leased' => leased)
           \/ ~leased'
    PROVE  LeaseInv'
  <1>1. /\ Len(inbox) \in Nat /\ Len(inbox') = Len(inbox) + 1
        /\ \A i \in 1 .. Len(inbox) : inbox'[i] = inbox[i]
        /\ inbox'[Len(inbox) + 1] = e
    BY Appended
  <1>2. \A n \in 0 .. Len(inbox) : Behind(n) => Behind(n)'
    BY <1>1 DEF Behind
  <1>3. CASE e.id = "IP_ACQUIRED"
    <2>1. \A n \in 0 .. Len(inbox) : Behind(n)'
      <3> SUFFICES ASSUME NEW n \in 0 .. Len(inbox) PROVE Behind(n)'
        OBVIOUS
      <3>1. Len(inbox) + 1 \in n + 1 .. Len(inbox')
        BY <1>1
      <3> QED
        BY <1>1, <1>3, <3>1 DEF Behind
    <2>2. \A k \in 1 .. Len(inbox') : inbox'[k].id \in Down => Behind(k)'
      BY <1>1, <1>3, <2>1 DEF Down
    <2>3. Behind(0)'
      BY <1>1, <2>1
    <2> QED
      BY <2>2, <2>3 DEF LeaseInv, OnItsWay
  <1>4. CASE e.id \notin Down /\ leased
    <2>1. \A k \in 1 .. Len(inbox') : inbox'[k].id \in Down => Behind(k)'
      BY <1>1, <1>2, <1>4 DEF LeaseInv
    <2>2. Behind(0) => Behind(0)'
      BY <1>1, <1>2
    <2>3. OnItsWay'
      BY <1>4, <2>2 DEF LeaseInv, OnItsWay, Firing, Waiting
    <2> QED
      BY <1>4, <2>1, <2>2, <2>3 DEF LeaseInv
  <1>5. CASE ~leased'
    BY <1>5 DEF LeaseInv
  <1> QED
    BY <1>3, <1>4, <1>5

(* The NWP takes a lease with an address, loses it with a disconnect.      *)
LEMMA NwpLeases ==
    ASSUME TypeInv, LeaseInv, Nwp, UNCHANGED <<flags, spawnq, adrift, server>>
    PROVE  LeaseInv'
  <1>1. UNCHANGED <<drv, ev>>
    BY NwpRaises
  <1>2. CASE NwpAssociate
    <2>1. PICK n \in Nets : inbox' = Append(inbox, Connect(n)) /\ leased' = leased
      BY <1>2 DEF NwpAssociate, Raise
    <2>2. Connect(n) \in Raised /\ Connect(n).id \notin Down
      BY EventTypes DEF Connect, Down
    <2> QED
      BY <1>1, <2>1, <2>2, RaisedLease
  <1>3. CASE NwpLease
    <2>1. Event("IP_ACQUIRED") \in Raised /\ Event("IP_ACQUIRED").id = "IP_ACQUIRED"
      BY EventTypes DEF Event, Kinds
    <2> QED
      BY <1>1, <1>3, <2>1, RaisedLease DEF NwpLease, Raise
  <1>4. CASE NwpDrop
    <2>1. Event("DISCONNECT") \in Raised /\ inbox' = Append(inbox, Event("DISCONNECT")) /\ ~leased'
      BY <1>4, EventTypes DEF NwpDrop, Raise, Kinds, Down
    <2> QED
      BY <1>1, <2>1, RaisedLease
  <1>5. CASE NwpReport
    <2>1. PICK id \in {"AP_CLIENT", "CONNECT_FAILED", "OTHER"} :
             inbox' = Append(inbox, Event(id)) /\ leased' = leased
      BY <1>5 DEF NwpReport, Raise
    <2>2. Event(id) \in Raised /\ Event(id).id \notin Down
      BY EventTypes DEF Event, Kinds, Down
    <2> QED
      BY <1>1, <2>1, <2>2, RaisedLease
  <1> QED
    BY <1>2, <1>3, <1>4, <1>5 DEF Nwp

(* The driver thread takes the oldest event in hand.                       *)
LEMMA TakenLease ==
    ASSUME TypeInv, LeaseInv, NEW ids, Take(ids), UNCHANGED <<flags, spawnq, adrift, server>>
    PROVE  LeaseInv'
  <1>1. /\ drv = "idle" /\ drv' = "fire" /\ ev' = inbox[1]
        /\ Len(inbox) \in Nat /\ Len(inbox) >= 1 /\ Len(inbox') = Len(inbox) - 1
        /\ \A i \in 1 .. Len(inbox') : inbox'[i] = inbox[i + 1]
    BY TakeShifts
  <1>2. ASSUME NEW n \in 1 .. Len(inbox), Behind(n)
        PROVE  Behind(n - 1)'
    <2>1. PICK j \in n + 1 .. Len(inbox) : inbox[j].id = "IP_ACQUIRED"
      BY <1>2 DEF Behind
    <2>2. j - 1 \in (n - 1) + 1 .. Len(inbox') /\ inbox'[j - 1] = inbox[j]
      BY <1>1, <2>1
    <2> QED
      BY <2>1, <2>2 DEF Behind
  <1>3. CASE ~leased
    BY <1>3 DEF LeaseInv, Take
  <1>4. CASE leased
    <2>1. ASSUME NEW k \in 1 .. Len(inbox'), inbox'[k].id \in Down
          PROVE  Behind(k)'
      <3>1. k + 1 \in 1 .. Len(inbox) /\ (k + 1) - 1 = k
        BY <1>1
      <3>2. Behind(k + 1)
        BY <1>1, <1>4, <2>1, <3>1 DEF LeaseInv
      <3>3. Behind((k + 1) - 1)'
        BY <1>2, <3>1, <3>2
      <3> QED
        BY <3>1, <3>3
    <2>2. ASSUME ev'.id \in Down
          PROVE  Behind(0)'
      <3>1. 1 \in 1 .. Len(inbox) /\ 1 - 1 = 0
        BY <1>1
      <3>2. Behind(1)
        BY <1>1, <1>4, <2>2, <3>1 DEF LeaseInv
      <3>3. Behind(1 - 1)'
        BY <1>2, <3>1, <3>2
      <3> QED
        BY <3>1, <3>3
    <2>3. ASSUME Behind(0)
          PROVE  OnItsWay'
      <3>1. PICK j \in 1 .. Len(inbox) : inbox[j].id = "IP_ACQUIRED"
        BY <2>3 DEF Behind
      <3>2. CASE j = 1
        BY <1>1, <3>1, <3>2 DEF OnItsWay, Firing
      <3>3. CASE j # 1
        <4>1. j - 1 \in 0 + 1 .. Len(inbox') /\ inbox'[j - 1].id = "IP_ACQUIRED"
          BY <1>1, <3>1, <3>3
        <4> QED
          BY <4>1 DEF OnItsWay, Behind
      <3> QED
        BY <3>2, <3>3
    <2>4. ASSUME Waiting \/ server # "off" \/ "missed" \in adrift
          PROVE  OnItsWay'
      BY <2>4 DEF OnItsWay, Waiting
    <2>5. OnItsWay'
      BY <1>1, <1>4, <2>3, <2>4 DEF LeaseInv, OnItsWay, Firing
    <2> QED
      BY <2>1, <2>2, <2>5 DEF LeaseInv
  <1> QED
    BY <1>3, <1>4

(* The delegate passes the address on, or it is lost; and a disconnect is  *)
(* passed on only with an address behind it.                               *)
LEMMA CallbackLease ==
    ASSUME TypeInv, LeaseInv, EventCallback
    PROVE  LeaseInv'
  <1>1. /\ drv = "fire" /\ drv' \in {"idle", "clear"}
        /\ UNCHANGED <<leased, inbox, ev, flags, server>>
    BY DEF EventCallback, Fire, nwpState, appState, coreState
  <1>2. \A n : Behind(n)' <=> Behind(n)
    BY <1>1 DEF Behind
  <1>3. CASE NoDelegate \/ NoMemory \/ NotSpawned
    <2>1. OnItsWay'
      BY <1>3 DEF NoDelegate, NoMemory, NotSpawned, Lost, OnItsWay
    <2> QED
      BY <1>1, <1>2, <2>1 DEF LeaseInv
  <1>4. CASE Spawned /\ leased
    <2>1. /\ spawnq' = Append(spawnq, ev.id)
          /\ adrift' = IF ev.id \in Down THEN adrift \ {"missed"} ELSE adrift
      BY <1>4 DEF Spawned
    <2>2. ev.id \in Kinds
      BY <1>1, RaisedIds DEF TypeInv
    <2>3. /\ Len(spawnq) \in Nat /\ Len(spawnq') = Len(spawnq) + 1
          /\ \A i \in 1 .. Len(spawnq) : spawnq'[i] = spawnq[i]
          /\ spawnq'[Len(spawnq) + 1] = ev.id
      BY <2>1, <2>2 DEF TypeInv
    <2>4. CASE ev.id \in Down
      BY <1>1, <1>2, <1>4, <2>4 DEF LeaseInv, OnItsWay
    <2>5. CASE ev.id = "IP_ACQUIRED"
      <3>1. Waiting'
        BY <2>3, <2>5 DEF Waiting
      <3> QED
        BY <1>1, <1>2, <3>1 DEF LeaseInv, OnItsWay
    <2>6. CASE ev.id \notin Down \cup {"IP_ACQUIRED"}
      <3>1. Waiting => Waiting'
        BY <2>3 DEF Waiting
      <3>2. ~Firing("IP_ACQUIRED") /\ adrift' = adrift
        BY <2>1, <2>6 DEF Firing
      <3>3. OnItsWay'
        BY <1>1, <1>2, <1>4, <3>1, <3>2 DEF LeaseInv, OnItsWay
      <3> QED
        BY <1>1, <1>2, <3>3 DEF LeaseInv
    <2> QED
      BY <2>4, <2>5, <2>6
  <1>5. CASE ~leased
    BY <1>1, <1>5 DEF LeaseInv
  <1> QED
    BY <1>3, <1>4, <1>5 DEF EventCallback

(* The iotkit task executes the call: the flag is set and the core started *)
(* together.                                                               *)
LEMMA TaskLease ==
    ASSUME TypeInv, LeaseInv, OnSlEvent \/ OnIotkEvent
    PROVE  LeaseInv'
  <1>1. UNCHANGED <<leased, inbox, drv, ev>>
    BY DEF OnSlEvent, OnIotkEvent, OnConnected, OnDisconnected, OnIpAcquired, OnIgnored, OnIotkConnected,
           OnLoginAck, OnIotkDisconnected, RunSpawned, ServerEvent, slVars, nwpState, drvState
  <1>2. (\A n : Behind(n)' <=> Behind(n)) /\ (Firing("IP_ACQUIRED")' <=> Firing("IP_ACQUIRED"))
    BY <1>1 DEF Behind, Firing
  <1>3. CASE server' # "off"
    BY <1>1, <1>2, <1>3 DEF LeaseInv, OnItsWay
  <1>4. CASE OnConnected \/ OnDisconnected \/ OnIgnored
    <2>1. /\ spawnq # << >> /\ spawnq' = Tail(spawnq) /\ Head(spawnq) # "IP_ACQUIRED"
          /\ server' = server /\ ("missed" \in adrift' <=> "missed" \in adrift)
          /\ "IP_ACQUIRED" \notin flags => "IP_ACQUIRED" \notin flags'
      BY <1>4 DEF OnConnected, OnDisconnected, OnIgnored, RunSpawned, coreState, appState, Down
    <2>2. /\ Len(spawnq) \in Nat /\ Len(spawnq) >= 1 /\ Len(spawnq') = Len(spawnq) - 1
          /\ \A i \in 1 .. Len(spawnq') : spawnq'[i] = spawnq[i + 1]
          /\ Head(spawnq) = spawnq[1]
      BY <2>1 DEF TypeInv
    <2>3. Waiting => Waiting'
      <3> SUFFICES ASSUME NEW i \in 1 .. Len(spawnq), spawnq[i] = "IP_ACQUIRED" PROVE Waiting'
        BY DEF Waiting
      <3>1. i - 1 \in 1 .. Len(spawnq') /\ spawnq'[i - 1] = "IP_ACQUIRED"
        BY <2>1, <2>2
      <3> QED
        BY <3>1 DEF Waiting
    <2>4. OnItsWay => OnItsWay'
      BY <1>2, <2>1, <2>3 DEF OnItsWay
    <2> QED
      BY <1>1, <1>2, <2>1, <2>4 DEF LeaseInv
  <1>5. CASE OnIpAcquired
    <2>1. CASE "IP_ACQUIRED" \notin flags
      BY <1>3, <1>5, <2>1 DEF OnIpAcquired
    <2>2. CASE "IP_ACQUIRED" \in flags
      BY <1>3, <1>5, <2>2 DEF OnIpAcquired, LeaseInv
    <2> QED
      BY <2>1, <2>2
  <1>6. CASE OnIotkEvent
    <2>1. server' # "off"
      BY <1>6 DEF OnIotkEvent, OnIotkConnected, OnLoginAck, OnIotkDisconnected, ServerEvent
    <2> QED
      BY <1>3, <2>1
  <1> QED
    BY <1>4, <1>5, <1>6 DEF OnSlEvent

(* A reset or a stop that takes events away takes the lease too.           *)
LEMMA StartUpLease ==
    ASSUME TypeInv, RoleInv, LeaseInv, StartUp
    PROVE  LeaseInv'
  <1>1. UNCHANGED <<flags, spawnq, server>>
    BY DEF StartUp, appState, queueState, coreState
  <1>2. CASE ~leased'
    BY <1>1, <1>2 DEF LeaseInv
  <1>3. ASSUME UNCHANGED <<leased, inbox, drv, ev, adrift>>
        PROVE  LeaseInv'
    BY <1>1, <1>3 DEF LeaseInv, OnItsWay, Behind, Firing, Waiting
  <1>4. CASE app = "stop"
    <2>1. Stop /\ role # STOP
      BY <1>4 DEF StartUp, At, RoleInv
    <2>2. ~leased'
      BY <2>1 DEF Stop, slVars, slState
    <2> QED
      BY <1>2, <2>2
  <1>5. CASE app # "stop" /\ ResetToSta
    <2>1. CASE UNCHANGED <<assoc, leased, inbox>>
      BY <1>3, <1>5, <2>1 DEF StartUp, ResetToSta, drvState
    <2>2. CASE leased' = FALSE
      BY <1>2, <2>2
    <2> QED
      BY <1>5, <2>1, <2>2 DEF ResetToSta
  <1>6. CASE app # "stop" /\ (StartBegin \/ StartEnd \/ SetDelegate \/ UNCHANGED slVars)
    BY <1>3, <1>6 DEF StartUp, StartBegin, StartEnd, SetDelegate, slVars, slState, nwpState, drvState
  <1> QED
    BY <1>4, <1>5, <1>6 DEF StartUp, At

(* Every step keeps it.                                                    *)
LEMMA LeaseStep == TypeInv /\ RoleInv /\ LeaseInv /\ [Next]_vars => LeaseInv'
  <1> SUFFICES ASSUME TypeInv, RoleInv, LeaseInv, [Next]_vars PROVE LeaseInv'
    OBVIOUS
  <1>1. CASE Background /\ Nwp
    BY <1>1, NwpLeases DEF Background, appState, queueState, coreState
  <1>2. CASE Background /\ Driver
    <2>1. UNCHANGED <<flags, spawnq, adrift, server>>
      BY <1>2 DEF Background, appState, queueState, coreState
    <2>2. ASSUME NEW ids, Take(ids)
          PROVE  LeaseInv'
      BY <2>1, <2>2, TakenLease
    <2>3. CASE ClearConnected \/ ClearIp
      <3>1. drv # "fire" /\ drv' # "fire" /\ UNCHANGED <<leased, inbox>>
        BY <2>3 DEF ClearConnected, ClearIp, nwpState
      <3> QED
        BY <2>1, <3>1 DEF LeaseInv, OnItsWay, Behind, Firing, Waiting
    <2> QED
      BY <1>2, <2>2, <2>3 DEF Driver, HandleConnect, HandleDown, HandleApClient, HandleIpAcquired, HandleOther
  <1>3. CASE Profiles \/ UNCHANGED vars
    <2>1. UNCHANGED <<leased, inbox, drv, ev, flags, spawnq, adrift, server>>
      BY <1>3 DEF Profiles, vars, slVars, nwpState, drvState, appState, queueState, coreState
    <2> QED
      BY <2>1 DEF LeaseInv, OnItsWay, Behind, Firing, Waiting
  <1> QED
    BY <1>1, <1>2, <1>3, CallbackLease, TaskLease, StartUpLease DEF Next, Background

(* The safety half of LeaseStartsIotk: at every moment of a lease its news *)
(* is on its way to iotk_start, for every size of the spawn queue and any  *)
(* order of renewals, disconnects and threads; what the fairness of the    *)
(* two threads adds is that it moves on.  It is lost in no other way than  *)
(* the ones counted as missed.                                             *)
THEOREM LeaseNeverForgotten == Spec => []LeaseOnItsWay
  <1>1. LeaseInv => LeaseOnItsWay
    BY DEF LeaseInv, LeaseOnItsWay
  <1> QED
    BY <1>1, TypeInit, TypeStep, RoleInit, RoleStep, LeaseInit, LeaseStep, PTL DEF Spec
-----------------------------------------------------------------------------
(* What two comments of sl.c need in order to be true.                     *)

(* A start that succeeded is not undone before the profiles are asserted.  *)
StartedInv == app \in {"started1", "reset", "profiles"} => nwp # OFF

(* It holds initially.                                                     *)
LEMMA StartedInit == Init => StartedInv
  BY DEF Init, StartedInv

(* Only sl_stop stops the NWP, and it is called after the profiles.        *)
LEMMA StartedStep ==
    ASSUME ~StartMayFail
    PROVE  TypeInv /\ StartedInv /\ [Next]_vars => StartedInv'
  <1> SUFFICES ASSUME TypeInv, StartedInv, [Next]_vars PROVE StartedInv'
    OBVIOUS
  <1>1. CASE StartUp
    <2>1. CASE At("start1", "started1") /\ StartBegin
      <3>1. nwp' = nextMode /\ nextMode \in {STA, AP}
        BY <2>1 DEF StartBegin, TypeInv
      <3> QED
        BY <3>1 DEF StartedInv, STA, AP, OFF
    <2>2. CASE At("started1", "reset") /\ StartEnd
      BY <2>2 DEF At, StartEnd, nwpState, StartedInv
    <2>3. CASE At("reset", "profiles") /\ ResetToSta
      BY <2>3 DEF At, ResetToSta, StartedInv
    <2>4. CASE app' \in {"delegate", "start2", "started2", "init", "create", "loop"}
      BY <2>4 DEF StartedInv
    <2> QED
      BY <1>1, <2>1, <2>2, <2>3, <2>4 DEF StartUp, At
  <1>2. CASE Profiles
    BY <1>2 DEF Profiles, StartedInv
  <1>3. ASSUME EventCallback \/ OnSlEvent \/ OnIotkEvent \/ Background \/ UNCHANGED vars
        PROVE  StartedInv'
    <2>1. app' = app
      BY <1>3 DEF EventCallback, OnSlEvent, OnIotkEvent, OnConnected, OnDisconnected, OnIpAcquired, OnIgnored,
                  OnIotkConnected, OnLoginAck, OnIotkDisconnected, RunSpawned, ServerEvent, Background, vars
    <2>2. nwp' = nwp
      <3>1. CASE Nwp
        BY <3>1, NwpRaises
      <3>2. CASE Driver
        BY <3>2 DEF Driver, HandleConnect, HandleDown, HandleApClient, HandleIpAcquired, HandleOther, Take,
                    ClearConnected, ClearIp, nwpState
      <3> QED
        BY <1>3, <3>1, <3>2
           DEF EventCallback, Fire, OnSlEvent, OnIotkEvent, OnConnected, OnDisconnected, OnIpAcquired,
               OnIgnored, OnIotkConnected, OnLoginAck, OnIotkDisconnected, RunSpawned, ServerEvent,
               Background, vars, slVars, nwpState
    <2> QED
      BY <2>1, <2>2 DEF StartedInv
  <1> QED
    BY <1>1, <1>2, <1>3 DEF Next

(* sl.c:356, "make sure simplelink was started": true where sl_Start does  *)
(* not fail.  The run shows that the assertion does not make sure of it    *)
(* where it does.                                                          *)
THEOREM StartedForProfiles ==
    ASSUME ~StartMayFail
    PROVE  Spec => ProfilesNeedStart
  <1>1. StartedInv /\ [Next]_vars => [app = "profiles" /\ app' = "stop" => nwp # OFF]_vars
    BY DEF StartedInv
  <1> QED
    BY <1>1, StartedInit, StartedStep, TypeInit, TypeStep, PTL DEF Spec, ProfilesNeedStart

(* The bytes of the name are the new network's, but its end may be that of *)
(* a longer name.                                                          *)
SsidLeftover ==
    drv = "fire" /\ ev.id = "CONNECT" =>
        /\ ssid.net = ev.net
        /\ \/ ssid.end = SsidLen[ev.net]
           \/ \E n \in Nets : SsidLen[n] > SsidLen[ev.net] /\ ssid.end = SsidLen[n]

(* The buffer was filled to the length of some name, or never.             *)
SsidInv ==
    /\ ssid.end = 0 \/ \E n \in Nets : ssid.end = SsidLen[n]
    /\ SsidLeftover

(* It holds initially.                                                     *)
LEMMA SsidInit == Init => SsidInv
  BY DEF Init, SlInit, SsidInv, SsidLeftover

(* A name is copied over the one before it.                                *)
LEMMA SsidCopied ==
    ASSUME TypeInv, SsidInv, HandleConnect
    PROVE  SsidInv'
  <1>1. /\ ssid' = CopySsid(ev'.net) /\ drv' = "fire" /\ ev' \in Raised /\ ev'.id = "CONNECT"
    BY TakeShifts DEF HandleConnect
  <1>2. PICK m \in Nets : m = ev'.net
    BY <1>1, RaisedIds
  <1>3. SsidLen[m] \in Nat /\ SsidLen[m] > 0 /\ ssid.end \in Nat
    <2>1. SsidLen[m] \in 1 .. 32
      BY NetAssumption
    <2>2. ssid.end \in 0 .. 32
      BY DEF TypeInv, TypeOK
    <2> QED
      BY <2>1, <2>2
  <1>4. /\ ssid'.net = m
        /\ ssid'.end = IF SsidLen[m] > ssid.end THEN SsidLen[m] ELSE ssid.end
    BY <1>1, <1>2 DEF CopySsid
  <1>5. CASE SsidLen[m] > ssid.end \/ ssid.end = SsidLen[m]
    <2>1. ssid'.end = SsidLen[m]
      BY <1>3, <1>4, <1>5
    <2> QED
      BY <1>2, <1>4, <2>1 DEF SsidInv, SsidLeftover
  <1>6. CASE ssid.end > SsidLen[m]
    <2>1. PICK n \in Nets : ssid.end = SsidLen[n]
      BY <1>3, <1>6 DEF SsidInv
    <2>2. ssid'.end = SsidLen[n] /\ SsidLen[n] > SsidLen[m]
      BY <1>3, <1>4, <1>6, <2>1
    <2> QED
      BY <1>2, <1>4, <2>2 DEF SsidInv, SsidLeftover
  <1> QED
    BY <1>3, <1>5, <1>6

(* Every step keeps it.                                                    *)
LEMMA SsidStep == TypeInv /\ SsidInv /\ [Next]_vars => SsidInv'
  <1> SUFFICES ASSUME TypeInv, SsidInv, [Next]_vars PROVE SsidInv'
    OBVIOUS
  <1>1. ASSUME ssid' = ssid, drv' = "fire" => drv = "fire" /\ ev' = ev
        PROVE  SsidInv'
    BY <1>1 DEF SsidInv, SsidLeftover
  <1>2. ASSUME ssid' = ssid, ev'.id # "CONNECT"
        PROVE  SsidInv'
    BY <1>2 DEF SsidInv, SsidLeftover
  <1>3. CASE Driver
    <2>1. CASE HandleDown \/ HandleApClient \/ HandleIpAcquired \/ HandleOther
      <3>1. PICK ids \in {Down \cup {"CONNECT_FAILED"}, {"AP_CLIENT"}, {"IP_ACQUIRED"}, {"OTHER"}} :
               Take(ids) /\ ssid' = ssid
        BY <2>1 DEF HandleDown, HandleApClient, HandleIpAcquired, HandleOther, slState
      <3>2. ev'.id \in ids
        BY <3>1, TakeShifts
      <3>3. ev'.id # "CONNECT"
        BY <3>2 DEF Down
      <3> QED
        BY <1>2, <3>1, <3>3
    <2>2. CASE ClearConnected \/ ClearIp
      BY <1>1, <2>2 DEF ClearConnected, ClearIp
    <2> QED
      BY <1>3, <2>1, <2>2, SsidCopied DEF Driver
  <1>4. CASE Nwp
    BY <1>1, <1>4, NwpRaises
  <1>5. CASE StartUp
    BY <1>1, <1>5 DEF StartUp, At, StartBegin, StartEnd, ResetToSta, SetDelegate, Stop, slVars, slState, drvState
  <1>6. CASE EventCallback
    BY <1>1, <1>6 DEF EventCallback, Fire, slState
  <1>7. ASSUME Profiles \/ OnSlEvent \/ OnIotkEvent \/ UNCHANGED vars
        PROVE  SsidInv'
    BY <1>1, <1>7 DEF Profiles, OnSlEvent, OnIotkEvent, OnConnected, OnDisconnected, OnIpAcquired, OnIgnored,
                      OnIotkConnected, OnLoginAck, OnIotkDisconnected, RunSpawned, ServerEvent, vars,
                      slVars, slState, drvState
  <1> QED
    BY <1>3, <1>4, <1>5, <1>6, <1>7 DEF Next, Background

(* Exactly how wrong the name can be: its first bytes are those of the new *)
(* network, and if bytes follow them they are left over from a longer name *)
(* of a network in reach.                                                  *)
THEOREM SsidLeftovers == Spec => []SsidLeftover
  <1>1. SsidInv => SsidLeftover
    BY DEF SsidInv
  <1> QED
    BY <1>1, TypeInit, TypeStep, SsidInit, SsidStep, PTL DEF Spec

(* sl.c:970, "Copy new connection SSID": true where no name is shorter     *)
(* than another, and the run shows that it is not elsewhere.               *)
THEOREM EqualNamesAreNew ==
    ASSUME \A m, n \in Nets : SsidLen[m] = SsidLen[n]
    PROVE  Spec => []SsidIsNew
  <1>1. TypeInv /\ SsidInv => SsidIsNew
    <2> SUFFICES ASSUME TypeInv, SsidInv, drv = "fire", ev.id = "CONNECT"
                 PROVE  ssid = [net |-> ev.net, end |-> SsidLen[ev.net]]
      BY DEF SsidIsNew
    <2>1. ev.net \in Nets
      BY RaisedIds DEF TypeInv
    <2>2. SsidLen[ev.net] \in Nat
      BY <2>1, NetAssumption
    <2>3. \A n \in Nets : ~(SsidLen[n] > SsidLen[ev.net])
      BY <2>1, <2>2
    <2>4. ssid.net = ev.net /\ ssid.end = SsidLen[ev.net]
      BY <2>3 DEF SsidInv, SsidLeftover
    <2>5. ssid \in [net : Nets \cup {"none"}, end : 0 .. 32]
      BY DEF TypeInv, TypeOK
    <2> QED
      BY <2>4, <2>5
  <1> QED
    BY <1>1, TypeInit, TypeStep, SsidInit, SsidStep, PTL DEF Spec
=============================================================================
