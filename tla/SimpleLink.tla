----------------------------- MODULE SimpleLink -----------------------------
(***************************************************************************)
(* examples/doorbell/sl.c: the application's record of the Wi-Fi network   *)
(* processor (NWP), written by two threads.  The application thread calls  *)
(* sl_start, sl_stop and sl_reset; the driver thread runs the event        *)
(* handlers, each of which fires the application's delegate in the middle  *)
(* of its work.                                                            *)
(*                                                                         *)
(* The NWP and its driver library are external: they are modelled from the *)
(* calls sl.c makes and the events it handles.  device_ip and gateway_ip   *)
(* are always written one after the other and compared only with the       *)
(* invalid address, never with each other, so ip stands for either of      *)
(* them, and their two stores are one step; dns_ip, ap_client_ip and bssid *)
(* are read by no property and are left out.                               *)
(***************************************************************************)
EXTENDS Integers, Sequences

CONSTANTS
    Nets,           \* Wi-Fi networks in reach
    SsidLen,        \* length of each network's name
    MaxEvents,      \* bound: events the NWP raises
    StartMayFail    \* may sl_Start fail

ASSUME NetAssumption ==
    /\ SsidLen \in [Nets -> 1 .. 32]            \* SL_SSID_LEN_MAX
    /\ MaxEvents \in Nat
    /\ StartMayFail \in BOOLEAN

VARIABLES
    \* struct SL_STATE
    role, connected, ip, delegate,
    ssid,           \* the name's buffer: whose bytes come first, where the first NUL is
    \* the NWP (external)
    nwp,            \* OFF, or the role it runs in
    nextMode,       \* the role it takes at the next start
    assoc, leased,  \* it is associated, it has an address
    inbox,          \* events raised and not yet handled, in order
    raised,         \* number of events raised
    \* the driver thread
    drv,            \* "idle", "fire" (about to call the delegate), "clear", "clear_ip"
    ev              \* the event it handles

slState == <<role, connected, ip, ssid>>
nwpState == <<nwp, nextMode, assoc, leased, inbox, raised>>
drvState == <<drv, ev>>
slVars == <<slState, delegate, nwpState, drvState>>

STOP == -1
STA == 0
AP == 2
OFF == 99                   \* no role: the NWP is not running
StartErrors == {-1, -2}     \* what sl_Start returns when it could not start (ROLE_STA_ERR, ROLE_AP_ERR)
Roles == {STA, AP} \cup StartErrors

Event(id) == [id |-> id]
Connect(n) == [id |-> "CONNECT", net |-> n]
NoEvent == Event("none")
Down == {"DISCONNECT", "USER_DISCONNECT"}

SlInit ==                   \* sl_init; the NWP holds whatever mode it was left in
    /\ role = STOP /\ connected = FALSE /\ ip = FALSE /\ delegate = FALSE
    /\ ssid = [net |-> "none", end |-> 0]
    /\ nwp = OFF /\ nextMode \in {STA, AP}
    /\ assoc = FALSE /\ leased = FALSE
    /\ inbox = << >> /\ raised = 0
    /\ drv = "idle" /\ ev = NoEvent
-----------------------------------------------------------------------------
(* The network processor.                                                  *)

Raise(e) ==
    /\ raised < MaxEvents
    /\ raised' = raised + 1
    /\ inbox' = Append(inbox, e)

NwpAssociate ==             \* by the auto-connect policy sl_reset stores
    /\ nwp = STA /\ ~assoc
    /\ assoc' = TRUE
    /\ \E n \in Nets : Raise(Connect(n))
    /\ UNCHANGED <<nwp, nextMode, leased>>

NwpLease ==                 \* DHCP: a first lease or a renewal
    /\ assoc
    /\ leased' = TRUE
    /\ Raise(Event("IP_ACQUIRED"))
    /\ UNCHANGED <<nwp, nextMode, assoc>>

NwpDrop ==
    /\ assoc
    /\ assoc' = FALSE /\ leased' = FALSE
    /\ Raise(Event("DISCONNECT"))
    /\ UNCHANGED <<nwp, nextMode>>

NwpReport ==                \* events that change neither association nor lease
    /\ nwp # OFF
    /\ \E id \in IF nwp = AP THEN {"AP_CLIENT", "OTHER"} ELSE {"CONNECT_FAILED", "OTHER"} :
          Raise(Event(id))
    /\ UNCHANGED <<nwp, nextMode, assoc, leased>>

Nwp ==
    /\ NwpAssociate \/ NwpLease \/ NwpDrop \/ NwpReport
    /\ UNCHANGED <<slState, delegate, drvState>>
-----------------------------------------------------------------------------
(* The event handlers.                                                     *)

(* The operators marked "wrong" are plausible mistakes in the operator     *)
(* that follows them.                                                      *)
CopySsidAppends(n) ==       \* wrong
    [net |-> n, end |-> ssid.end + SsidLen[n]]

(* memcpy copies the name without a NUL: bytes of a longer earlier name    *)
(* stay behind it.                                                         *)
CopySsid(n) ==
    [net |-> n, end |-> IF SsidLen[n] > ssid.end THEN SsidLen[n] ELSE ssid.end]

(* Each handler runs up to the call of the delegate (Fire).                *)
Take(ids) ==
    /\ drv = "idle"
    /\ inbox # << >>
    /\ Head(inbox).id \in ids
    /\ ev' = Head(inbox)
    /\ inbox' = Tail(inbox)
    /\ drv' = "fire"
    /\ UNCHANGED <<delegate, nwp, nextMode, assoc, leased, raised>>

HandleConnect ==
    /\ Take({"CONNECT"})
    /\ role' = STA
    /\ connected' = TRUE
    /\ ssid' = CopySsid(ev'.net)
    /\ UNCHANGED ip

HandleDown ==               \* the record is cleared only after the delegate ran
    /\ Take(Down \cup {"CONNECT_FAILED"})
    /\ role' = STA
    /\ UNCHANGED <<connected, ip, ssid>>

HandleApClient ==
    /\ Take({"AP_CLIENT"})
    /\ role' = AP
    /\ UNCHANGED <<connected, ip, ssid>>

HandleIpAcquired ==
    /\ Take({"IP_ACQUIRED"})
    /\ ip' = TRUE
    /\ UNCHANGED <<role, connected, ssid>>

HandleOther ==              \* general and socket events
    /\ Take({"OTHER"})
    /\ UNCHANGED slState

Fire ==                     \* SL_FIRE_EVENT; what the delegate does is the application's
    /\ drv = "fire"
    /\ drv' = IF ev.id \in Down THEN "clear" ELSE "idle"
    /\ UNCHANGED <<slState, delegate, nwpState, ev>>

(* The rest of the disconnect handler, after the delegate: it stores the   *)
(* connection first and the addresses then.                                *)
ClearConnected ==
    /\ drv = "clear"
    /\ drv' = "clear_ip"
    /\ connected' = FALSE
    /\ UNCHANGED <<role, ip, ssid, delegate, nwpState, ev>>

ClearIpNot ==               \* wrong: the address stays
    /\ drv = "clear_ip"
    /\ drv' = "idle"
    /\ UNCHANGED <<slState, delegate, nwpState, ev>>

ClearIp ==
    /\ drv = "clear_ip"
    /\ drv' = "idle"
    /\ ip' = FALSE
    /\ UNCHANGED <<role, connected, ssid, delegate, nwpState, ev>>

Driver ==                   \* all of the driver thread but Fire
    \/ HandleConnect \/ HandleDown \/ HandleApClient
    \/ HandleIpAcquired \/ HandleOther
    \/ ClearConnected \/ ClearIp
-----------------------------------------------------------------------------
(* The calls of the application thread.                                    *)

SetDelegate ==
    /\ delegate' = TRUE
    /\ UNCHANGED <<slState, nwpState, drvState>>

StartBegin ==               \* sl_start up to the return of sl_Start
    /\ ip' = FALSE
    /\ \/ nwp' = nextMode
       \/ StartMayFail /\ nwp' = OFF
    /\ UNCHANGED <<role, connected, ssid, delegate, nextMode, assoc, leased, inbox, raised, drvState>>

StartEnd ==                 \* w->role = res: by now events may have been handled
    /\ role' \in IF nwp = OFF THEN StartErrors ELSE {nwp}
    /\ UNCHANGED <<connected, ip, ssid, delegate, nwpState, drvState>>

StopKeepsRole ==            \* wrong
    /\ drv = "idle"
    /\ nwp' = OFF
    /\ assoc' = FALSE /\ leased' = FALSE
    /\ inbox' = << >>
    /\ UNCHANGED <<slState, delegate, nextMode, raised, drvState>>

(* sl_Stop returns when the NWP is down: the handler under way has ended   *)
(* and events not handled by then are gone.                                *)
Stop ==
    \/ /\ role = STOP
       /\ UNCHANGED slVars
    \/ /\ role # STOP
       /\ drv = "idle"
       /\ role' = STOP
       /\ nwp' = OFF
       /\ assoc' = FALSE /\ leased' = FALSE
       /\ inbox' = << >>
       /\ UNCHANGED <<connected, ip, ssid, delegate, nextMode, raised, drvState>>

(* sl_reset followed by sl_wlan_role_set(SL_ROLE_STA).  sl_WlanDisconnect  *)
(* raises a user-initiated disconnect if there is a connection; the policy *)
(* calls that follow change nothing modelled here.  An NWP that did not    *)
(* start takes no commands.                                                *)
ResetToSta ==
    /\ nextMode' = IF nwp = OFF THEN nextMode ELSE STA
    /\ IF role = STA /\ assoc
         THEN /\ assoc' = FALSE /\ leased' = FALSE
              /\ inbox' = Append(inbox, Event("USER_DISCONNECT"))
         ELSE UNCHANGED <<assoc, leased, inbox>>
    /\ UNCHANGED <<slState, delegate, nwp, raised, drvState>>
=============================================================================
