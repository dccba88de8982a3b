------------------------------ MODULE SlClient ------------------------------
(***************************************************************************)
(* examples/doorbell/sl.c: the calls of an application that starts and     *)
(* stops the NWP, pings, re-reads its address, scans for networks, reads   *)
(* statistics and files.  They run on the application's thread, next to    *)
(* the driver thread of SimpleLink, which also runs the callback of a      *)
(* ping.  The record of the ping is shared by the two without a lock.      *)
(*                                                                         *)
(* Of the NWP (external) it is assumed that it runs one ping at a time,    *)
(* reports each one's end unless it is stopped, and takes a scan policy    *)
(* and starts a statistic only while it is running.                        *)
(***************************************************************************)
EXTENDS SimpleLink

CONSTANTS
    MaxPings,       \* bound: calls of sl_netapp_ping
    MaxStarts       \* bound: calls of sl_start

ASSUME ClientAssumption == MaxPings \in Nat /\ MaxStarts \in Nat

VARIABLES
    clPc,           \* where the application's call is
    clStarts,
    \* the record of the ping
    pingReport,     \* ping_report is not NULL
    pingCallback,   \* whose ping_callback it is, NoPing if NULL
    pings,          \* calls of sl_netapp_ping that got past their checks
    nwpPing,        \* the ping under way in the NWP, NoPing if none
    wrap,           \* the driver in sl_ping_callback_wrapper: "none", "report", "callback"
    told,           \* history: the ping whose callback was called last
    \* the rest
    ipUpdated,      \* history: the address is the one sl_netcfg_update_ip stored
    scan,           \* the scan policy is on
    stats,          \* the NWP gathers receive statistics
    file,           \* a file of the NWP is open
    entries         \* the memory for a network list is allocated

pingRecord == <<pingReport, pingCallback>>
pingVars == <<pingRecord, pings, nwpPing, wrap, told>>
scanVars == <<scan, stats, file, entries>>
clVars == <<slVars, clPc, clStarts, pingVars, ipUpdated, scanVars>>

NoPing == 0
Pings == 1 .. MaxPings

ClInit ==
    /\ SlInit
    /\ clPc = "idle" /\ clStarts = 0
    /\ pingReport = FALSE /\ pingCallback = NoPing /\ pings = 0
    /\ nwpPing = NoPing /\ wrap = "none"
    /\ told = NoPing
    /\ ipUpdated = FALSE
    /\ scan = FALSE /\ stats = FALSE /\ file = FALSE /\ entries = FALSE

At(l, next) == clPc = l /\ clPc' = next

ClNwp ==
    /\ Nwp
    /\ UNCHANGED <<clPc, clStarts, pingVars, ipUpdated, scanVars>>

ClDriver ==
    /\ wrap = "none"
    /\ Driver \/ Fire
    /\ ipUpdated' = (ipUpdated /\ ~ClearIp /\ ~HandleIpAcquired)
    /\ UNCHANGED <<clPc, clStarts, pingVars, scanVars>>

ClStart ==
    /\ At("idle", "starting")
    /\ nwp = OFF
    /\ clStarts < MaxStarts
    /\ clStarts' = clStarts + 1
    /\ StartBegin
    /\ ipUpdated' = FALSE
    /\ UNCHANGED <<pingVars, scanVars>>

ClStarted ==
    /\ At("starting", "idle")
    /\ StartEnd
    /\ UNCHANGED <<clStarts, pingVars, ipUpdated, scanVars>>

ClStop ==                   \* a ping under way is not reported any more
    /\ At("idle", "idle")
    /\ wrap = "none"
    /\ Stop
    /\ nwpPing' = IF role = STOP THEN nwpPing ELSE NoPing
    /\ stats' = FALSE
    /\ UNCHANGED <<clStarts, pingRecord, pings, wrap, told, ipUpdated,
                   scan, file, entries>>
-----------------------------------------------------------------------------
(* sl_netapp_ping, on the application's thread: the wrapper below may run  *)
(* between any two of its steps.  The caller may pass no report.           *)

PingCall ==                 \* the checks of the record
    /\ At("idle", "ping_checked")
    /\ pings < MaxPings
    /\ ~pingReport /\ role # STOP /\ ip
    /\ pings' = pings + 1
    /\ UNCHANGED <<slVars, clStarts, pingRecord, nwpPing, wrap, told, ipUpdated, scanVars>>

PingSetReport ==
    /\ At("ping_checked", "ping_report")
    /\ pingReport' \in BOOLEAN
    /\ UNCHANGED <<slVars, clStarts, pingCallback, pings, nwpPing, wrap, told, ipUpdated,
                   scanVars>>

PingSetCallback ==
    /\ At("ping_report", "ping")
    /\ pingCallback' = pings
    /\ UNCHANGED <<slVars, clStarts, pingReport, pings, nwpPing, wrap, told, ipUpdated,
                   scanVars>>

PingAccepted ==             \* sl_NetAppPingStart
    /\ At("ping", "idle")
    /\ nwp # OFF /\ nwpPing = NoPing
    /\ nwpPing' = pings
    /\ UNCHANGED <<slVars, clStarts, pingRecord, pings, wrap, told, ipUpdated, scanVars>>

PingRefused ==              \* the error is returned; the record is left as it is
    /\ At("ping", "idle")
    /\ UNCHANGED <<slVars, clStarts, pingVars, ipUpdated, scanVars>>
-----------------------------------------------------------------------------
(* sl_ping_callback_wrapper, on the driver thread.                         *)

PingNeedsReport ==          \* wrong: calls back only with a report
    /\ nwpPing # NoPing
    /\ drv = "idle" /\ wrap = "none"
    /\ wrap' = "report"
    /\ told' = IF pingReport THEN pingCallback ELSE NoPing
    /\ nwpPing' = NoPing
    /\ UNCHANGED <<slVars, clPc, clStarts, pingRecord, pings, ipUpdated, scanVars>>

PingCalled ==
    /\ nwpPing # NoPing
    /\ drv = "idle" /\ wrap = "none"
    /\ wrap' = "report"
    /\ told' = pingCallback
    /\ nwpPing' = NoPing
    /\ UNCHANGED <<slVars, clPc, clStarts, pingRecord, pings, ipUpdated, scanVars>>

PingFreed ==                \* w->ping_report = NULL
    /\ wrap = "report"
    /\ wrap' = "callback"
    /\ pingReport' = FALSE
    /\ UNCHANGED <<slVars, clPc, clStarts, pingCallback, pings, nwpPing, told,
                   ipUpdated, scanVars>>

PingForgotten ==            \* w->ping_callback = NULL, whosever it is by now
    /\ wrap = "callback"
    /\ wrap' = "none"
    /\ pingCallback' = NoPing
    /\ UNCHANGED <<slVars, clPc, clStarts, pingReport, pings, nwpPing, told,
                   ipUpdated, scanVars>>

PingWrapper == PingCalled \/ PingFreed \/ PingForgotten
-----------------------------------------------------------------------------
(* sl_netcfg_update_ip.                                                    *)

UpdateIpRead ==             \* sl_NetCfgGet; without an NWP it fails, and nothing happens
    /\ At("idle", "update")
    /\ role # STOP /\ nwp # OFF
    /\ UNCHANGED <<slVars, clStarts, pingVars, ipUpdated, scanVars>>

(* What was read is stored, the zero address too, which is not the invalid *)
(* one; the disconnect handler may have run in between.                    *)
UpdateIpStore ==
    /\ At("update", "update_fire")
    /\ ip' = TRUE
    /\ ipUpdated' = TRUE
    /\ UNCHANGED <<role, connected, ssid, delegate, nwpState, drvState, clStarts, pingVars,
                   scanVars>>

UpdateIpFire ==             \* the delegate, on the application's thread
    /\ At("update_fire", "idle")
    /\ UNCHANGED <<slVars, clStarts, pingVars, ipUpdated, scanVars>>
-----------------------------------------------------------------------------
(* Scan, statistics and files.                                             *)

SetScan(enable) == scan' = IF nwp = OFF THEN scan ELSE enable

NetworkScan ==              \* sl_wlan_network_scan
    /\ At("idle", "idle")
    /\ \E enable \in BOOLEAN : SetScan(enable)
    /\ UNCHANGED <<slVars, clStarts, pingVars, ipUpdated, stats, file, entries>>

(* sl_wlan_dump_hotspots.                                                  *)
DumpBegin ==
    /\ At("idle", "dump")
    /\ SetScan(TRUE)
    /\ UNCHANGED <<slVars, clStarts, pingVars, ipUpdated, stats, file, entries>>

DumpNoMemory ==             \* returns with the scan still on
    /\ At("dump", "idle")
    /\ UNCHANGED <<slVars, clStarts, pingVars, ipUpdated, scanVars>>

DumpList ==
    /\ At("dump", "dumped")
    /\ entries' = TRUE
    /\ UNCHANGED <<slVars, clStarts, pingVars, ipUpdated, scan, stats, file>>

DumpEnd ==                  \* also a scan the caller had turned on is off now
    /\ At("dumped", "idle")
    /\ entries' = FALSE
    /\ SetScan(FALSE)
    /\ UNCHANGED <<slVars, clStarts, pingVars, ipUpdated, stats, file>>

(* sl_wlan_rx_stats.                                                       *)
StatsBegin ==
    /\ At("idle", "stats")
    /\ stats' = (nwp # OFF)
    /\ UNCHANGED <<slVars, clStarts, pingVars, ipUpdated, scan, file, entries>>

StatsEnd ==
    /\ At("stats", "idle")
    /\ stats' = FALSE
    /\ UNCHANGED <<slVars, clStarts, pingVars, ipUpdated, scan, file, entries>>

(* sl_file_load and sl_file_save; one that does not open does nothing.     *)
FileOpen ==
    /\ At("idle", "file")
    /\ nwp # OFF
    /\ file' = TRUE
    /\ UNCHANGED <<slVars, clStarts, pingVars, ipUpdated, scan, stats, entries>>

FileCloseIfRead ==          \* wrong: returns at once when the read failed
    /\ At("file", "idle")
    /\ file' \in {FALSE, file}
    /\ UNCHANGED <<slVars, clStarts, pingVars, ipUpdated, scan, stats, entries>>

FileClose ==                \* after the read or write, which may have failed
    /\ At("file", "idle")
    /\ file' = FALSE
    /\ UNCHANGED <<slVars, clStarts, pingVars, ipUpdated, scan, stats, entries>>
-----------------------------------------------------------------------------
ClNext ==
    \/ ClNwp \/ ClDriver
    \/ ClStart \/ ClStarted \/ ClStop
    \/ PingCall \/ PingSetReport \/ PingSetCallback \/ PingAccepted \/ PingRefused
    \/ PingWrapper
    \/ UpdateIpRead \/ UpdateIpStore \/ UpdateIpFire
    \/ NetworkScan \/ DumpBegin \/ DumpNoMemory \/ DumpList \/ DumpEnd
    \/ StatsBegin \/ StatsEnd \/ FileOpen \/ FileClose

(* The driver thread is scheduled, and the NWP ends a ping: the number of  *)
(* its packets is finite.                                                  *)
ClFairness == WF_clVars(ClDriver \/ PingWrapper)

ClSpec == ClInit /\ [][ClNext]_clVars /\ ClFairness
-----------------------------------------------------------------------------
(* Properties.                                                             *)

(* Types; what a call takes from the NWP and the heap it has given back    *)
(* when it returns.                                                        *)
ClTypeOK ==
    /\ clPc \in {"idle", "starting", "ping_checked", "ping_report", "ping", "update",
                 "update_fire", "dump", "dumped", "stats", "file"}
    /\ clStarts \in 0 .. MaxStarts
    /\ pingReport \in BOOLEAN
    /\ {pingCallback, pings, nwpPing, told} \subseteq Pings \cup {NoPing}
    /\ wrap \in {"none", "report", "callback"}
    /\ ipUpdated \in BOOLEAN
    /\ scan \in BOOLEAN
    /\ stats \in {FALSE, clPc = "stats"}
    /\ file = (clPc = "file") /\ entries = (clPc = "dumped")

(* Once everything raised has been handled, the record has an address      *)
(* exactly if the NWP has one, through stops that lose events and starts.  *)
(* Only sl_netcfg_update_ip may have put one there that is none.           *)
AddressIsCurrent ==
    clPc = "idle" /\ nwp = STA /\ inbox = << >> /\ drv = "idle" =>
        ipUpdated \/ ip = leased

(* A ping that runs with its own callback in the record is answered and    *)
(* the record freed for the next one, whether or not it has a report,      *)
(* unless the NWP is stopped or another ping takes the record.  (A ping    *)
(* that starts while the wrapper of the one before still runs may lose its *)
(* callback.)                                                              *)
PingIsAnswered == \A p \in Pings :
    (nwpPing = p /\ pingCallback = p /\ wrap = "none")
        ~> \/ told = p /\ ~pingReport
           \/ nwp = OFF
           \/ pingCallback \notin {p, NoPing}
=============================================================================
