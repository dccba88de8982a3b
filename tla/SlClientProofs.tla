---------------------------- MODULE SlClientProofs ----------------------------
(***************************************************************************)
(* Theorems about SlClient, for any networks, names and numbers of events, *)
(* starts and pings: its types, that the address in the record is the      *)
(* NWP's whenever nothing is on its way between the two, and what becomes  *)
(* of a ping: no step takes it away from its answer, it is answered once,  *)
(* and one that is lost keeps all later ones from being made.              *)
(***************************************************************************)
EXTENDS SlClient, SequenceTheorems, TLAPS

(* The events that say something about the address.                        *)
Sources == Down \cup {"IP_ACQUIRED"}
Ids == Sources \cup {"CONNECT", "CONNECT_FAILED", "AP_CLIENT", "OTHER"}
Raised == [id : Ids] \cup [id : Ids, net : Nets]

(* The types hold initially and through every step.                        *)
LEMMA TypesInit == ClInit => ClTypeOK
  <1> SUFFICES ASSUME ClInit PROVE ClTypeOK
    OBVIOUS
  <1>1. /\ clPc = "idle" /\ pingReport = FALSE /\ wrap = "none" /\ ipUpdated = FALSE
        /\ scan = FALSE /\ stats = FALSE /\ file = FALSE /\ entries = FALSE
    BY DEF ClInit
  <1>2. {pingCallback, pings, nwpPing, told} \subseteq Pings \cup {NoPing}
    BY DEF ClInit, NoPing
  <1>3. clStarts \in 0 .. MaxStarts
    BY ClientAssumption DEF ClInit
  <1>4. file = (clPc = "file") /\ entries = (clPc = "dumped")
    BY <1>1
  <1> QED
    BY <1>1, <1>2, <1>3, <1>4 DEF ClTypeOK

(* Every step keeps the types.                                             *)
LEMMA TypesStep == ClTypeOK /\ [ClNext]_clVars => ClTypeOK'
  <1> SUFFICES ASSUME ClTypeOK, [ClNext]_clVars PROVE ClTypeOK'
    OBVIOUS
  <1> USE DEF ClTypeOK, At
  <1>1. CASE ClNwp \/ UNCHANGED clVars
    <2>1. UNCHANGED <<clPc, clStarts, pingReport, pingCallback, pings, nwpPing, wrap, told, ipUpdated,
                      scan, stats, file, entries>>
      BY <1>1 DEF ClNwp, clVars, pingVars, pingRecord, scanVars
    <2> QED
      BY <2>1
  <1>2. CASE ClDriver
    <2>1. UNCHANGED <<clPc, clStarts, pingVars, scanVars>>
      BY <1>2 DEF ClDriver
    <2>2. ipUpdated' \in BOOLEAN
      BY <1>2 DEF ClDriver
    <2> QED
      BY <2>1, <2>2 DEF pingVars, pingRecord, scanVars
  <1>3. CASE ClStart
    <2>1. /\ clPc = "idle" /\ clPc' = "starting" /\ ipUpdated' = FALSE
          /\ UNCHANGED <<pingVars, scanVars>>
      BY <1>3 DEF ClStart
    <2>2. clStarts' \in 0 .. MaxStarts
      BY <1>3, ClientAssumption DEF ClStart
    <2> QED
      BY <2>1, <2>2 DEF pingVars, pingRecord, scanVars
  <1>4. CASE ClStarted \/ ClStop
    BY <1>4 DEF ClStarted, ClStop, pingVars, pingRecord, scanVars
  <1>5. CASE PingCall \/ PingSetReport \/ PingSetCallback
    <2>1. PingCall => pings + 1 \in Pings
      BY ClientAssumption DEF PingCall, Pings, NoPing
    <2>2. /\ clPc \notin {"stats", "file", "dumped"} /\ clPc' \in {"ping_checked", "ping_report", "ping"}
          /\ UNCHANGED <<clStarts, nwpPing, wrap, told, ipUpdated, scan, stats, file, entries>>
      BY <1>5 DEF PingCall, PingSetReport, PingSetCallback, scanVars
    <2>3. pings' \in Pings \cup {NoPing} /\ pingCallback' \in Pings \cup {NoPing}
      BY <1>5, <2>1 DEF PingCall, PingSetReport, PingSetCallback, pingRecord
    <2>4. pingReport' \in BOOLEAN
      BY <1>5 DEF PingCall, PingSetReport, PingSetCallback, pingRecord
    <2> QED
      BY <2>2, <2>3, <2>4
  <1>6. CASE PingAccepted \/ PingRefused
    BY <1>6 DEF PingAccepted, PingRefused, pingVars, pingRecord, scanVars
  <1>7. CASE PingWrapper
    <2>1. UNCHANGED <<clPc, clStarts, pings, ipUpdated, scan, stats, file, entries>>
      BY <1>7 DEF PingWrapper, PingCalled, PingFreed, PingForgotten, scanVars
    <2>2. /\ pingReport' \in {FALSE, pingReport} /\ wrap' \in {"none", "report", "callback"}
          /\ {pingCallback', nwpPing', told'} \subseteq {NoPing, pingCallback, nwpPing, told}
      BY <1>7 DEF PingWrapper, PingCalled, PingFreed, PingForgotten, pingRecord
    <2>3. {pingCallback', pings', nwpPing', told'} \subseteq Pings \cup {NoPing}
      BY <2>1, <2>2
    <2> QED
      BY <2>1, <2>2, <2>3
  <1>8. CASE UpdateIpRead \/ UpdateIpStore \/ UpdateIpFire
    BY <1>8 DEF UpdateIpRead, UpdateIpStore, UpdateIpFire, pingVars, pingRecord, scanVars
  <1>9. CASE NetworkScan \/ DumpBegin \/ DumpNoMemory \/ DumpList \/ DumpEnd
    BY <1>9 DEF NetworkScan, DumpBegin, DumpNoMemory, DumpList, DumpEnd, SetScan, pingVars, pingRecord, scanVars
  <1>10. CASE StatsBegin \/ StatsEnd \/ FileOpen \/ FileClose
    BY <1>10 DEF StatsBegin, StatsEnd, FileOpen, FileClose, pingVars, pingRecord, scanVars
  <1> QED
    BY <1>1, <1>2, <1>3, <1>4, <1>5, <1>6, <1>7, <1>8, <1>9, <1>10 DEF ClNext

(* What a call takes from the NWP and the heap is given back on its return, *)
(* for any numbers of pings and starts.                                    *)
THEOREM ClientTypes == ClSpec => []ClTypeOK
  BY TypesInit, TypesStep, PTL DEF ClSpec
-----------------------------------------------------------------------------
(* The address in the record.                                              *)

(* What waits is an event; an NWP that does not run raises none, and only  *)
(* an associated one has an address.                                       *)
NwpInv ==
    /\ nwp \in {OFF, STA, AP} /\ nextMode \in {STA, AP}
    /\ inbox \in Seq(Raised)
    /\ {assoc, leased, ip, ipUpdated} \subseteq BOOLEAN
    /\ nwp = OFF => inbox = << >> /\ drv = "idle" /\ ~assoc
    /\ leased => assoc

(* The last event waiting that says something about the address.           *)
LastSource(i) ==
    /\ i \in 1 .. Len(inbox) /\ inbox[i].id \in Sources
    /\ \A j \in (i + 1) .. Len(inbox) : inbox[j].id \notin Sources

(* None waits that does; the one in hand is a disconnect.                  *)
NoSource == \A j \in 1 .. Len(inbox) : inbox[j].id \notin Sources
Clearing == drv \in {"clear", "clear_ip"} \/ (drv = "fire" /\ ev.id \in Down)

(* The NWP has an address if the last event waiting that speaks of it says *)
(* so; if none does, a disconnect being handled means that it has none,    *)
(* and otherwise the record is already right.                              *)
AddressInv ==
    /\ \A i \in Nat : LastSource(i) => (leased <=> inbox[i].id = "IP_ACQUIRED")
    /\ NoSource /\ Clearing => ~leased
    /\ NoSource /\ ~Clearing /\ nwp # OFF => ipUpdated \/ (ip <=> leased)

(* Initially the NWP does not run.                                         *)
LEMMA AddressInit == ClInit => NwpInv /\ AddressInv
  <1> SUFFICES ASSUME ClInit PROVE NwpInv /\ AddressInv
    OBVIOUS
  <1>1. /\ nwp = OFF /\ nextMode \in {STA, AP} /\ inbox = << >> /\ drv = "idle"
        /\ assoc = FALSE /\ leased = FALSE /\ ip = FALSE /\ ipUpdated = FALSE
    BY DEF ClInit, SlInit
  <1>2. inbox \in Seq(Raised) /\ Len(inbox) = 0
    BY <1>1, EmptySeq
  <1>3. NwpInv
    BY <1>1, <1>2 DEF NwpInv
  <1>4. \A i \in Nat : ~LastSource(i)
    BY <1>2 DEF LastSource
  <1> QED
    BY <1>1, <1>3, <1>4 DEF AddressInv

(* What the NWP raises is the last event waiting.                          *)
LEMMA Appended ==
    ASSUME NwpInv, NEW e \in Raised, inbox' = Append(inbox, e)
    PROVE  /\ inbox' \in Seq(Raised)
           /\ NoSource' <=> NoSource /\ e.id \notin Sources
           /\ \A i \in Nat : LastSource(i)' =>
                \/ inbox'[i] = e /\ e.id \in Sources
                \/ LastSource(i) /\ inbox'[i] = inbox[i] /\ e.id \notin Sources
  <1>1. /\ inbox' \in Seq(Raised) /\ Len(inbox) \in Nat /\ Len(inbox') = Len(inbox) + 1
        /\ \A i \in 1 .. Len(inbox) : inbox'[i] = inbox[i]
        /\ inbox'[Len(inbox) + 1] = e
    BY AppendProperties, LenProperties DEF NwpInv
  <1>2. NoSource' <=> NoSource /\ e.id \notin Sources
    BY <1>1 DEF NoSource
  <1>3. ASSUME NEW i \in Nat, LastSource(i)'
        PROVE  \/ inbox'[i] = e /\ e.id \in Sources
               \/ LastSource(i) /\ inbox'[i] = inbox[i] /\ e.id \notin Sources
    <2>1. CASE i = Len(inbox) + 1
      BY <1>1, <1>3, <2>1 DEF LastSource
    <2>2. CASE i # Len(inbox) + 1
      <3>1. i \in 1 .. Len(inbox) /\ inbox'[i] = inbox[i]
        BY <1>1, <1>3, <2>2 DEF LastSource
      <3>2. Len(inbox) + 1 \in (i + 1) .. Len(inbox')
        BY <1>1, <3>1
      <3> QED
        BY <1>1, <1>3, <3>1, <3>2 DEF LastSource
    <2> QED
      BY <2>1, <2>2
  <1> QED
    BY <1>1, <1>2, <1>3

(* A handler takes the first one.                                          *)
LEMMA Taken ==
    ASSUME NwpInv, NEW ids, Take(ids)
    PROVE  /\ inbox' \in Seq(Raised) /\ inbox # << >>
           /\ drv = "idle" /\ drv' = "fire" /\ ev' = inbox[1] /\ ev'.id \in ids
           /\ UNCHANGED <<nwp, nextMode, assoc, leased>>
           /\ NoSource' /\ inbox[1].id \in Sources => LastSource(1)
           /\ NoSource' /\ inbox[1].id \notin Sources => NoSource
           /\ \A i \in Nat : LastSource(i)' => LastSource(i + 1) /\ inbox'[i] = inbox[i + 1]
  <1>1. /\ inbox # << >> /\ inbox' = Tail(inbox) /\ inbox[1].id \in ids /\ ev' = inbox[1]
        /\ drv = "idle" /\ drv' = "fire"
        /\ UNCHANGED <<nwp, nextMode, assoc, leased>>
    BY HeadTailProperties DEF Take, NwpInv
  <1>2. /\ inbox' \in Seq(Raised) /\ Len(inbox') = Len(inbox) - 1
        /\ Len(inbox) \in Nat /\ Len(inbox) >= 1
        /\ \A i \in 1 .. Len(inbox') : inbox'[i] = inbox[i + 1]
    BY <1>1, HeadTailProperties, LenProperties DEF NwpInv
  <1>3. ASSUME NoSource'
        PROVE  \A j \in 2 .. Len(inbox) : inbox[j].id \notin Sources
    <2>1. SUFFICES ASSUME NEW j \in 2 .. Len(inbox) PROVE inbox[j].id \notin Sources
      OBVIOUS
    <2>2. j - 1 \in 1 .. Len(inbox') /\ inbox'[j - 1] = inbox[j]
      BY <1>2, <2>1
    <2> QED
      BY <1>3, <2>2 DEF NoSource
  <1>4. ASSUME NEW i \in Nat, LastSource(i)'
        PROVE  LastSource(i + 1) /\ inbox'[i] = inbox[i + 1]
    <2>1. /\ i \in 1 .. Len(inbox') /\ inbox'[i] = inbox[i + 1] /\ i + 1 \in 1 .. Len(inbox)
          /\ inbox[i + 1].id \in Sources
      BY <1>2, <1>4 DEF LastSource
    <2>2. ASSUME NEW j \in (i + 2) .. Len(inbox)
          PROVE  inbox[j].id \notin Sources
      <3>1. j - 1 \in (i + 1) .. Len(inbox') /\ inbox'[j - 1] = inbox[j]
        BY <1>2, <2>2
      <3> QED
        BY <1>4, <3>1 DEF LastSource
    <2> QED
      BY <2>1, <2>2 DEF LastSource
  <1>5. NoSource' /\ inbox[1].id \in Sources => LastSource(1)
    BY <1>2, <1>3 DEF LastSource
  <1>6. NoSource' /\ inbox[1].id \notin Sources => NoSource
    BY <1>2, <1>3 DEF NoSource
  <1> QED
    BY <1>1, <1>2, <1>4, <1>5, <1>6

(* What each action of the NWP raises, and what it does to the lease.      *)
LEMMA NwpRaises ==
    ASSUME NwpInv, Nwp
    PROVE  /\ UNCHANGED <<nwp, nextMode, ip, drv, ev>> /\ nwp # OFF
           /\ \E e \in Raised :
                /\ inbox' = Append(inbox, e)
                /\ \/ e.id = "IP_ACQUIRED" /\ leased' = TRUE /\ assoc' = TRUE
                   \/ e.id \in Down /\ leased' = FALSE /\ assoc' = FALSE
                   \/ e.id \notin Sources /\ leased' = leased /\ assoc' \in {assoc, TRUE}
  <1>1. UNCHANGED <<nwp, nextMode, ip, drv, ev>>
    BY DEF Nwp, NwpAssociate, NwpLease, NwpDrop, NwpReport, slState, drvState
  <1>2. nwp # OFF
    BY DEF Nwp, NwpAssociate, NwpLease, NwpDrop, NwpReport, NwpInv, STA, OFF
  <1>3. CASE NwpAssociate
    <2>1. PICK n \in Nets : inbox' = Append(inbox, Connect(n)) /\ assoc' = TRUE /\ leased' = leased
      BY <1>3 DEF NwpAssociate, Raise
    <2>2. Connect(n) \in Raised /\ Connect(n).id \notin Sources
      BY DEF Connect, Raised, Ids, Sources, Down
    <2> QED
      BY <1>1, <1>2, <2>1, <2>2
  <1>4. CASE NwpLease
    <2>1. inbox' = Append(inbox, Event("IP_ACQUIRED")) /\ assoc /\ assoc' = assoc /\ leased' = TRUE
      BY <1>4 DEF NwpLease, Raise
    <2>2. Event("IP_ACQUIRED") \in Raised /\ Event("IP_ACQUIRED").id = "IP_ACQUIRED"
      BY DEF Event, Raised, Ids, Sources
    <2>3. assoc' = TRUE
      BY <2>1 DEF NwpInv
    <2> QED
      BY <1>1, <1>2, <2>1, <2>2, <2>3
  <1>5. CASE NwpDrop
    <2>1. inbox' = Append(inbox, Event("DISCONNECT")) /\ assoc' = FALSE /\ leased' = FALSE
      BY <1>5 DEF NwpDrop, Raise
    <2>2. Event("DISCONNECT") \in Raised /\ Event("DISCONNECT").id \in Down
      BY DEF Event, Raised, Ids, Sources, Down
    <2> QED
      BY <1>1, <1>2, <2>1, <2>2
  <1>6. CASE NwpReport
    <2>1. PICK id \in {"CONNECT_FAILED", "AP_CLIENT", "OTHER"} :
             inbox' = Append(inbox, Event(id)) /\ assoc' = assoc /\ leased' = leased
      BY <1>6 DEF NwpReport, Raise
    <2>2. Event(id) \in Raised /\ Event(id).id \notin Sources
      BY DEF Event, Raised, Ids, Sources, Down
    <2> QED
      BY <1>1, <1>2, <2>1, <2>2
  <1> QED
    BY <1>3, <1>4, <1>5, <1>6 DEF Nwp

(* The driver thread: an event taken moves what it says into the record.   *)
LEMMA DriverAddress ==
    ASSUME NwpInv, AddressInv, ClDriver
    PROVE  NwpInv' /\ AddressInv'
  <1> USE DEF NwpInv
  <1>1. ASSUME NEW ids, Take(ids), ids \cap Sources = {}, ip' = ip, ipUpdated' = ipUpdated
        PROVE  NwpInv' /\ AddressInv'
    <2>1. /\ inbox' \in Seq(Raised) /\ inbox # << >>
          /\ UNCHANGED <<nwp, nextMode, assoc, leased, ip, ipUpdated>>
      BY <1>1, Taken
    <2>2. inbox[1].id \notin Sources /\ ~Clearing /\ ~Clearing'
      BY <1>1, Taken DEF Clearing, Sources
    <2>3. NoSource' => NoSource
      BY <1>1, <2>2, Taken
    <2>4. \A i \in Nat : LastSource(i)' => i + 1 \in Nat /\ LastSource(i + 1) /\ inbox'[i] = inbox[i + 1]
      BY <1>1, Taken
    <2>5. NwpInv'
      BY <2>1
    <2> QED
      BY <2>1, <2>2, <2>3, <2>4, <2>5 DEF AddressInv
  <1>2. CASE HandleConnect \/ HandleApClient \/ HandleOther
    <2>1. PICK ids \in {{"CONNECT"}, {"AP_CLIENT"}, {"OTHER"}} : Take(ids)
      BY <1>2 DEF HandleConnect, HandleApClient, HandleOther
    <2>2. ids \cap Sources = {}
      BY DEF Sources, Down
    <2>3. ip' = ip /\ drv = "idle"
      BY <1>2 DEF HandleConnect, HandleApClient, HandleOther, slState, Take
    <2>4. ~ClearIp /\ inbox[1].id # "IP_ACQUIRED"
      BY <2>1, <2>3, Taken DEF ClearIp
    <2>5. ~HandleIpAcquired
      BY <2>4, Taken DEF HandleIpAcquired
    <2>6. ipUpdated' = ipUpdated
      BY <2>4, <2>5 DEF ClDriver
    <2> QED
      BY <1>1, <2>1, <2>2, <2>3, <2>6
  <1>3. CASE HandleDown
    <2>1. /\ Take(Down \cup {"CONNECT_FAILED"}) /\ ip' = ip
      BY <1>3 DEF HandleDown
    <2>2. inbox[1].id \in Down \cup {"CONNECT_FAILED"} /\ drv = "idle"
      BY <2>1, Taken
    <2>3. ~ClearIp /\ ~HandleIpAcquired
      BY <2>2, Taken DEF ClearIp, HandleIpAcquired, Down
    <2>4. ipUpdated' = ipUpdated
      BY <2>3 DEF ClDriver
    <2>5. CASE inbox[1].id = "CONNECT_FAILED"
      <3>1. Take({"CONNECT_FAILED"})
        BY <2>1, <2>5, HeadTailProperties DEF Take
      <3>2. {"CONNECT_FAILED"} \cap Sources = {}
        BY DEF Sources, Down
      <3> QED
        BY <1>1, <2>1, <2>4, <3>1, <3>2
    <2>6. CASE inbox[1].id \in Down
      <3>1. /\ inbox' \in Seq(Raised) /\ inbox # << >>
            /\ UNCHANGED <<nwp, nextMode, assoc, leased, ip, ipUpdated>>
        BY <2>1, <2>4, Taken
      <3>2. Clearing'
        BY <2>1, <2>6, Taken DEF Clearing
      <3>3. inbox[1].id \in Sources /\ inbox[1].id # "IP_ACQUIRED"
        BY <2>6 DEF Sources, Down
      <3>4. NoSource' => ~leased
        BY <2>1, <3>3, Taken DEF AddressInv
      <3>5. \A i \in Nat : LastSource(i)' =>
               i + 1 \in Nat /\ LastSource(i + 1) /\ inbox'[i] = inbox[i + 1]
        BY <2>1, Taken
      <3>6. NwpInv'
        BY <3>1
      <3> QED
        BY <3>1, <3>2, <3>4, <3>5, <3>6 DEF AddressInv
    <2> QED
      BY <2>2, <2>5, <2>6
  <1>4. CASE HandleIpAcquired
    <2>1. Take({"IP_ACQUIRED"}) /\ ip' = TRUE /\ ipUpdated' = FALSE
      BY <1>4 DEF HandleIpAcquired, ClDriver
    <2>2. /\ inbox' \in Seq(Raised) /\ inbox # << >> /\ inbox[1].id = "IP_ACQUIRED"
          /\ UNCHANGED <<nwp, nextMode, assoc, leased>>
      BY <2>1, Taken
    <2>3. ~Clearing'
      BY <2>1, Taken DEF Clearing, Down
    <2>4. NoSource' => leased
      BY <2>1, <2>2, Taken DEF AddressInv, Sources
    <2>5. \A i \in Nat : LastSource(i)' => i + 1 \in Nat /\ LastSource(i + 1) /\ inbox'[i] = inbox[i + 1]
      BY <2>1, Taken
    <2>6. NwpInv'
      BY <2>1, <2>2
    <2> QED
      BY <2>1, <2>2, <2>3, <2>4, <2>5, <2>6 DEF AddressInv
  <1>5. CASE ClearIp
    <2>1. /\ drv = "clear_ip" /\ drv' = "idle" /\ ip' = FALSE /\ ipUpdated' = FALSE
          /\ UNCHANGED <<nwp, nextMode, assoc, leased, inbox>>
      BY <1>5 DEF ClearIp, nwpState, ClDriver
    <2>2. Clearing /\ ~Clearing' /\ (NoSource' <=> NoSource)
      BY <2>1 DEF Clearing, NoSource
    <2>3. \A i \in Nat : LastSource(i)' => LastSource(i)
      BY <2>1 DEF LastSource
    <2>4. NwpInv'
      BY <2>1
    <2> QED
      BY <2>1, <2>2, <2>3, <2>4 DEF AddressInv
  <1>6. CASE Fire \/ ClearConnected
    <2>1. /\ \/ drv = "fire" /\ drv' = IF ev.id \in Down THEN "clear" ELSE "idle"
             \/ drv = "clear" /\ drv' = "clear_ip"
          /\ UNCHANGED <<nwp, nextMode, assoc, leased, inbox, ip, ev>>
      BY <1>6 DEF Fire, ClearConnected, slState, nwpState
    <2>2. ~ClearIp /\ ~HandleIpAcquired
      BY <2>1 DEF ClearIp, HandleIpAcquired, Take
    <2>3. ipUpdated' = ipUpdated
      BY <2>2 DEF ClDriver
    <2>4. (Clearing' <=> Clearing) /\ (NoSource' <=> NoSource)
      BY <2>1 DEF Clearing, NoSource
    <2>5. \A i \in Nat : LastSource(i)' => LastSource(i)
      BY <2>1 DEF LastSource
    <2>6. NwpInv'
      BY <2>1, <2>3
    <2> QED
      BY <2>1, <2>3, <2>4, <2>5, <2>6 DEF AddressInv
  <1> QED
    BY <1>2, <1>3, <1>4, <1>5, <1>6 DEF ClDriver, Driver

(* What the NWP does to its lease it says in the event it raises.          *)
LEMMA NwpAddress ==
    ASSUME NwpInv, AddressInv, ClNwp
    PROVE  NwpInv' /\ AddressInv'
  <1>1. Nwp /\ ipUpdated' = ipUpdated
    BY DEF ClNwp
  <1>2. UNCHANGED <<nwp, nextMode, ip, drv, ev>> /\ nwp # OFF
    BY <1>1, NwpRaises
  <1>3. PICK e \in Raised :
           /\ inbox' = Append(inbox, e)
           /\ \/ e.id = "IP_ACQUIRED" /\ leased' = TRUE /\ assoc' = TRUE
              \/ e.id \in Down /\ leased' = FALSE /\ assoc' = FALSE
              \/ e.id \notin Sources /\ leased' = leased /\ assoc' \in {assoc, TRUE}
    BY <1>1, NwpRaises
  <1>4. /\ inbox' \in Seq(Raised)
        /\ NoSource' <=> NoSource /\ e.id \notin Sources
        /\ \A i \in Nat : LastSource(i)' =>
             \/ inbox'[i] = e /\ e.id \in Sources
             \/ LastSource(i) /\ inbox'[i] = inbox[i] /\ e.id \notin Sources
    BY <1>3, Appended
  <1>5. Clearing' <=> Clearing
    BY <1>2 DEF Clearing
  <1>6. NwpInv'
    <2>1. assoc' \in BOOLEAN /\ leased' \in BOOLEAN /\ (leased' => assoc')
      <3>1. assoc \in BOOLEAN /\ leased \in BOOLEAN /\ (leased => assoc)
        BY DEF NwpInv
      <3>2. CASE assoc' = TRUE /\ leased' \in {TRUE, leased}
        BY <3>1, <3>2
      <3>3. CASE assoc' = FALSE /\ leased' = FALSE
        BY <3>3
      <3>4. CASE assoc' = assoc /\ leased' = leased
        BY <3>1, <3>4, Zenon
      <3> QED
        BY <1>3, <3>2, <3>3, <3>4
    <2>2. /\ nwp' \in {OFF, STA, AP} /\ nextMode' \in {STA, AP} /\ nwp' # OFF
          /\ ip' \in BOOLEAN /\ ipUpdated' \in BOOLEAN
      BY <1>1, <1>2 DEF NwpInv
    <2> QED
      BY <1>4, <2>1, <2>2 DEF NwpInv
  <1>7. CASE e.id \in Sources
    <2>1. leased' <=> e.id = "IP_ACQUIRED"
      BY <1>3, <1>7 DEF Sources, Down
    <2> QED
      BY <1>4, <1>6, <1>7, <2>1 DEF AddressInv
  <1>8. CASE e.id \notin Sources
    <2>1. leased' = leased
      BY <1>3, <1>8 DEF Sources
    <2> QED
      BY <1>1, <1>2, <1>4, <1>5, <1>6, <1>8, <2>1 DEF AddressInv
  <1> QED
    BY <1>7, <1>8

(* A start finds nothing waiting and an NWP without an address, and clears *)
(* that of the record.                                                     *)
LEMMA StartAddress ==
    ASSUME NwpInv, AddressInv, ClStart
    PROVE  NwpInv' /\ AddressInv'
  <1>1. /\ nwp = OFF /\ nwp' \in {nextMode, OFF} /\ ip' = FALSE /\ ipUpdated' = FALSE
        /\ UNCHANGED <<nextMode, assoc, leased, inbox, drv, ev>>
    BY DEF ClStart, StartBegin, drvState
  <1>2. inbox = << >> /\ drv = "idle" /\ ~assoc /\ ~leased
    BY <1>1 DEF NwpInv
  <1>3. Len(inbox') = 0 /\ ~leased' /\ ~Clearing'
    BY <1>1, <1>2, EmptySeq DEF Clearing
  <1>4. NwpInv'
    BY <1>1, <1>2 DEF NwpInv
  <1>5. \A i \in Nat : ~LastSource(i)'
    BY <1>3 DEF LastSource
  <1> QED
    BY <1>1, <1>3, <1>4, <1>5 DEF AddressInv

(* A stop leaves no event behind.                                          *)
LEMMA StopAddress ==
    ASSUME NwpInv, AddressInv, ClStop
    PROVE  NwpInv' /\ AddressInv'
  <1>1. Stop /\ ipUpdated' = ipUpdated
    BY DEF ClStop
  <1>2. CASE UNCHANGED slVars
    <2>1. UNCHANGED <<nwp, nextMode, assoc, leased, inbox, ip, drv, ev>>
      BY <1>2 DEF slVars, slState, nwpState, drvState
    <2> QED
      BY <1>1, <2>1 DEF NwpInv, AddressInv, LastSource, NoSource, Clearing
  <1>3. CASE ~ UNCHANGED slVars
    <2>1. /\ drv = "idle" /\ nwp' = OFF /\ assoc' = FALSE /\ leased' = FALSE /\ inbox' = << >>
          /\ UNCHANGED <<nextMode, ip, drv, ev>>
      BY <1>1, <1>3 DEF Stop, drvState
    <2>2. inbox' \in Seq(Raised) /\ Len(inbox') = 0
      BY <2>1, EmptySeq
    <2>3. NwpInv'
      BY <1>1, <2>1, <2>2 DEF NwpInv
    <2>4. \A i \in Nat : ~LastSource(i)'
      BY <2>2 DEF LastSource
    <2> QED
      BY <2>1, <2>3, <2>4 DEF AddressInv
  <1> QED
    BY <1>2, <1>3

(* Every step keeps the invariant.                                         *)
LEMMA AddressStep == NwpInv /\ AddressInv /\ [ClNext]_clVars => NwpInv' /\ AddressInv'
  <1> SUFFICES ASSUME NwpInv, AddressInv, [ClNext]_clVars PROVE NwpInv' /\ AddressInv'
    OBVIOUS
  <1>1. ASSUME UNCHANGED <<nwp, nextMode, assoc, leased, inbox, drv, ev>>,
               UNCHANGED <<ip, ipUpdated>> \/ (ip' = TRUE /\ ipUpdated' = TRUE)
        PROVE  NwpInv' /\ AddressInv'
    <2>1. (Clearing' <=> Clearing) /\ (NoSource' <=> NoSource)
      BY <1>1 DEF Clearing, NoSource
    <2>2. \A i \in Nat : LastSource(i)' <=> LastSource(i)
      BY <1>1 DEF LastSource
    <2>3. NwpInv'
      BY <1>1 DEF NwpInv
    <2> QED
      BY <1>1, <2>1, <2>2, <2>3 DEF AddressInv
  <1>2. CASE ClStarted
    <2>1. UNCHANGED <<nwp, nextMode, assoc, leased, inbox, drv, ev, ip, ipUpdated>>
      BY <1>2 DEF ClStarted, StartEnd, nwpState, drvState
    <2> QED
      BY <1>1, <2>1
  <1>3. CASE UpdateIpStore
    <2>1. UNCHANGED <<nwp, nextMode, assoc, leased, inbox, drv, ev>> /\ ip' = TRUE /\ ipUpdated' = TRUE
      BY <1>3 DEF UpdateIpStore, nwpState, drvState
    <2> QED
      BY <1>1, <2>1
  <1>4. CASE \/ PingCall \/ PingSetReport \/ PingSetCallback \/ PingAccepted \/ PingRefused
             \/ PingWrapper
             \/ UpdateIpRead \/ UpdateIpFire
             \/ NetworkScan \/ DumpBegin \/ DumpNoMemory \/ DumpList \/ DumpEnd
             \/ StatsBegin \/ StatsEnd \/ FileOpen \/ FileClose
             \/ UNCHANGED clVars
    <2>1. UNCHANGED <<slVars, ipUpdated>>
      BY <1>4 DEF PingCall, PingSetReport, PingSetCallback, PingAccepted, PingRefused, PingWrapper,
                  PingCalled, PingFreed, PingForgotten, UpdateIpRead, UpdateIpFire, NetworkScan, DumpBegin, DumpNoMemory, DumpList, DumpEnd,
                  StatsBegin, StatsEnd, FileOpen, FileClose, clVars
    <2>2. UNCHANGED <<nwp, nextMode, assoc, leased, inbox, drv, ev, ip, ipUpdated>>
      BY <2>1 DEF slVars, slState, nwpState, drvState
    <2> QED
      BY <1>1, <2>2
  <1> QED
    BY <1>2, <1>3, <1>4, NwpAddress, DriverAddress, StartAddress, StopAddress DEF ClNext

(* Once everything raised has been handled, the record has an address      *)
(* exactly if the NWP has one, unless sl_netcfg_update_ip put one there:   *)
(* for any number of events, stops and starts.                             *)
THEOREM AddressFollows == ClSpec => []AddressIsCurrent
  <1>1. NwpInv /\ AddressInv => AddressIsCurrent
    <2> SUFFICES ASSUME NwpInv, AddressInv, clPc = "idle", nwp = STA, inbox = << >>, drv = "idle"
                 PROVE  ipUpdated \/ ip = leased
      BY DEF AddressIsCurrent
    <2>1. Len(inbox) = 0
      BY EmptySeq
    <2>2. NoSource /\ ~Clearing /\ nwp # OFF
      BY <2>1 DEF NoSource, Clearing, STA, OFF
    <2>3. ipUpdated \/ (ip <=> leased)
      BY <2>2 DEF AddressInv
    <2> QED
      BY <2>3 DEF NwpInv
  <1> QED
    BY <1>1, AddressInit, AddressStep, PTL DEF ClSpec
-----------------------------------------------------------------------------
(* The record of the ping, which two threads share without a lock.         *)

(* No ping is known before its call, nor while its call has not stored its *)
(* callback.                                                               *)
Storing == clPc \in {"ping_checked", "ping_report"}
PingInv ==
    /\ pingCallback <= pings /\ nwpPing <= pings /\ told <= pings
    /\ Storing => pingCallback < pings /\ nwpPing < pings /\ told < pings

(* It holds initially.                                                     *)
LEMMA PingInit == ClInit => PingInv
  BY DEF ClInit, PingInv, NoPing, Storing

(* The steps that touch the record, those that touch neither it nor the    *)
(* ping under way, and the stop, after which that is reported no more.     *)
LEMMA PingSteps ==
    ASSUME ClTypeOK, [ClNext]_clVars
    PROVE  \/ PingCall \/ PingSetReport \/ PingSetCallback \/ PingAccepted
           \/ PingCalled \/ PingFreed \/ PingForgotten
           \/ /\ nwpPing' = NoPing /\ nwp' = OFF
              /\ UNCHANGED <<pingReport, pingCallback, pings, wrap, told>>
              /\ clPc' \notin {"ping_checked", "ping_report", "ping"}
           \/ /\ UNCHANGED pingVars
              /\ clPc' \in {"ping_checked", "ping_report", "ping"} => clPc' = clPc
  <1>1. CASE ClStop
    <2>1. /\ UNCHANGED <<pingReport, pingCallback, pings, wrap, told>> /\ clPc' = "idle" /\ Stop
      BY <1>1 DEF ClStop, At, pingRecord
    <2>2. CASE role = STOP
      <3>1. nwpPing' = nwpPing
        BY <1>1, <2>2 DEF ClStop
      <3> QED
        BY <2>1, <3>1 DEF pingVars, pingRecord
    <2>3. CASE role # STOP
      <3>1. nwpPing' = NoPing /\ nwp' = OFF
        BY <1>1, <2>1, <2>3 DEF ClStop, Stop, slVars, slState
      <3> QED
        BY <2>1, <3>1
    <2> QED
      BY <2>2, <2>3
  <1>2. ASSUME \/ ClNwp \/ ClDriver \/ ClStart \/ ClStarted \/ PingRefused
               \/ UpdateIpRead \/ UpdateIpStore \/ UpdateIpFire
               \/ NetworkScan \/ DumpBegin \/ DumpNoMemory \/ DumpList \/ DumpEnd
               \/ StatsBegin \/ StatsEnd \/ FileOpen \/ FileClose
               \/ UNCHANGED clVars
        PROVE  /\ UNCHANGED pingVars
               /\ clPc' \in {"ping_checked", "ping_report", "ping"} => clPc' = clPc
    BY <1>2 DEF ClNwp, ClDriver, ClStart, ClStarted, PingRefused, UpdateIpRead, UpdateIpStore,
                UpdateIpFire, NetworkScan, DumpBegin, DumpNoMemory, DumpList, DumpEnd, StatsBegin,
                StatsEnd, FileOpen, FileClose, At, clVars
  <1> QED
    BY <1>1, <1>2 DEF ClNext, PingWrapper

(* Every step keeps it.                                                    *)
LEMMA PingStep == ClTypeOK /\ PingInv /\ [ClNext]_clVars => PingInv'
  <1> SUFFICES ASSUME ClTypeOK, PingInv, [ClNext]_clVars PROVE PingInv'
    OBVIOUS
  <1>1. pings \in Nat /\ pingCallback \in Nat /\ nwpPing \in Nat /\ told \in Nat
    BY ClientAssumption DEF ClTypeOK, Pings, NoPing
  <1>2. CASE PingCall
    BY <1>1, <1>2 DEF PingCall, pingRecord, PingInv, Storing
  <1>3. CASE PingSetReport
    BY <1>1, <1>3 DEF PingSetReport, At, PingInv, Storing
  <1>4. CASE PingSetCallback
    BY <1>1, <1>4 DEF PingSetCallback, At, PingInv, Storing
  <1>5. CASE PingAccepted
    BY <1>1, <1>5 DEF PingAccepted, At, pingRecord, PingInv, Storing
  <1>6. CASE PingCalled \/ PingFreed \/ PingForgotten
    <2>1. /\ UNCHANGED <<pings, clPc>>
          /\ {pingCallback', nwpPing', told'} \subseteq {NoPing, pingCallback, nwpPing, told}
      BY <1>6 DEF PingCalled, PingFreed, PingForgotten, pingRecord
    <2>2. Storing => 0 < pings
      BY <1>1 DEF PingInv
    <2> QED
      BY <1>1, <2>1, <2>2 DEF PingInv, Storing, NoPing
  <1>7. CASE /\ UNCHANGED <<pingCallback, pings, told>> /\ nwpPing' \in {nwpPing, NoPing}
             /\ clPc' \in {"ping_checked", "ping_report", "ping"} => clPc' = clPc
    <2>1. Storing' => Storing /\ 0 < pings
      BY <1>1, <1>7 DEF PingInv, Storing
    <2> QED
      BY <1>1, <1>7, <2>1 DEF PingInv, NoPing
  <1> QED
    BY <1>2, <1>3, <1>4, <1>5, <1>6, <1>7, PingSteps DEF pingVars, pingRecord

(* A ping that will be answered: it runs with its own callback in the      *)
(* record and the wrapper of no other is under way, or its wrapper has     *)
(* called back and is about to free the record.  What PingIsAnswered takes *)
(* for its end.                                                            *)
Answering(p) ==
    \/ nwpPing = p /\ pingCallback = p /\ wrap = "none"
    \/ told = p /\ wrap = "report"
Answered(p) ==
    \/ told = p /\ ~pingReport
    \/ nwp = OFF
    \/ pingCallback \notin {p, NoPing}

(* The safety half of PingIsAnswered: no step of the two threads, of the   *)
(* NWP or of a later call takes a ping out of that state but to its end.   *)
(* What the fairness of the driver thread adds is that the steps happen.   *)
THEOREM PingStaysAnswerable ==
    ClSpec => [][\A p \in Pings : Answering(p) => Answering(p)' \/ Answered(p)']_clVars
  <1>1. ASSUME ClTypeOK, PingInv, ClNext, NEW p \in Pings, Answering(p)
        PROVE  Answering(p)' \/ Answered(p)'
    <2>1. p \in Nat /\ p # NoPing /\ pings \in Nat /\ nwpPing <= pings
      BY <1>1, ClientAssumption DEF Pings, NoPing, ClTypeOK, PingInv
    <2>2. CASE PingCall \/ PingSetReport
      BY <1>1, <2>2 DEF PingCall, PingSetReport, pingRecord, Answering
    <2>3. CASE PingAccepted
      BY <1>1, <2>1, <2>3 DEF PingAccepted, pingRecord, Answering
    <2>4. CASE PingCalled
      BY <1>1, <2>4 DEF PingCalled, Answering
    <2>5. CASE PingFreed
      BY <1>1, <2>5 DEF PingFreed, Answering, Answered
    <2>6. CASE PingForgotten
      BY <1>1, <2>6 DEF PingForgotten, Answering
    <2>7. CASE nwp' = OFF
      BY <2>7 DEF Answered
    <2>8. CASE UNCHANGED pingVars
      BY <1>1, <2>8 DEF pingVars, pingRecord, Answering
    <2>9. CASE PingSetCallback
      <3>1. pings # p \/ (wrap = "report" /\ told = p)
        BY <1>1, <2>1, <2>9 DEF PingSetCallback, At, Answering, PingInv, Storing
      <3> QED
        BY <1>1, <2>1, <2>9, <3>1 DEF PingSetCallback, Answering, Answered, NoPing
    <2> QED
      BY <1>1, <2>2, <2>3, <2>4, <2>5, <2>6, <2>7, <2>8, <2>9, PingSteps
  <1>2. ClTypeOK /\ PingInv /\ [ClNext]_clVars =>
            [\A p \in Pings : Answering(p) => Answering(p)' \/ Answered(p)']_clVars
    BY <1>1
  <1> QED
    BY <1>2, TypesInit, TypesStep, PingInit, PingStep, PTL DEF ClSpec

(* A ping whose callback was called is one of the past: its callback is    *)
(* not in the record any more once the wrapper has ended.                  *)
Past(p) ==
    /\ pings >= p /\ (Storing => pings > p)
    /\ wrap = "none" => pingCallback # p
Calls(p) == wrap = "none" /\ wrap' = "report" /\ told' = p

(* It stays one.                                                           *)
LEMMA PastStep ==
    ASSUME NEW p \in Pings
    PROVE  ClTypeOK /\ Past(p) /\ [ClNext]_clVars => Past(p)' /\ ~Calls(p)
  <1> SUFFICES ASSUME ClTypeOK, Past(p), [ClNext]_clVars PROVE Past(p)' /\ ~Calls(p)
    OBVIOUS
  <1>1. p \in Nat /\ p # NoPing /\ pings \in Nat
    BY ClientAssumption DEF Pings, NoPing, ClTypeOK
  <1>2. CASE PingCall
    BY <1>1, <1>2 DEF PingCall, pingRecord, Past, Calls, Storing
  <1>3. CASE PingSetReport \/ PingSetCallback
    BY <1>1, <1>3 DEF PingSetReport, PingSetCallback, At, Past, Calls, Storing
  <1>4. CASE PingAccepted
    BY <1>4 DEF PingAccepted, At, pingRecord, Past, Calls, Storing
  <1>5. CASE PingCalled \/ PingFreed \/ PingForgotten
    BY <1>1, <1>5 DEF PingCalled, PingFreed, PingForgotten, pingRecord, Past, Calls, Storing
  <1>6. CASE /\ UNCHANGED <<pingCallback, pings, wrap>>
             /\ clPc' \in {"ping_checked", "ping_report", "ping"} => clPc' = clPc
    BY <1>6 DEF Past, Calls, Storing
  <1> QED
    BY <1>2, <1>3, <1>4, <1>5, <1>6, PingSteps DEF pingVars, pingRecord

(* No callback is called twice, although the wrapper clears the record     *)
(* after the callback has run and a call on the other thread may have      *)
(* filled it again by then.                                                *)
THEOREM CalledBackOnce ==
    ASSUME NEW p \in Pings
    PROVE  ClSpec => []((told = p /\ wrap = "report") => [][~Calls(p)]_clVars)
  <1>1. PingInv /\ told = p /\ wrap = "report" => Past(p)
    BY ClientAssumption DEF PingInv, Past, Pings, Storing
  <1>2. ClTypeOK /\ Past(p) /\ [ClNext]_clVars => Past(p)' /\ [~Calls(p)]_clVars
    BY PastStep
  <1> QED
    BY <1>1, <1>2, TypesInit, TypesStep, PingInit, PingStep, PTL DEF ClSpec

(* A ping with a report that no ping under way and no wrapper will free.   *)
Blocked ==
    /\ pingReport /\ nwpPing = NoPing /\ wrap # "report"
    /\ clPc \notin {"ping_checked", "ping_report", "ping"}

(* Nothing frees it.                                                       *)
LEMMA BlockedStep == ClTypeOK /\ Blocked /\ [ClNext]_clVars => Blocked' /\ pings' = pings
  <1> SUFFICES ASSUME ClTypeOK, Blocked, [ClNext]_clVars PROVE Blocked' /\ pings' = pings
    OBVIOUS
  <1>1. /\ ~PingCall /\ ~PingSetReport /\ ~PingSetCallback /\ ~PingAccepted
        /\ ~PingCalled /\ ~PingFreed
    BY DEF Blocked, PingCall, PingSetReport, PingSetCallback, PingAccepted, PingCalled, PingFreed, At
  <1>2. CASE PingForgotten
    <2>1. UNCHANGED <<clPc, pingReport, nwpPing, pings>> /\ wrap' = "none"
      BY <1>2 DEF PingForgotten
    <2> QED
      BY <2>1 DEF Blocked
  <1>3. ASSUME UNCHANGED <<pingReport, pings, wrap>>, nwpPing' \in {nwpPing, NoPing},
               clPc' \in {"ping_checked", "ping_report", "ping"} => clPc' = clPc
        PROVE  Blocked' /\ pings' = pings
    <2>1. pingReport'
      BY <1>3, Zenon DEF Blocked
    <2> QED
      BY <1>3, <2>1 DEF Blocked
  <1> QED
    BY <1>1, <1>2, <1>3, PingSteps DEF pingVars, pingRecord

(* Two ways lead there: a ping with a report that sl_NetAppPingStart       *)
(* refuses, and a stop while one has not been answered.                    *)
LEMMA WaysToBlock ==
    ASSUME pingReport
    PROVE  /\ PingRefused /\ nwpPing = NoPing /\ wrap # "report" => Blocked'
           /\ ClStop /\ role # STOP => Blocked'
  <1>1. ASSUME PingRefused, nwpPing = NoPing, wrap # "report"
        PROVE  Blocked'
    <2>1. UNCHANGED <<pingReport, nwpPing, wrap>> /\ clPc' = "idle"
      BY <1>1 DEF PingRefused, At, pingVars, pingRecord
    <2> QED
      BY <1>1, <2>1 DEF Blocked
  <1>2. ASSUME ClStop, role # STOP
        PROVE  Blocked'
    <2>1. UNCHANGED <<pingReport, wrap>> /\ wrap = "none" /\ nwpPing' = NoPing /\ clPc' = "idle"
      BY <1>2 DEF ClStop, At, pingRecord
    <2> QED
      BY <2>1 DEF Blocked
  <1> QED
    BY <1>1, <1>2

(* A ping with a report that sl_NetAppPingStart refuses, and one under way *)
(* when sl_stop is called, leave ping_report set, and then no ping is ever *)
(* made again, however often the NWP is stopped and started: neither the   *)
(* error path of sl_netapp_ping nor sl_stop nor sl_start clears it.        *)
THEOREM LostPingBlocksPings == ClSpec => [](Blocked => []Blocked /\ [][pings' = pings]_clVars)
  <1>1. ClTypeOK /\ Blocked /\ [ClNext]_clVars => Blocked' /\ [pings' = pings]_clVars
    BY BlockedStep
  <1> QED
    BY <1>1, TypesInit, TypesStep, PTL DEF ClSpec
===============================================================================
