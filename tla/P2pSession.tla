----------------------------- MODULE P2pSession -----------------------------
(***************************************************************************)
(* examples/doorbell/main.c, the part that serves a peer-to-peer call.     *)
(* The iotkit task handles the server's call events and runs spawned       *)
(* calls.  The p2p task runs iotk_p2p_runloop, which calls back into       *)
(* main.c: for an SDP update it hands a message on its own stack to the    *)
(* iotkit task and waits for the synchronisation object in it; for         *)
(* outgoing data it moves one packet from the camera to the peer.          *)
(*                                                                         *)
(* External: the two run loops, the spawn queue, the p2p core (the call it *)
(* has accepted), and the camera link, whose buffer holds packets of the   *)
(* open channel only.                                                      *)
(***************************************************************************)
EXTENDS PalEventOps, Sequences

CONSTANTS
    Port,           \* the port of the platform layer main.c runs on
    SpawnCap,       \* calls iotk_spawn can hold
    MaxCalls, MaxSdp, MaxPackets, MaxOther  \* bounds: call events, updates, packets, other spawned calls

(* The uC/OS port cannot run this program: it has no iotk_task_create.     *)
ASSUME PortAssumption == Port \in Ports /\ Port.typed
ASSUME SizeAssumption ==
    /\ SpawnCap \in Nat \ {0}
    /\ {MaxCalls, MaxSdp, MaxPackets, MaxOther} \subseteq Nat

NoCall == 0
None == [call |-> NoCall, n |-> 0]      \* no packet

VARIABLES
    call,       \* last_p2p_caller and last_p2p_call_id; NoCall when cleared
    calls,      \* calls set up so far; also the newest call's number
    iotk,       \* the iotkit task: "loop", or where in a handler it is
    spawnq,     \* spawned calls: the number of an SDP message, or 0 for another call
    others,     \* other calls spawned so far
    accepted,   \* external: the call the p2p core serves
    rtp,        \* external: the call the camera channel was opened for
    camera,     \* external: packets the camera has ready
    made,       \* packets made so far
    p2p,        \* the p2p task: "run", or where in a callback it is
    frame,      \* number of the newest IOTK_SYNC_MSG, alive while p2p is in its callback
    signal,     \* count of its synchronisation object
    held,       \* _buffer, None while _buffer_len is 0
    hand,       \* the packet the outgoing callback is about to send
    sent,       \* history: number of the newest message whose update was sent
    unheard,    \* history: iotk_spawn failed for the newest message
    out,        \* history: packets sent, in order
    stale       \* history: packets of another call sent since the channel was opened

iotkVars == <<call, calls, iotk>>
p2pVars == <<p2p, frame, signal, unheard>>
dataVars == <<rtp, camera, made, held, hand, out, stale>>
sessionVars == <<iotkVars, p2pVars, dataVars, spawnq, others, accepted, sent>>

SessionInit ==
    /\ call = NoCall /\ calls = 0 /\ iotk = "loop"
    /\ spawnq = << >> /\ others = 0
    /\ accepted = NoCall
    /\ rtp = NoCall /\ camera = << >> /\ made = 0
    /\ p2p = "run" /\ frame = 0 /\ signal = 0
    /\ held = None /\ hand = None
    /\ sent = 0 /\ unheard = FALSE
    /\ out = << >> /\ stale = 0
-----------------------------------------------------------------------------
(* The iotkit task: call events.  The operators marked "wrong", here and   *)
(* below, are plausible mistakes in the operator that follows them.        *)

IotkAt(l, next) == iotk = l /\ iotk' = next

SetupStore ==               \* a new call may arrive while one is up
    /\ calls < MaxCalls
    /\ IotkAt("loop", "accept")
    /\ calls' = calls + 1
    /\ call' = calls + 1
    /\ UNCHANGED <<p2pVars, dataVars, spawnq, others, accepted, sent>>

SetupAccept ==              \* iotk_p2p_accept_call
    /\ IotkAt("accept", "open")
    /\ accepted' = call
    /\ UNCHANGED <<call, calls, p2pVars, dataVars, spawnq, others, sent>>

SetupOpen ==                \* jfg_rtp_open, then the response
    /\ IotkAt("open", "loop")
    /\ rtp' = call
    /\ camera' = << >>
    /\ stale' = 0
    /\ UNCHANGED <<call, calls, p2pVars, made, held, hand, out, spawnq, others, accepted, sent>>

DisconnectKeepsCall ==      \* wrong
    /\ calls > 0
    /\ IotkAt("loop", "close")
    /\ UNCHANGED <<call, calls, p2pVars, dataVars, spawnq, others, accepted, sent>>

DisconnectClear ==
    /\ calls > 0
    /\ IotkAt("loop", "close")
    /\ call' = NoCall
    /\ UNCHANGED <<calls, p2pVars, dataVars, spawnq, others, accepted, sent>>

DisconnectClose ==          \* jfg_rtp_close; the p2p core is not told
    /\ IotkAt("close", "loop")
    /\ rtp' = NoCall
    /\ camera' = << >>
    /\ UNCHANGED <<call, calls, p2pVars, made, held, hand, out, stale, spawnq, others, accepted, sent>>
-----------------------------------------------------------------------------
(* The iotkit task: spawned calls.                                         *)

RunOther ==
    /\ iotk = "loop"
    /\ spawnq # << >> /\ Head(spawnq) = 0
    /\ spawnq' = Tail(spawnq)
    /\ UNCHANGED <<iotkVars, p2pVars, dataVars, others, accepted, sent>>

RunSdpSignalFirst ==        \* wrong: signals before it sends
    /\ IotkAt("loop", "signal")
    /\ spawnq # << >> /\ Head(spawnq) # 0
    /\ signal' = signal + 1
    /\ UNCHANGED <<call, calls, p2p, frame, unheard, dataVars, spawnq, others, accepted, sent>>

(* _app_do_send_sdp_update sends with the caller and call id of now, not   *)
(* of the time the update was made.                                        *)
RunSdpSend ==
    /\ IotkAt("loop", "signal")
    /\ spawnq # << >> /\ Head(spawnq) # 0
    /\ sent' = Head(spawnq)
    /\ UNCHANGED <<call, calls, p2pVars, dataVars, spawnq, others, accepted>>

RunSdpNoSignal ==           \* wrong
    /\ IotkAt("signal", "loop")
    /\ spawnq' = Tail(spawnq)
    /\ UNCHANGED <<call, calls, p2pVars, dataVars, others, accepted, sent>>

RunSdpSignal ==             \* iotk_event_set; the call has ended
    /\ IotkAt("signal", "loop")
    /\ spawnq' = Tail(spawnq)
    /\ signal' = IF CanSet(Port, signal) THEN signal + 1 ELSE signal
    /\ UNCHANGED <<call, calls, p2p, frame, unheard, dataVars, others, accepted, sent>>

SpawnOther ==               \* another thread, such as the SimpleLink driver's
    /\ others < MaxOther
    /\ Len(spawnq) < SpawnCap
    /\ others' = others + 1
    /\ spawnq' = Append(spawnq, 0)
    /\ UNCHANGED <<iotkVars, p2pVars, dataVars, accepted, sent>>
-----------------------------------------------------------------------------
(* The p2p task: _app_on_iotk_p2p_sdp_update.                              *)

P2pAt(l, next) == p2p = l /\ p2p' = next

SdpCreate ==
    /\ accepted # NoCall
    /\ frame < MaxSdp
    /\ P2pAt("run", "spawn")
    /\ frame' = frame + 1
    /\ signal' = Port.init
    /\ unheard' = FALSE
    /\ UNCHANGED <<iotkVars, dataVars, spawnq, others, accepted, sent>>

SdpSpawnNoLimit ==          \* wrong
    /\ P2pAt("spawn", "wait")
    /\ spawnq' = Append(spawnq, frame)
    /\ UNCHANGED <<iotkVars, frame, signal, unheard, dataVars, others, accepted, sent>>

SdpSpawn ==                 \* iotk_spawn; its result is not looked at
    /\ P2pAt("spawn", "wait")
    /\ IF Len(spawnq) < SpawnCap
         THEN spawnq' = Append(spawnq, frame) /\ UNCHANGED unheard
         ELSE unheard' = TRUE /\ UNCHANGED spawnq
    /\ UNCHANGED <<iotkVars, frame, signal, dataVars, others, accepted, sent>>

SdpWakeEarly ==             \* wrong: the wait has a timeout
    /\ P2pAt("wait", "delete")
    /\ UNCHANGED <<iotkVars, frame, signal, unheard, dataVars, spawnq, others, accepted, sent>>

SdpWake ==                  \* iotk_event_wait returns; its result is not looked at
    /\ P2pAt("wait", "delete")
    /\ Port.forever => CanTake(Port, signal)
    /\ signal' = IF CanTake(Port, signal) THEN signal - 1 ELSE signal
    /\ UNCHANGED <<iotkVars, frame, unheard, dataVars, spawnq, others, accepted, sent>>

SdpDelete ==
    /\ P2pAt("delete", "run")
    /\ UNCHANGED <<iotkVars, frame, signal, unheard, dataVars, spawnq, others, accepted, sent>>
-----------------------------------------------------------------------------
(* The p2p task: _app_on_iotk_p2p_data_outgoing.                           *)

CameraMakes ==
    /\ rtp # NoCall
    /\ made < MaxPackets
    /\ made' = made + 1
    /\ camera' = Append(camera, [call |-> rtp, n |-> made + 1])
    /\ UNCHANGED <<iotkVars, p2pVars, rtp, held, hand, out, stale, spawnq, others, accepted, sent>>

OutFetchFresh ==            \* wrong: does not look at _buffer_len
    /\ P2pAt("run", "send")
    /\ camera # << >>
    /\ hand' = Head(camera)
    /\ camera' = Tail(camera)
    /\ UNCHANGED <<iotkVars, frame, signal, unheard, rtp, made, held, out, stale, spawnq, others, accepted, sent>>

OutFetch ==                 \* what is in _buffer, else jfg_rtp_read
    /\ P2pAt("run", "send")
    /\ \/ held # None /\ hand' = held /\ UNCHANGED camera
       \/ /\ held = None
          /\ camera # << >>
          /\ hand' = Head(camera)
          /\ camera' = Tail(camera)
    /\ UNCHANGED <<iotkVars, frame, signal, unheard, rtp, made, held, out, stale, spawnq, others, accepted, sent>>

OutSentKeepsBuffer ==       \* wrong: _buffer_len is not reset
    /\ P2pAt("send", "run")
    /\ out' = Append(out, hand)
    /\ stale' = IF hand.call # accepted THEN stale + 1 ELSE stale
    /\ hand' = None
    /\ UNCHANGED <<iotkVars, frame, signal, unheard, rtp, camera, made, held, spawnq, others, accepted, sent>>

OutSent ==                  \* p2p_send took the whole packet
    /\ P2pAt("send", "run")
    /\ out' = Append(out, hand)
    /\ stale' = IF hand.call # accepted THEN stale + 1 ELSE stale
    /\ held' = None /\ hand' = None
    /\ UNCHANGED <<iotkVars, frame, signal, unheard, rtp, camera, made, spawnq, others, accepted, sent>>

OutKept ==                  \* it did not: keep the packet for the next time
    /\ P2pAt("send", "run")
    /\ held' = hand /\ hand' = None
    /\ UNCHANGED <<iotkVars, frame, signal, unheard, rtp, camera, made, out, stale, spawnq, others, accepted, sent>>
-----------------------------------------------------------------------------
Handler == SetupAccept \/ SetupOpen \/ DisconnectClose \/ RunSdpSignal
RunSpawned == RunOther \/ RunSdpSend

SdpStep == SdpSpawn \/ SdpWake \/ SdpDelete

SessionNext ==
    \/ SetupStore \/ DisconnectClear \/ Handler \/ RunSpawned
    \/ SpawnOther
    \/ SdpCreate \/ SdpStep
    \/ CameraMakes
    \/ OutFetch \/ OutSent \/ OutKept

(* Both tasks run on; iotk_run takes call events and spawned calls in      *)
(* turn, so call events cannot keep it from spawned calls (SF).            *)
SessionFairness == WF_sessionVars(Handler) /\ SF_sessionVars(RunSpawned) /\ WF_sessionVars(SdpStep)

SessionSpec == SessionInit /\ [][SessionNext]_sessionVars /\ SessionFairness
-----------------------------------------------------------------------------
(* Properties.                                                             *)

Packet == [call : 0 .. MaxCalls, n : 0 .. MaxPackets]

(* Types of the variables of both tasks.                                   *)
SessionTypeOK ==
    /\ call \in 0 .. MaxCalls /\ calls \in 0 .. MaxCalls
    /\ iotk \in {"loop", "accept", "open", "close", "signal"}
    /\ spawnq \in Seq(0 .. MaxSdp) /\ Len(spawnq) <= SpawnCap
    /\ accepted \in 0 .. MaxCalls /\ rtp \in 0 .. MaxCalls
    /\ p2p \in {"run", "spawn", "wait", "delete", "send"}
    /\ frame \in 0 .. MaxSdp /\ sent \in 0 .. MaxSdp
    /\ signal \in Nat
    /\ made \in 0 .. MaxPackets
    /\ camera \in Seq(Packet) /\ held \in Packet /\ hand \in Packet
    /\ others \in Nat /\ unheard \in BOOLEAN

(* A message a spawned call will use is on the p2p task's stack and its    *)
(* synchronisation object exists: the task that owns them is still         *)
(* waiting.  This includes the call under way in the iotkit task.          *)
NoDanglingMessage == \A i \in 1 .. Len(spawnq) :
    spawnq[i] # 0 => spawnq[i] = frame /\ p2p = "wait"

(* main.c:349, "wait until sdp data sent": the callback goes on only after *)
(* the update of its own message was sent.                                 *)
WaitUntilSent == p2p = "delete" => sent = frame

(* The p2p task gets out of the callback, unless iotk_spawn failed: then   *)
(* it waits for ever and no media flows in any later call.                 *)
CallbackReturns == p2p = "wait" ~> (p2p = "run" \/ unheard)

(* Whenever the iotkit task is between events, the stored call, the call   *)
(* the p2p core serves and the camera channel belong together.             *)
CallAgrees ==
    iotk \in {"loop", "signal"} =>
        /\ call \in {NoCall, accepted}
        /\ rtp = call

(* No packet is lost, repeated or overtaken between the camera and the     *)
(* peer while p2p_send refuses and accepts at will, except that the ones   *)
(* the camera still has are lost when its channel is closed or reopened.   *)
OutgoingInOrder ==
    LET buffered == CASE held # None -> <<held>>
                      [] held = None /\ hand # None -> <<hand>>
                      [] OTHER -> << >>
        all == out \o buffered \o camera
    IN  \A i \in 1 .. Len(all) - 1 :
            IF all[i].call = all[i + 1].call
              THEN all[i + 1].n = all[i].n + 1
              ELSE all[i + 1].n > all[i].n

(* The static buffer outlives the call it was filled in: once the channel  *)
(* of a new call is open its peer may get one packet of an earlier call,   *)
(* never more.  (Before it is open, packets of a call that was not         *)
(* disconnected go to the new peer without limit.)                         *)
OneStalePacket == iotk # "open" => stale <= 1
=============================================================================
