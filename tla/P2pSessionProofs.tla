-------------------------- MODULE P2pSessionProofs --------------------------
(***************************************************************************)
(* Theorems about P2pSession, for any bounds.                              *)
(*                                                                         *)
(* The message the p2p task hands to the iotkit task lives on the p2p      *)
(* task's stack, so what must be shown is that its use ends before the p2p *)
(* task goes on.  That holds on the ports whose synchronisation objects    *)
(* start without a signal and whose waits for ever do not time out.  What  *)
(* follows it, about calls and packets, holds on all of them.  So does     *)
(* what the return of the callback rests on (SignalOwed): the signal comes *)
(* unless iotk_spawn failed, and then the task hangs (Hung).               *)
(***************************************************************************)
EXTENDS P2pSession, SequenceTheorems, TLAPS

(* The part of the types the argument needs.                               *)
SdpTypes ==
    /\ spawnq \in Seq(Nat)
    /\ frame \in Nat /\ sent \in Nat /\ signal \in Nat

(* At most one call in the spawn queue is for a message.                   *)
OneMessage == \A i, j \in 1 .. Len(spawnq) :
    spawnq[i] # 0 /\ spawnq[j] # 0 => i = j

(* A signal means that the update was sent and its call has left the queue. *)
SignalMeansSent ==
    p2p = "wait" /\ signal > 0 =>
        /\ sent = frame
        /\ \A i \in 1 .. Len(spawnq) : spawnq[i] = 0

(* Between sending and signalling the call is at the head of the queue.    *)
SenderAtHead ==
    iotk = "signal" =>
        /\ Len(spawnq) > 0
        /\ spawnq[1] # 0
        /\ sent = spawnq[1]

(* The object of a message is created without a signal.                    *)
FreshSignal == p2p = "spawn" => signal = 0

(* The inductive invariant of the SDP update.                              *)
SdpInv ==
    /\ SdpTypes
    /\ NoDanglingMessage
    /\ OneMessage
    /\ SignalMeansSent
    /\ SenderAtHead
    /\ FreshSignal
    /\ WaitUntilSent

USE DEF SdpInv

(* The invariant holds initially: nothing is queued, no one waits.         *)
LEMMA SdpInit == SessionInit => SdpInv
  BY DEF SessionInit, SdpTypes, NoDanglingMessage, OneMessage, SignalMeansSent,
         SenderAtHead, FreshSignal, WaitUntilSent

(* While the p2p task is not waiting no message is queued or in use.       *)
LEMMA NotWaiting ==
    ASSUME SdpInv, p2p # "wait"
    PROVE  /\ \A i \in 1 .. Len(spawnq) : spawnq[i] = 0
           /\ iotk # "signal"
  <1>1. \A i \in 1 .. Len(spawnq) : spawnq[i] = 0
    BY DEF NoDanglingMessage
  <1>2. Len(spawnq) \in Nat
    BY DEF SdpTypes
  <1>3. iotk # "signal"
    BY <1>1, <1>2 DEF SenderAtHead
  <1> QED
    BY <1>1, <1>3

(* What the two ways to change a queue do to its elements.                 *)
LEMMA TailElements ==
    ASSUME NEW s \in Seq(Nat), s # << >>
    PROVE  /\ Tail(s) \in Seq(Nat)
           /\ Len(s) > 0 /\ Head(s) = s[1]
           /\ Len(Tail(s)) = Len(s) - 1
           /\ \A i \in 1 .. Len(Tail(s)) : i + 1 \in 1 .. Len(s) /\ Tail(s)[i] = s[i + 1]
  OBVIOUS

(* The same for the tail end.                                              *)
LEMMA AppendElements ==
    ASSUME NEW s \in Seq(Nat), NEW x \in Nat
    PROVE  /\ Append(s, x) \in Seq(Nat)
           /\ Len(Append(s, x)) = Len(s) + 1
           /\ \A i \in 1 .. Len(s) : Append(s, x)[i] = s[i]
           /\ Append(s, x)[Len(s) + 1] = x
  OBVIOUS
-----------------------------------------------------------------------------
(* The steps that touch neither the message, nor its object, nor the queue. *)
LEMMA QuietStep ==
    ASSUME SdpInv,
           \/ SetupStore \/ SetupAccept \/ SetupOpen \/ DisconnectClear \/ DisconnectClose
           \/ CameraMakes
           \/ OutFetch \/ OutSent \/ OutKept
           \/ UNCHANGED sessionVars
    PROVE  SdpInv'
  <1>1. UNCHANGED <<spawnq, frame, sent, signal>>
    BY DEF SetupStore, SetupAccept, SetupOpen, DisconnectClear, DisconnectClose, CameraMakes,
           OutFetch, OutSent, OutKept, sessionVars, p2pVars, iotkVars, dataVars
  <1>2. \/ p2p' = p2p
        \/ p2p \in {"run", "send"} /\ p2p' \in {"run", "send"}
    BY DEF SetupStore, SetupAccept, SetupOpen, DisconnectClear, DisconnectClose, CameraMakes,
           OutFetch, OutSent, OutKept, sessionVars, p2pVars, iotkVars, dataVars, P2pAt
  <1>3. iotk' = iotk \/ iotk' # "signal"
    BY DEF SetupStore, SetupAccept, SetupOpen, DisconnectClear, DisconnectClose, CameraMakes,
           OutFetch, OutSent, OutKept, sessionVars, p2pVars, iotkVars, dataVars, IotkAt
  <1> QED
    BY <1>1, <1>2, <1>3 DEF SdpTypes, NoDanglingMessage, OneMessage, SignalMeansSent,
       SenderAtHead, FreshSignal, WaitUntilSent

(* A call that is no message leaves the queue.                             *)
LEMMA RunOtherStep ==
    ASSUME SdpInv, RunOther
    PROVE  SdpInv'
  <1>1. /\ spawnq # << >> /\ spawnq' = Tail(spawnq)
        /\ iotk = "loop"
        /\ UNCHANGED <<iotk, p2p, frame, signal, sent>>
    BY DEF RunOther, iotkVars, p2pVars
  <1>2. /\ spawnq' \in Seq(Nat)
        /\ \A i \in 1 .. Len(spawnq') : i + 1 \in 1 .. Len(spawnq) /\ spawnq'[i] = spawnq[i + 1]
    BY <1>1, TailElements DEF SdpTypes
  <1>3. SdpTypes' /\ SenderAtHead' /\ FreshSignal' /\ WaitUntilSent'
    BY <1>1, <1>2 DEF SdpTypes, SenderAtHead, FreshSignal, WaitUntilSent
  <1>4. NoDanglingMessage' /\ SignalMeansSent'
    BY <1>1, <1>2 DEF NoDanglingMessage, SignalMeansSent
  <1>5. OneMessage'
    BY <1>1, <1>2 DEF OneMessage
  <1> QED
    BY <1>3, <1>4, <1>5

(* Another thread's call enters the queue.                                 *)
LEMMA SpawnOtherStep ==
    ASSUME SdpInv, SpawnOther
    PROVE  SdpInv'
  <1>1. spawnq' = Append(spawnq, 0) /\ UNCHANGED <<iotk, p2p, frame, signal, sent>>
    BY DEF SpawnOther, iotkVars, p2pVars
  <1>2. /\ spawnq' \in Seq(Nat)
        /\ Len(spawnq) \in Nat /\ Len(spawnq') = Len(spawnq) + 1
        /\ \A i \in 1 .. Len(spawnq) : spawnq'[i] = spawnq[i]
        /\ spawnq'[Len(spawnq) + 1] = 0
    BY <1>1, AppendElements DEF SdpTypes
  <1>3. \A i \in 1 .. Len(spawnq') :
          spawnq'[i] # 0 => i \in 1 .. Len(spawnq) /\ spawnq'[i] = spawnq[i]
    BY <1>2
  <1>4. SdpTypes' /\ SenderAtHead' /\ FreshSignal' /\ WaitUntilSent'
    BY <1>1, <1>2 DEF SdpTypes, SenderAtHead, FreshSignal, WaitUntilSent
  <1>5. NoDanglingMessage' /\ OneMessage'
    BY <1>1, <1>3 DEF NoDanglingMessage, OneMessage
  <1>6. SignalMeansSent'
    BY <1>1, <1>3 DEF SignalMeansSent
  <1> QED
    BY <1>4, <1>5, <1>6

(* The iotkit task sends the update of the message at the head.            *)
LEMMA RunSdpSendStep ==
    ASSUME SdpInv, RunSdpSend
    PROVE  SdpInv'
  <1>1. /\ spawnq # << >> /\ Head(spawnq) # 0
        /\ sent' = Head(spawnq) /\ iotk' = "signal"
        /\ UNCHANGED <<spawnq, p2p, frame, signal>>
    BY DEF RunSdpSend, IotkAt, p2pVars
  <1>2. Len(spawnq) > 0 /\ Len(spawnq) \in Nat /\ Head(spawnq) = spawnq[1] /\ spawnq[1] \in Nat
    BY <1>1 DEF SdpTypes
  <1>3. spawnq[1] = frame /\ p2p = "wait"
    BY <1>1, <1>2 DEF NoDanglingMessage
  <1> QED
    BY <1>1, <1>2, <1>3 DEF SdpTypes, NoDanglingMessage, OneMessage, SignalMeansSent,
       SenderAtHead, FreshSignal, WaitUntilSent

(* It signals, and no call for a message is left.                          *)
LEMMA RunSdpSignalStep ==
    ASSUME SdpInv, RunSdpSignal
    PROVE  SdpInv'
  <1>1. /\ iotk = "signal" /\ iotk' = "loop" /\ spawnq' = Tail(spawnq)
        /\ signal' \in {signal, signal + 1}
        /\ UNCHANGED <<p2p, frame, sent>>
    BY DEF RunSdpSignal, IotkAt
  <1>2. Len(spawnq) > 0 /\ Len(spawnq) \in Nat /\ spawnq[1] # 0 /\ sent = spawnq[1] /\ spawnq # << >>
    BY <1>1 DEF SenderAtHead, SdpTypes
  <1>3. spawnq[1] = frame /\ p2p = "wait"
    BY <1>2 DEF NoDanglingMessage
  <1>4. /\ spawnq' \in Seq(Nat)
        /\ \A i \in 1 .. Len(spawnq') : i + 1 \in 1 .. Len(spawnq) /\ spawnq'[i] = spawnq[i + 1]
    BY <1>1, <1>2, TailElements DEF SdpTypes
  <1>5. Len(spawnq') \in Nat
    BY <1>4
  <1>6. \A i \in 1 .. Len(spawnq') : spawnq'[i] = 0
    <2> SUFFICES ASSUME NEW i \in 1 .. Len(spawnq') PROVE spawnq'[i] = 0
      OBVIOUS
    <2>1. i \in Nat /\ i >= 1 /\ i + 1 # 1 /\ 1 \in 1 .. Len(spawnq)
      BY <1>2, <1>5
    <2> QED
      BY <1>2, <1>4, <2>1 DEF OneMessage
  <1> QED
    BY <1>1, <1>2, <1>3, <1>4, <1>6 DEF SdpTypes, NoDanglingMessage, OneMessage,
       SignalMeansSent, SenderAtHead, FreshSignal, WaitUntilSent
-----------------------------------------------------------------------------
(* A new message: the object is created without a signal.                  *)
LEMMA SdpCreateStep ==
    ASSUME SdpInv, SdpCreate, Port.init = 0
    PROVE  SdpInv'
  <1>1. /\ p2p = "run" /\ p2p' = "spawn" /\ frame' = frame + 1 /\ signal' = 0
        /\ UNCHANGED <<iotk, spawnq, sent>>
    BY DEF SdpCreate, P2pAt, iotkVars
  <1>2. (\A i \in 1 .. Len(spawnq) : spawnq[i] = 0) /\ iotk # "signal"
    BY <1>1, NotWaiting
  <1> QED
    BY <1>1, <1>2 DEF SdpTypes, NoDanglingMessage, OneMessage, SignalMeansSent,
       SenderAtHead, FreshSignal, WaitUntilSent

(* The message enters the queue, the only one in it, or is refused.        *)
LEMMA SdpSpawnStep ==
    ASSUME SdpInv, SdpSpawn
    PROVE  SdpInv'
  <1>1. /\ p2p = "spawn" /\ p2p' = "wait"
        /\ spawnq' \in {spawnq, Append(spawnq, frame)}
        /\ UNCHANGED <<iotk, frame, signal, sent>>
    BY DEF SdpSpawn, P2pAt, iotkVars
  <1>2. (\A i \in 1 .. Len(spawnq) : spawnq[i] = 0) /\ iotk # "signal" /\ signal = 0
    BY <1>1, NotWaiting DEF FreshSignal
  <1>3. CASE spawnq' = spawnq
    BY <1>1, <1>2, <1>3 DEF SdpTypes, NoDanglingMessage, OneMessage, SignalMeansSent,
       SenderAtHead, FreshSignal, WaitUntilSent
  <1>4. CASE spawnq' = Append(spawnq, frame)
    <2>1. /\ spawnq' \in Seq(Nat)
          /\ Len(spawnq) \in Nat /\ Len(spawnq') = Len(spawnq) + 1
          /\ \A i \in 1 .. Len(spawnq) : spawnq'[i] = spawnq[i]
          /\ spawnq'[Len(spawnq) + 1] = frame
      BY <1>4, AppendElements DEF SdpTypes
    <2>2. \A i \in 1 .. Len(spawnq') :
            spawnq'[i] # 0 => i = Len(spawnq) + 1 /\ spawnq'[i] = frame
      BY <1>2, <2>1
    <2> QED
      BY <1>1, <1>2, <2>1, <2>2 DEF SdpTypes, NoDanglingMessage, OneMessage, SignalMeansSent,
         SenderAtHead, FreshSignal, WaitUntilSent
  <1> QED
    BY <1>1, <1>3, <1>4

(* The wait returns, so there was a signal: the update was sent.           *)
LEMMA SdpWakeStep ==
    ASSUME SdpInv, SdpWake, Port.forever
    PROVE  SdpInv'
  <1>1. /\ p2p = "wait" /\ p2p' = "delete"
        /\ signal > 0 /\ signal' = signal - 1
        /\ UNCHANGED <<iotk, spawnq, frame, sent>>
    BY DEF SdpWake, P2pAt, CanTake, iotkVars
  <1>2. sent = frame /\ \A i \in 1 .. Len(spawnq) : spawnq[i] = 0
    BY <1>1 DEF SignalMeansSent
  <1>3. iotk # "signal"
    BY <1>2 DEF SenderAtHead, SdpTypes
  <1> QED
    BY <1>1, <1>2, <1>3 DEF SdpTypes, NoDanglingMessage, OneMessage, SignalMeansSent,
       SenderAtHead, FreshSignal, WaitUntilSent

(* The object is deleted and the callback returns.                         *)
LEMMA SdpDeleteStep ==
    ASSUME SdpInv, SdpDelete
    PROVE  SdpInv'
  <1>1. /\ p2p = "delete" /\ p2p' = "run"
        /\ UNCHANGED <<iotk, spawnq, frame, signal, sent>>
    BY DEF SdpDelete, P2pAt, iotkVars
  <1>2. (\A i \in 1 .. Len(spawnq) : spawnq[i] = 0) /\ iotk # "signal"
    BY <1>1, NotWaiting
  <1> QED
    BY <1>1, <1>2 DEF SdpTypes, NoDanglingMessage, OneMessage, SignalMeansSent,
       SenderAtHead, FreshSignal, WaitUntilSent

(* The invariant is inductive on such a port.                              *)
LEMMA SdpStepInv ==
    ASSUME Port.init = 0, Port.forever
    PROVE  SdpInv /\ [SessionNext]_sessionVars => SdpInv'
  <1> SUFFICES ASSUME SdpInv, [SessionNext]_sessionVars PROVE SdpInv'
    OBVIOUS
  <1>1. CASE RunOther
    BY <1>1, RunOtherStep
  <1>2. CASE SpawnOther
    BY <1>2, SpawnOtherStep
  <1>3. CASE RunSdpSend
    BY <1>3, RunSdpSendStep
  <1>4. CASE RunSdpSignal
    BY <1>4, RunSdpSignalStep
  <1>5. CASE SdpCreate
    BY <1>5, SdpCreateStep
  <1>6. CASE SdpSpawn
    BY <1>6, SdpSpawnStep
  <1>7. CASE SdpWake
    BY <1>7, SdpWakeStep
  <1>8. CASE SdpDelete
    BY <1>8, SdpDeleteStep
  <1> QED
    BY <1>1, <1>2, <1>3, <1>4, <1>5, <1>6, <1>7, <1>8, QuietStep
       DEF SessionNext, Handler, RunSpawned, SdpStep

(* Hence it holds in every reachable state.                                *)
LEMMA SdpAlways ==
    ASSUME Port.init = 0, Port.forever
    PROVE  SessionSpec => []SdpInv
  <1>1. SessionInit => SdpInv
    BY SdpInit
  <1>2. SdpInv /\ [SessionNext]_sessionVars => SdpInv'
    BY SdpStepInv
  <1> QED
    BY <1>1, <1>2, PTL DEF SessionSpec
-----------------------------------------------------------------------------
(* The iotkit task never uses a message, or sets its object, after the p2p *)
(* task went on: for every size of the spawn queue and every number of     *)
(* other calls in it, on every port whose iotk_event_create gives no       *)
(* signal and whose iotk_event_wait waits for ever.                        *)
THEOREM MessageOutlivesItsUse ==
    ASSUME Port.init = 0, Port.forever
    PROVE  SessionSpec => []NoDanglingMessage
  <1>1. SdpInv => NoDanglingMessage
    OBVIOUS
  <1> QED
    BY <1>1, SdpAlways, PTL

(* On those ports the p2p task goes on only when its update was sent.      *)
THEOREM WaitsUntilSent ==
    ASSUME Port.init = 0, Port.forever
    PROVE  SessionSpec => []WaitUntilSent
  <1>1. SdpInv => WaitUntilSent
    OBVIOUS
  <1> QED
    BY <1>1, SdpAlways, PTL
-----------------------------------------------------------------------------
(* Types.                                                                  *)

(* The types, of the history of packets too; a message being sent has not  *)
(* left the queue.                                                         *)
Typed ==
    /\ SessionTypeOK
    /\ out \in Seq(Packet)
    /\ iotk = "signal" => Len(spawnq) > 0

(* Nothing is set up initially.                                            *)
LEMMA TypedInit == SessionInit => Typed
  <1> SUFFICES ASSUME SessionInit PROVE Typed
    OBVIOUS
  <1>1. None \in Packet /\ 0 \in 0 .. MaxCalls /\ 0 \in 0 .. MaxSdp /\ 0 \in 0 .. MaxPackets
    BY SizeAssumption DEF None, NoCall, Packet
  <1>2. /\ spawnq \in Seq(0 .. MaxSdp) /\ Len(spawnq) <= SpawnCap
        /\ camera \in Seq(Packet) /\ out \in Seq(Packet)
    BY SizeAssumption DEF SessionInit
  <1> QED
    BY <1>1, <1>2 DEF SessionInit, Typed, SessionTypeOK, NoCall

(* The iotkit task's handlers keep the types.                              *)
LEMMA HandlerTypes ==
    ASSUME Typed, SetupStore \/ SetupAccept \/ SetupOpen \/ DisconnectClear \/ DisconnectClose
    PROVE  Typed'
  <1> USE DEF Typed, SessionTypeOK
  <1>1. NoCall \in 0 .. MaxCalls /\ MaxCalls \in Nat
    BY SizeAssumption DEF NoCall
  <1>2. CASE SetupStore
    BY <1>1, <1>2 DEF SetupStore, IotkAt, p2pVars, dataVars
  <1>3. CASE SetupAccept
    BY <1>3 DEF SetupAccept, IotkAt, p2pVars, dataVars
  <1>4. CASE DisconnectClear
    BY <1>1, <1>4 DEF DisconnectClear, IotkAt, p2pVars, dataVars
  <1>5. << >> \in Seq(Packet)
    OBVIOUS
  <1>6. CASE SetupOpen
    BY <1>5, <1>6 DEF SetupOpen, IotkAt, p2pVars
  <1>7. CASE DisconnectClose
    BY <1>1, <1>5, <1>7 DEF DisconnectClose, IotkAt, p2pVars
  <1> QED
    BY <1>2, <1>3, <1>4, <1>6, <1>7

(* So do the spawned calls, which enter a queue with room and leave it.    *)
LEMMA QueueTypes ==
    ASSUME Typed, RunOther \/ RunSdpSend \/ RunSdpSignal \/ SpawnOther \/ SdpSpawn
    PROVE  Typed'
  <1> USE DEF Typed, SessionTypeOK
  <1>1. SpawnCap \in Nat /\ MaxSdp \in Nat
    BY SizeAssumption
  <1>2. spawnq # << >> => /\ Tail(spawnq) \in Seq(0 .. MaxSdp)
                          /\ Len(Tail(spawnq)) = Len(spawnq) - 1
                          /\ Head(spawnq) \in 0 .. MaxSdp
    BY HeadTailProperties
  <1>3. ASSUME NEW x \in 0 .. MaxSdp
        PROVE  /\ Append(spawnq, x) \in Seq(0 .. MaxSdp)
               /\ Len(Append(spawnq, x)) = Len(spawnq) + 1
    BY <1>3, AppendProperties
  <1>4. Len(spawnq) \in Nat
    OBVIOUS
  <1>5. CASE RunOther
    BY <1>1, <1>2, <1>4, <1>5 DEF RunOther, iotkVars, p2pVars, dataVars
  <1>6. CASE RunSdpSend
    BY <1>2, <1>4, <1>6 DEF RunSdpSend, IotkAt, p2pVars, dataVars
  <1>7. CASE RunSdpSignal
    <2>1. Len(spawnq) > 0 /\ signal' \in Nat /\ iotk' = "loop" /\ spawnq' = Tail(spawnq)
      BY <1>7 DEF RunSdpSignal, IotkAt
    <2>2. spawnq' \in Seq(0 .. MaxSdp) /\ Len(spawnq') <= SpawnCap
      BY <1>1, <1>2, <1>4, <2>1
    <2> QED
      BY <1>7, <2>1, <2>2 DEF RunSdpSignal, dataVars
  <1>8. CASE SpawnOther
    <2>1. spawnq' = Append(spawnq, 0) /\ Len(spawnq) < SpawnCap /\ 0 \in 0 .. MaxSdp
      BY <1>1, <1>8 DEF SpawnOther
    <2>2. spawnq' \in Seq(0 .. MaxSdp) /\ Len(spawnq') = Len(spawnq) + 1
      BY <1>3, <2>1
    <2> QED
      BY <1>1, <1>4, <1>8, <2>1, <2>2 DEF SpawnOther, iotkVars, p2pVars, dataVars
  <1>9. CASE SdpSpawn
    <2>1. \/ spawnq' = spawnq
          \/ Len(spawnq) < SpawnCap /\ spawnq' = Append(spawnq, frame)
      BY <1>9 DEF SdpSpawn
    <2>2. spawnq' \in Seq(0 .. MaxSdp) /\ Len(spawnq') <= SpawnCap /\ Len(spawnq') >= Len(spawnq)
      <3>1. CASE spawnq' = spawnq
        BY <1>4, <3>1
      <3>2. CASE Len(spawnq) < SpawnCap /\ spawnq' = Append(spawnq, frame)
        <4>1. spawnq' \in Seq(0 .. MaxSdp) /\ Len(spawnq') = Len(spawnq) + 1
          BY <1>3, <3>2
        <4> QED
          BY <1>1, <1>4, <3>2, <4>1
      <3> QED
        BY <2>1, <3>1, <3>2
    <2>3. p2p' = "wait" /\ unheard' \in BOOLEAN
      BY <1>9 DEF SdpSpawn, P2pAt
    <2> QED
      BY <1>4, <1>9, <2>2, <2>3 DEF SdpSpawn, iotkVars, dataVars
  <1> QED
    BY <1>5, <1>6, <1>7, <1>8, <1>9

(* So does the rest of the update callback: an object starts with a count. *)
LEMMA SdpTyped ==
    ASSUME Typed, SdpCreate \/ SdpWake \/ SdpDelete \/ UNCHANGED sessionVars
    PROVE  Typed'
  <1> USE DEF Typed, SessionTypeOK
  <1>1. CASE SdpCreate
    <2>1. Port.init \in Nat
      BY PortAssumption DEF Ports, Windows, Linux, Ucos, RtThread
    <2>2. frame' \in 0 .. MaxSdp
      BY <1>1, SizeAssumption, SMTT(30) DEF SdpCreate
    <2> QED
      BY <1>1, <2>1, <2>2 DEF SdpCreate, P2pAt, iotkVars, dataVars
  <1>2. CASE SdpWake
    <2>1. signal' \in Nat
      BY <1>2 DEF SdpWake, CanTake
    <2> QED
      BY <1>2, <2>1 DEF SdpWake, P2pAt, iotkVars, dataVars
  <1>3. CASE SdpDelete \/ UNCHANGED sessionVars
    BY <1>3 DEF SdpDelete, P2pAt, sessionVars, iotkVars, p2pVars, dataVars
  <1> QED
    BY <1>1, <1>2, <1>3

(* And so do the camera and the outgoing callback.                         *)
LEMMA DataTypes ==
    ASSUME Typed, CameraMakes \/ OutFetch \/ OutSent \/ OutKept
    PROVE  Typed'
  <1> USE DEF Typed, SessionTypeOK
  <1>1. None \in Packet
    BY SizeAssumption DEF None, NoCall, Packet
  <1>2. CASE CameraMakes
    <2>1. made' \in 0 .. MaxPackets
      BY <1>2, SizeAssumption, SMTT(30) DEF CameraMakes
    <2>2. [call |-> rtp, n |-> made + 1] \in Packet
      BY <1>2, <2>1 DEF CameraMakes, Packet
    <2>3. camera' \in Seq(Packet)
      BY <1>2, <2>2 DEF CameraMakes
    <2> QED
      BY <1>2, <2>1, <2>3 DEF CameraMakes, iotkVars, p2pVars
  <1>3. CASE OutFetch
    <2>1. camera # << >> => Head(camera) \in Packet /\ Tail(camera) \in Seq(Packet)
      BY HeadTailProperties
    <2>2. p2p' = "send" /\ hand' \in Packet /\ camera' \in Seq(Packet)
      BY <1>3, <2>1 DEF OutFetch, P2pAt
    <2> QED
      BY <1>3, <2>2 DEF OutFetch, iotkVars
  <1>4. CASE OutSent
    <2>1. out' \in Seq(Packet)
      BY <1>4 DEF OutSent
    <2> QED
      BY <1>1, <1>4, <2>1 DEF OutSent, P2pAt, iotkVars
  <1>5. CASE OutKept
    BY <1>1, <1>5 DEF OutKept, P2pAt, iotkVars
  <1> QED
    BY <1>2, <1>3, <1>4, <1>5

(* Every step keeps the types.                                             *)
LEMMA TypedStep == Typed /\ [SessionNext]_sessionVars => Typed'
  BY HandlerTypes, QueueTypes, SdpTyped, DataTypes DEF SessionNext, Handler, RunSpawned, SdpStep

(* The types hold for every bound and port; in particular the spawn queue  *)
(* never outgrows its size and no call is taken from an empty one.         *)
THEOREM SessionTypes == SessionSpec => []SessionTypeOK
  <1>1. Typed => SessionTypeOK
    BY DEF Typed
  <1> QED
    BY <1>1, TypedInit, TypedStep, PTL DEF SessionSpec
-----------------------------------------------------------------------------
(* Which call the parts of the program serve, at every point of the two    *)
(* handlers: a set-up stores, accepts and opens, a disconnect clears and   *)
(* closes, and a newer call has a greater number.                          *)
CallInv ==
    /\ accepted <= calls /\ rtp <= calls
    /\ iotk \in {"accept", "open"} => call = calls /\ rtp < calls
    /\ iotk = "open" => accepted = call
    /\ iotk = "close" => call = NoCall
    /\ iotk # "open" => rtp \in {NoCall, accepted}
    /\ CallAgrees

(* Initially there is no call.                                             *)
LEMMA CallInit == SessionInit => CallInv
  BY DEF SessionInit, CallInv, CallAgrees, NoCall

(* Every step keeps it.                                                    *)
LEMMA CallStep == Typed /\ CallInv /\ [SessionNext]_sessionVars => CallInv'
  <1> SUFFICES ASSUME Typed, CallInv, [SessionNext]_sessionVars PROVE CallInv'
    OBVIOUS
  <1> USE DEF CallInv, CallAgrees
  <1>1. calls \in Nat /\ accepted \in Nat /\ rtp \in Nat
    BY SizeAssumption DEF Typed, SessionTypeOK
  <1>2. CASE SetupStore
    BY <1>1, <1>2 DEF SetupStore, IotkAt, dataVars
  <1>3. CASE SetupAccept
    BY <1>1, <1>3 DEF SetupAccept, IotkAt, dataVars
  <1>4. CASE SetupOpen
    BY <1>1, <1>4 DEF SetupOpen, IotkAt
  <1>5. CASE DisconnectClear
    BY <1>1, <1>5 DEF DisconnectClear, IotkAt, dataVars
  <1>6. CASE DisconnectClose
    BY <1>1, <1>6 DEF DisconnectClose, IotkAt, NoCall
  <1>7. CASE RunSdpSend \/ RunSdpSignal
    BY <1>7 DEF RunSdpSend, RunSdpSignal, IotkAt, dataVars
  <1>8. ASSUME \/ RunOther \/ SpawnOther \/ SdpCreate \/ SdpStep
               \/ CameraMakes \/ OutFetch \/ OutSent \/ OutKept
               \/ UNCHANGED sessionVars
        PROVE  CallInv'
    <2>1. UNCHANGED <<iotk, call, calls, accepted, rtp>>
      BY <1>8 DEF RunOther, SpawnOther, SdpCreate, SdpStep, SdpSpawn, SdpWake, SdpDelete,
                  CameraMakes, OutFetch, OutSent, OutKept, sessionVars, iotkVars, dataVars
    <2> QED
      BY <2>1
  <1> QED
    BY <1>2, <1>3, <1>4, <1>5, <1>6, <1>7, <1>8 DEF SessionNext, Handler, RunSpawned

(* Whatever the order of call events, between two of them the stored call, *)
(* the call the p2p core serves and the open camera channel are the same.  *)
THEOREM CallsAgree == SessionSpec => []CallAgrees
  <1>1. CallInv => CallAgrees
    BY DEF CallInv
  <1> QED
    BY <1>1, TypedInit, TypedStep, CallInit, CallStep, PTL DEF SessionSpec
-----------------------------------------------------------------------------
(* Packets.                                                                *)

(* The packet in the p2p task's hands, in _buffer or about to be sent, and *)
(* all packets there are in the order they were made.                      *)
Buffer == IF held # None THEN held ELSE hand
Buffered == IF Buffer # None THEN <<Buffer>> ELSE << >>
Passed == out \o Buffered
All == Passed \o camera

(* There is at most one packet in the p2p task's hands.                    *)
HandInv ==
    /\ p2p # "send" => hand = None
    /\ p2p = "send" => hand # None /\ held \in {None, hand}

(* Consecutive packets of a call have consecutive numbers.                 *)
InOrder(s) ==
    \A i \in 1 .. Len(s) - 1 :
        IF s[i].call = s[i + 1].call
          THEN s[i + 1].n = s[i].n + 1
          ELSE s[i + 1].n > s[i].n

(* What the camera makes next is a successor of the newest packet, if that *)
(* is of the call whose channel is open: a channel is never opened twice   *)
(* for a call.                                                             *)
MadeInv ==
    /\ \A i \in 1 .. Len(All) : All[i].n \in 1 .. made /\ All[i].call \in 1 .. calls
    /\ iotk \in {"accept", "open"} => \A i \in 1 .. Len(All) : All[i].call < calls
    /\ Len(All) > 0 /\ All[Len(All)].call = rtp => All[Len(All)].n = made
    /\ InOrder(All)

(* The packets are a sequence.                                             *)
LEMMA AllTyped ==
    ASSUME Typed
    PROVE  /\ out \in Seq(Packet) /\ camera \in Seq(Packet)
           /\ Buffer \in Packet /\ Buffered \in Seq(Packet)
           /\ Passed \in Seq(Packet) /\ All \in Seq(Packet)
  <1>1. out \in Seq(Packet) /\ camera \in Seq(Packet) /\ Buffer \in Packet
    BY DEF Typed, SessionTypeOK, Buffer
  <1>2. Buffered \in Seq(Packet)
    <2>1. <<Buffer>> \in Seq(Packet)
      BY <1>1
    <2>2. << >> \in Seq(Packet)
      BY EmptySeq
    <2> QED
      BY <2>1, <2>2 DEF Buffered
  <1>3. Passed \in Seq(Packet)
    BY <1>1, <1>2, ConcatProperties DEF Passed
  <1> QED
    BY <1>1, <1>2, <1>3, ConcatProperties DEF All

(* The order of the runs' property is the order of all packets.            *)
LEMMA OrderOfAll == OutgoingInOrder <=> InOrder(All)
  <1>1. CASE held # None
    BY <1>1, Zenon DEF OutgoingInOrder, InOrder, All, Passed, Buffered, Buffer
  <1>2. CASE held = None /\ hand # None
    BY <1>2, Zenon DEF OutgoingInOrder, InOrder, All, Passed, Buffered, Buffer
  <1>3. CASE held = None /\ hand = None
    BY <1>3, Zenon DEF OutgoingInOrder, InOrder, All, Passed, Buffered, Buffer
  <1> QED
    BY <1>1, <1>2, <1>3

(* The camera makes the next packet.                                       *)
LEMMA AllMade ==
    ASSUME Typed, CallInv, MadeInv, CameraMakes
    PROVE  MadeInv'
  <1> DEFINE p == [call |-> rtp, n |-> made + 1]
  <1>1. /\ rtp # NoCall /\ made' = made + 1 /\ camera' = Append(camera, p)
        /\ UNCHANGED <<out, held, hand, iotk, calls, rtp>>
    BY DEF CameraMakes, iotkVars
  <1>2. /\ rtp \in 1 .. calls /\ calls \in Nat /\ made \in Nat /\ made < MaxPackets /\ rtp \in 0 .. MaxCalls
        /\ (iotk \in {"accept", "open"} => rtp < calls)
    BY <1>1, SizeAssumption DEF Typed, SessionTypeOK, CallInv, NoCall, CameraMakes
  <1>3. p \in Packet
    BY <1>2, SizeAssumption DEF Packet
  <1>4. All' = Append(All, p)
    <2>1. Passed' = Passed
      BY <1>1 DEF Passed, Buffered, Buffer
    <2>2. camera' = camera \o <<p>> /\ <<p>> \in Seq(Packet)
      BY <1>1, <1>3, AllTyped, AppendIsConcat
    <2>3. All' = Passed \o (camera \o <<p>>)
      BY <2>1, <2>2 DEF All
    <2>4. All' = All \o <<p>>
      BY <2>2, <2>3, AllTyped, ConcatAssociative, SMTT(30) DEF All
    <2> QED
      BY <1>3, <2>4, AllTyped, AppendIsConcat
  <1> HIDE DEF p
  <1>5. /\ Len(All) \in Nat /\ Len(All') = Len(All) + 1
        /\ \A i \in 1 .. Len(All) : All'[i] = All[i]
        /\ All'[Len(All) + 1] = p
    BY <1>3, <1>4, AllTyped, AppendProperties, LenProperties
  <1>6. p.call = rtp /\ p.n = made + 1
    BY DEF p
  <1>7. \A i \in 1 .. Len(All) : All[i].n \in 1 .. made /\ All[i].call \in 1 .. calls
    BY DEF MadeInv
  <1>8. \A i \in 1 .. Len(All') : All'[i].n \in 1 .. made' /\ All'[i].call \in 1 .. calls'
    BY <1>1, <1>2, <1>5, <1>6, <1>7, SMTT(30)
  <1>9. iotk' \in {"accept", "open"} => \A i \in 1 .. Len(All') : All'[i].call < calls'
    BY <1>1, <1>2, <1>5, <1>6 DEF MadeInv
  <1>10. All'[Len(All')].n = made'
    BY <1>1, <1>5, <1>6
  <1>11. InOrder(All)'
    <2> SUFFICES ASSUME NEW i \in 1 .. Len(All') - 1
                 PROVE  IF All'[i].call = All'[i + 1].call
                          THEN All'[i + 1].n = All'[i].n + 1
                          ELSE All'[i + 1].n > All'[i].n
      BY DEF InOrder
    <2>1. CASE i < Len(All)
      <3>1. i \in 1 .. Len(All) - 1 /\ i \in 1 .. Len(All) /\ i + 1 \in 1 .. Len(All)
        BY <1>5, <2>1
      <3>2. All'[i] = All[i] /\ All'[i + 1] = All[i + 1]
        BY <1>5, <3>1
      <3> QED
        BY <3>1, <3>2 DEF MadeInv, InOrder
    <2>2. CASE i = Len(All)
      <3>1. i \in 1 .. Len(All) /\ All'[i] = All[Len(All)] /\ All'[i + 1] = p
        BY <1>5, <2>2
      <3>2. All[Len(All)].n \in 1 .. made
        BY <1>7, <2>2, <3>1
      <3>3. All[Len(All)].call = rtp => All[Len(All)].n = made
        BY <1>5, <2>2, <3>1 DEF MadeInv
      <3> QED
        BY <1>2, <1>6, <3>1, <3>2, <3>3
    <2> QED
      BY <1>5, <2>1, <2>2
  <1> QED
    BY <1>8, <1>9, <1>10, <1>11 DEF MadeInv

(* Closing the channel or opening it anew cuts off what the camera has.    *)
LEMMA AllCut ==
    ASSUME Typed, CallInv, MadeInv, SetupOpen \/ DisconnectClose
    PROVE  MadeInv'
  <1>1. /\ camera' = << >> /\ iotk' = "loop"
        /\ UNCHANGED <<out, held, hand, made, calls>>
        /\ \/ iotk = "open" /\ rtp' = calls
           \/ rtp' = NoCall
    BY DEF SetupOpen, DisconnectClose, IotkAt, CallInv
  <1>2. Passed' = Passed
    BY <1>1 DEF Passed, Buffered, Buffer
  <1>3. All' = Passed
    BY <1>1, <1>2, AllTyped, ConcatEmptySeq DEF All
  <1>4. /\ Len(Passed) \in Nat /\ Len(camera) \in Nat /\ Len(All) = Len(Passed) + Len(camera)
        /\ \A i \in 1 .. Len(Passed) : All[i] = Passed[i]
    BY AllTyped, ConcatProperties, LenProperties DEF All
  <1>5. /\ Len(All') \in Nat /\ Len(All') <= Len(All) /\ Len(All) \in Nat
        /\ \A i \in 1 .. Len(All') : All'[i] = All[i]
    BY <1>3, <1>4
  <1>6. \A i \in 1 .. Len(All') : All'[i].n \in 1 .. made' /\ All'[i].call \in 1 .. calls'
    BY <1>1, <1>5, SMTT(30) DEF MadeInv
  <1>7. ASSUME Len(All') > 0
        PROVE  All'[Len(All')].call # rtp'
    <2>1. Len(All') \in 1 .. Len(All') /\ Len(All') \in 1 .. Len(All)
      BY <1>5, <1>7
    <2>2. All'[Len(All')] = All[Len(All')]
      BY <1>5, <2>1
    <2>3. All[Len(All')].call \in 1 .. calls /\ (iotk = "open" => All[Len(All')].call < calls)
      BY <2>1 DEF MadeInv
    <2> QED
      BY <1>1, <2>2, <2>3 DEF NoCall
  <1>8. InOrder(All)'
    <2> SUFFICES ASSUME NEW i \in 1 .. Len(All') - 1
                 PROVE  IF All'[i].call = All'[i + 1].call
                          THEN All'[i + 1].n = All'[i].n + 1
                          ELSE All'[i + 1].n > All'[i].n
      BY DEF InOrder
    <2>1. i \in 1 .. Len(All) - 1 /\ i \in 1 .. Len(All') /\ i + 1 \in 1 .. Len(All')
      BY <1>5
    <2>2. All'[i] = All[i] /\ All'[i + 1] = All[i + 1]
      BY <1>5, <2>1
    <2> QED
      BY <2>1, <2>2 DEF MadeInv, InOrder
  <1> QED
    BY <1>1, <1>6, <1>7, <1>8 DEF MadeInv

(* The outgoing callback moves a packet, which stays where it is among all *)
(* of them.                                                                *)
LEMMA AllMoved ==
    ASSUME Typed, HandInv, MadeInv, OutFetch \/ OutSent \/ OutKept
    PROVE  All' = All /\ HandInv'
  <1>1. CASE OutKept
    <2>1. /\ hand # None /\ held \in {None, hand} /\ p2p' = "run"
          /\ held' = hand /\ hand' = None /\ out' = out /\ camera' = camera
      BY <1>1 DEF OutKept, P2pAt, HandInv
    <2>2. Buffer' = Buffer
      BY <2>1 DEF Buffer
    <2> QED
      BY <2>1, <2>2 DEF All, Passed, Buffered, HandInv
  <1>2. CASE OutSent
    <2>1. /\ hand # None /\ held \in {None, hand} /\ p2p' = "run"
          /\ held' = None /\ hand' = None /\ out' = Append(out, hand) /\ camera' = camera
      BY <1>2 DEF OutSent, P2pAt, HandInv
    <2>2. Buffered = <<hand>> /\ Buffered' = << >> /\ Buffer = hand
      BY <2>1 DEF Buffer, Buffered
    <2>3. Passed = out \o <<hand>> /\ hand \in Packet
      BY <2>2, AllTyped DEF Passed
    <2>4. Append(out, hand) = Passed /\ Passed \o << >> = Passed
      BY <2>3, AllTyped, AppendIsConcat, ConcatEmptySeq
    <2>5. Passed' = Passed
      BY <2>1, <2>2, <2>4 DEF Passed
    <2> QED
      BY <2>1, <2>5 DEF All, HandInv
  <1>3. CASE OutFetch
    <2>1. hand = None /\ p2p' = "send" /\ held' = held /\ out' = out
      BY <1>3 DEF OutFetch, P2pAt, HandInv
    <2>2. CASE held # None /\ hand' = held /\ camera' = camera
      <3>1. Buffer' = Buffer
        BY <2>1, <2>2 DEF Buffer
      <3> QED
        BY <2>1, <2>2, <3>1 DEF All, Passed, Buffered, HandInv
    <2>3. CASE held = None /\ camera # << >> /\ hand' = Head(camera) /\ camera' = Tail(camera)
      <3>1. Buffered = << >> /\ Passed = out
        <4>1. Buffered = << >>
          BY <2>1, <2>3 DEF Buffered, Buffer
        <4> QED
          BY <4>1, AllTyped, ConcatEmptySeq DEF Passed
      <3>2. hand' \in Packet /\ camera' \in Seq(Packet) /\ <<hand'>> \in Seq(Packet)
        BY <2>3, AllTyped, HeadTailProperties
      <3>3. camera = <<hand'>> \o camera'
        BY <2>3, <3>2, AllTyped
      <3>4. hand' # None
        <4>1. /\ Len(Passed) \in Nat /\ Len(camera) \in Nat /\ Len(camera) > 0
              /\ Len(All) = Len(Passed) + Len(camera)
              /\ \A i \in 1 .. Len(Passed) + Len(camera) :
                    All[i] = IF i <= Len(Passed) THEN Passed[i] ELSE camera[i - Len(Passed)]
          BY <2>3, AllTyped, ConcatProperties, LenProperties, EmptySeq DEF All
        <4>2. Len(Passed) + 1 \in 1 .. Len(All) /\ (Len(Passed) + 1) - Len(Passed) = 1
          BY <4>1
        <4>3. All[Len(Passed) + 1] = camera[1]
          BY <4>1, <4>2
        <4>4. hand' = camera[1]
          BY <2>3, AllTyped
        <4>5. hand'.n \in 1 .. made
          BY <4>2, <4>3, <4>4 DEF MadeInv
        <4> QED
          BY <4>5 DEF None
      <3>5. Passed' = out \o <<hand'>>
        BY <2>1, <2>3, <3>4 DEF Passed, Buffered, Buffer
      <3>6. All' = out \o (<<hand'>> \o camera')
        BY <3>2, <3>5, AllTyped, ConcatAssociative DEF All
      <3>7. All' = All
        BY <3>1, <3>3, <3>6 DEF All
      <3> QED
        BY <2>1, <2>3, <3>4, <3>7 DEF HandInv
    <2> QED
      BY <1>3, <2>1, <2>2, <2>3 DEF OutFetch
  <1> QED
    BY <1>1, <1>2, <1>3

(* Initially there are no packets.                                         *)
LEMMA MadeInit == SessionInit => HandInv /\ MadeInv
  <1> SUFFICES ASSUME SessionInit PROVE HandInv /\ MadeInv
    OBVIOUS
  <1>1. /\ out = << >> /\ Buffered = << >> /\ camera = << >> /\ p2p = "run" /\ hand = None
    BY DEF SessionInit, Buffered, Buffer
  <1>2. All = << >>
    BY <1>1, ConcatEmptySeq DEF All, Passed
  <1>3. Len(All) = 0
    BY <1>2
  <1> QED
    BY <1>1, <1>3 DEF HandInv, MadeInv, InOrder

(* Every step keeps the order.                                             *)
LEMMA MadeStep ==
    Typed /\ CallInv /\ HandInv /\ MadeInv /\ [SessionNext]_sessionVars => HandInv' /\ MadeInv'
  <1> SUFFICES ASSUME Typed, CallInv, HandInv, MadeInv, [SessionNext]_sessionVars PROVE HandInv' /\ MadeInv'
    OBVIOUS
  <1>1. CASE CameraMakes
    BY <1>1, AllMade DEF HandInv, CameraMakes, p2pVars
  <1>2. CASE SetupOpen \/ DisconnectClose
    BY <1>2, AllCut DEF HandInv, SetupOpen, DisconnectClose, p2pVars
  <1>3. CASE OutFetch \/ OutSent \/ OutKept
    <2>1. All' = All /\ HandInv'
      BY <1>3, AllMoved
    <2>2. UNCHANGED <<iotk, calls, made, rtp>>
      BY <1>3 DEF OutFetch, OutSent, OutKept, iotkVars
    <2> QED
      BY <2>1, <2>2 DEF MadeInv, InOrder
  <1>4. ASSUME All' = All, UNCHANGED <<made, rtp>>, calls' \in {calls, calls + 1},
               iotk' \in {"accept", "open"} => iotk \in {"accept", "open"} \/ calls' = calls + 1,
               calls' = calls + 1 => iotk' \notin {"open"},
               iotk \in {"accept", "open"} => calls' = calls
        PROVE  MadeInv'
    <2>1. calls \in Nat
      BY SizeAssumption DEF Typed, SessionTypeOK
    <2>2. /\ \A i \in 1 .. Len(All) : All[i].n \in 1 .. made /\ All[i].call \in 1 .. calls'
          /\ iotk' \in {"accept", "open"} => \A i \in 1 .. Len(All) : All[i].call < calls'
      BY <1>4, <2>1 DEF MadeInv
    <2> QED
      BY <1>4, <2>2 DEF MadeInv, InOrder
  <1>5. CASE SetupStore
    <2>1. UNCHANGED <<out, held, hand, camera, made, rtp, p2p>>
      BY <1>5 DEF SetupStore, dataVars, p2pVars
    <2>2. All' = All /\ HandInv'
      BY <2>1 DEF All, Passed, Buffered, Buffer, HandInv
    <2> QED
      BY <1>4, <1>5, <2>1, <2>2 DEF SetupStore, IotkAt
  <1>6. ASSUME \/ SetupAccept \/ DisconnectClear \/ RunSdpSignal \/ RunOther \/ RunSdpSend
               \/ SpawnOther \/ SdpCreate \/ SdpStep \/ UNCHANGED sessionVars
        PROVE  HandInv' /\ MadeInv'
    <2>1. UNCHANGED <<out, held, hand, camera, made, rtp, calls>>
      BY <1>6 DEF SetupAccept, DisconnectClear, RunSdpSignal, RunOther, RunSdpSend, SpawnOther,
                  SdpCreate, SdpStep, SdpSpawn, SdpWake, SdpDelete, sessionVars, iotkVars, dataVars
    <2>2. iotk' \in {"accept", "open"} => iotk \in {"accept", "open"}
      BY <1>6 DEF SetupAccept, DisconnectClear, RunSdpSignal, RunOther, RunSdpSend, SpawnOther,
                  SdpCreate, SdpStep, SdpSpawn, SdpWake, SdpDelete, sessionVars, iotkVars, IotkAt
    <2>3. p2p' = p2p \/ (p2p # "send" /\ p2p' # "send")
      BY <1>6 DEF SetupAccept, DisconnectClear, RunSdpSignal, RunOther, RunSdpSend, SpawnOther,
                  SdpCreate, SdpStep, SdpSpawn, SdpWake, SdpDelete, sessionVars, p2pVars, P2pAt
    <2>4. All' = All /\ HandInv'
      BY <2>1, <2>3 DEF All, Passed, Buffered, Buffer, HandInv
    <2>5. calls \in Nat
      BY SizeAssumption DEF Typed, SessionTypeOK
    <2> QED
      BY <1>4, <2>1, <2>2, <2>4, <2>5
  <1> QED
    BY <1>1, <1>2, <1>3, <1>5, <1>6 DEF SessionNext, Handler, RunSpawned

(* No packet is lost, repeated or overtaken on the way from the camera to  *)
(* the peer, for any number of calls, packets and refusals of p2p_send.    *)
THEOREM PacketsInOrder == SessionSpec => []OutgoingInOrder
  <1>1. MadeInv => OutgoingInOrder
    BY OrderOfAll DEF MadeInv
  <1> QED
    BY <1>1, TypedInit, TypedStep, CallInit, CallStep, MadeInit, MadeStep, PTL DEF SessionSpec
-----------------------------------------------------------------------------
(* The packet in the p2p task's hands will go to another call's peer.      *)
Debt == IF Buffer # None /\ Buffer.call # accepted THEN 1 ELSE 0

(* The packets of the open channel are of the accepted call, so only the   *)
(* one in hand can be of an earlier one.                                   *)
StaleInv ==
    /\ stale \in Nat
    /\ iotk # "open" =>
        /\ stale + Debt <= 1
        /\ \A i \in 1 .. Len(camera) : camera[i].call = accepted

(* Initially there are no packets.                                         *)
LEMMA StaleInit == SessionInit => StaleInv
  <1> SUFFICES ASSUME SessionInit PROVE StaleInv
    OBVIOUS
  <1>1. stale = 0 /\ camera = << >> /\ Debt = 0
    BY DEF SessionInit, Debt, Buffer
  <1> QED
    BY <1>1 DEF StaleInv

(* Every step keeps it.                                                    *)
LEMMA StaleStep ==
    Typed /\ CallInv /\ HandInv /\ StaleInv /\ [SessionNext]_sessionVars => StaleInv'
  <1> SUFFICES ASSUME Typed, CallInv, HandInv, StaleInv, [SessionNext]_sessionVars PROVE StaleInv'
    OBVIOUS
  <1>1. CASE SetupAccept
    <2>1. iotk' = "open" /\ stale' = stale
      BY <1>1 DEF SetupAccept, IotkAt, dataVars
    <2> QED
      BY <2>1 DEF StaleInv
  <1>2. CASE SetupOpen
    <2>1. camera' = << >> /\ stale' = 0
      BY <1>2 DEF SetupOpen
    <2>2. Len(camera') = 0
      BY <2>1
    <2>3. Debt' = 0 \/ Debt' = 1
      BY DEF Debt
    <2>4. stale' \in Nat /\ stale' + Debt' <= 1
      BY <2>1, <2>3
    <2> QED
      BY <2>2, <2>4 DEF StaleInv
  <1>3. CASE DisconnectClose
    <2>1. camera' = << >> /\ Len(<< >>) = 0 /\ UNCHANGED <<stale, held, hand, accepted>> /\ iotk # "open"
      BY <1>3 DEF DisconnectClose, IotkAt
    <2>2. Debt' = Debt
      BY <2>1 DEF Debt, Buffer
    <2> QED
      BY <2>1, <2>2 DEF StaleInv
  <1>4. CASE CameraMakes
    <2>1. /\ camera' = Append(camera, [call |-> rtp, n |-> made + 1]) /\ rtp # NoCall
          /\ UNCHANGED <<stale, held, hand, accepted, iotk>>
      BY <1>4 DEF CameraMakes, iotkVars
    <2>2. Debt' = Debt
      BY <2>1 DEF Debt, Buffer
    <2>3. camera \in Seq(Packet) /\ [call |-> rtp, n |-> made + 1] \in Packet
      <3>1. rtp \in 0 .. MaxCalls /\ made \in 0 .. MaxPackets /\ made < MaxPackets
        BY <1>4 DEF Typed, SessionTypeOK, CameraMakes
      <3>2. made + 1 \in 0 .. MaxPackets
        BY <3>1, SizeAssumption
      <3> QED
        BY <3>1, <3>2, AllTyped DEF Packet
    <2>4. /\ Len(camera) \in Nat /\ Len(camera') = Len(camera) + 1
          /\ \A i \in 1 .. Len(camera) : camera'[i] = camera[i]
          /\ camera'[Len(camera) + 1].call = rtp
      BY <2>1, <2>3, AppendProperties, LenProperties
    <2>5. iotk # "open" => rtp = accepted
      BY <2>1 DEF CallInv
    <2> QED
      BY <2>1, <2>2, <2>4, <2>5 DEF StaleInv
  <1>5. CASE OutFetch
    <2>1. /\ p2p # "send" /\ hand = None
          /\ UNCHANGED <<stale, held, accepted, iotk>>
          /\ \/ held # None /\ hand' = held /\ UNCHANGED camera
             \/ held = None /\ camera # << >> /\ hand' = Head(camera) /\ camera' = Tail(camera)
      BY <1>5 DEF OutFetch, P2pAt, iotkVars, HandInv
    <2>2. CASE held # None
      <3>1. Debt' = Debt /\ camera' = camera
        BY <2>1, <2>2 DEF Debt, Buffer
      <3> QED
        BY <2>1, <3>1 DEF StaleInv
    <2>3. CASE held = None
      <3>1. /\ Len(camera) > 0 /\ hand' = camera[1] /\ Len(camera') = Len(camera) - 1
            /\ Len(camera) \in Nat /\ \A i \in 1 .. Len(camera') : camera'[i] = camera[i + 1]
        <4>1. camera \in Seq(Packet) /\ camera # << >>
          BY <2>1, <2>3, AllTyped
        <4>2. Head(camera) = camera[1] /\ Len(camera) > 0 /\ Len(camera) \in Nat
          BY <4>1
        <4> QED
          BY <2>1, <2>3, <4>1, <4>2, HeadTailProperties
      <3>2. iotk # "open" => hand'.call = accepted
        BY <3>1 DEF StaleInv
      <3>3. iotk # "open" => Debt' = 0 /\ Debt \in {0, 1}
        BY <2>1, <2>3, <3>2 DEF Debt, Buffer
      <3>4. iotk # "open" => \A i \in 1 .. Len(camera') : camera'[i].call = accepted
        BY <3>1 DEF StaleInv
      <3> QED
        BY <2>1, <3>3, <3>4 DEF StaleInv
    <2> QED
      BY <2>2, <2>3
  <1>6. CASE OutSent
    <2>1. /\ hand # None /\ held \in {None, hand} /\ held' = None /\ hand' = None
          /\ stale' = (IF hand.call # accepted THEN stale + 1 ELSE stale)
          /\ UNCHANGED <<camera, accepted, iotk>>
      BY <1>6 DEF OutSent, P2pAt, iotkVars, HandInv
    <2>2. Debt' = 0 /\ Debt = IF hand.call # accepted THEN 1 ELSE 0
      BY <2>1 DEF Debt, Buffer
    <2> QED
      BY <2>1, <2>2 DEF StaleInv
  <1>7. CASE OutKept
    <2>1. /\ held \in {None, hand} /\ hand # None /\ held' = hand
          /\ UNCHANGED <<camera, accepted, iotk, stale>>
      BY <1>7 DEF OutKept, P2pAt, iotkVars, HandInv
    <2>2. Debt' = Debt
      BY <2>1 DEF Debt, Buffer
    <2> QED
      BY <2>1, <2>2 DEF StaleInv
  <1>8. ASSUME \/ SetupStore \/ DisconnectClear \/ RunSdpSignal \/ RunOther \/ RunSdpSend
               \/ SpawnOther \/ SdpCreate \/ SdpStep \/ UNCHANGED sessionVars
        PROVE  StaleInv'
    <2>1. UNCHANGED <<held, hand, camera, accepted, stale>>
      BY <1>8 DEF SetupStore, DisconnectClear, RunSdpSignal, RunOther, RunSdpSend, SpawnOther,
                  SdpCreate, SdpStep, SdpSpawn, SdpWake, SdpDelete, sessionVars, dataVars
    <2>2. iotk' # "open" => iotk # "open"
      BY <1>8 DEF SetupStore, DisconnectClear, RunSdpSignal, RunOther, RunSdpSend, SpawnOther,
                  SdpCreate, SdpStep, SdpSpawn, SdpWake, SdpDelete, sessionVars, iotkVars, IotkAt
    <2>3. Debt' = Debt
      BY <2>1 DEF Debt, Buffer
    <2> QED
      BY <2>1, <2>2, <2>3 DEF StaleInv
  <1> QED
    BY <1>1, <1>2, <1>3, <1>4, <1>5, <1>6, <1>7, <1>8 DEF SessionNext, Handler, RunSpawned

(* However call events and the outgoing callback interleave, the peer of a *)
(* new call gets at most one packet of an earlier one.                     *)
THEOREM OnePacketStale == SessionSpec => []OneStalePacket
  <1>1. StaleInv => OneStalePacket
    BY DEF StaleInv, OneStalePacket, Debt
  <1> QED
    BY <1>1, TypedInit, TypedStep, CallInit, CallStep, MadeInit, MadeStep, StaleInit, StaleStep, PTL
       DEF SessionSpec
-----------------------------------------------------------------------------
(* What the return of the SDP callback rests on.                           *)

(* A p2p task that waits is owed its signal: it is there, or the call that *)
(* will give it is still in the spawn queue, unless iotk_spawn failed.     *)
SignalOwed == p2p = "wait" =>
    \/ unheard
    \/ signal > 0
    \/ \E i \in 1 .. Len(spawnq) : spawnq[i] = frame

(* Messages have numbers from 1 on, which no other spawned call has.       *)
FrameNumbered == p2p \in {"spawn", "wait"} => frame > 0

(* A set leaves a signal, also one that fails because there is one.        *)
LEMMA SetLeavesSignal ==
    ASSUME signal \in Nat
    PROVE  (IF CanSet(Port, signal) THEN signal + 1 ELSE signal) > 0
  <1>1. CASE CanSet(Port, signal)
    BY <1>1
  <1>2. CASE ~CanSet(Port, signal)
    <2>1. Port.typed /\ Port.max \in {0, 1}
      BY PortAssumption DEF Ports, Windows, Linux, Ucos, RtThread, Unbounded
    <2>2. Port.max = 1 /\ signal >= 1
      BY <1>2, <2>1 DEF CanSet, Unbounded
    <2> QED
      BY <1>2, <2>2
  <1> QED
    BY <1>1, <1>2

(* The call for a message leaves the queue with the step that signals.     *)
LEMMA OwedStep ==
    ASSUME Typed, FrameNumbered, SignalOwed, [SessionNext]_sessionVars
    PROVE  FrameNumbered' /\ SignalOwed'
  <1>0. spawnq \in Seq(Nat) /\ frame \in Nat /\ signal \in Nat
    <2>1. MaxSdp \in Nat
      BY SizeAssumption
    <2>2. spawnq \in Seq(0 .. MaxSdp) /\ frame \in 0 .. MaxSdp /\ signal \in Nat
      BY DEF Typed, SessionTypeOK
    <2> QED
      BY <2>1, <2>2
  <1>1. CASE RunOther
    <2>1. /\ spawnq # << >> /\ Head(spawnq) = 0 /\ spawnq' = Tail(spawnq)
          /\ UNCHANGED <<p2p, frame, signal, unheard>>
      BY <1>1 DEF RunOther, p2pVars
    <2>2. ASSUME NEW i \in 1 .. Len(spawnq), spawnq[i] = frame, frame > 0
          PROVE  \E j \in 1 .. Len(spawnq') : spawnq'[j] = frame
      <3>1. /\ Len(spawnq) \in Nat /\ Len(spawnq') = Len(spawnq) - 1 /\ spawnq[1] = 0
            /\ \A j \in 1 .. Len(spawnq') : spawnq'[j] = spawnq[j + 1]
        BY <1>0, <2>1, TailElements
      <3>2. i - 1 \in 1 .. Len(spawnq') /\ (i - 1) + 1 = i
        BY <2>2, <3>1
      <3>3. spawnq'[i - 1] = frame
        BY <2>2, <3>1, <3>2
      <3> QED
        BY <3>2, <3>3
    <2> QED
      BY <2>1, <2>2 DEF FrameNumbered, SignalOwed
  <1>2. ASSUME NEW x \in {0, frame}, spawnq' = Append(spawnq, x)
        PROVE  /\ \A i \in 1 .. Len(spawnq) : i \in 1 .. Len(spawnq') /\ spawnq'[i] = spawnq[i]
               /\ Len(spawnq') \in 1 .. Len(spawnq') /\ spawnq'[Len(spawnq')] = x
    <2>1. x \in Nat /\ Len(spawnq) \in Nat
      BY <1>0
    <2> QED
      BY <1>0, <1>2, <2>1, AppendElements
  <1>3. CASE SpawnOther
    <2>1. spawnq' = Append(spawnq, 0) /\ UNCHANGED <<p2p, frame, signal, unheard>>
      BY <1>3 DEF SpawnOther, p2pVars
    <2> QED
      BY <1>2, <2>1 DEF FrameNumbered, SignalOwed
  <1>4. CASE RunSdpSignal
    <2>1. signal' > 0 /\ UNCHANGED <<p2p, frame>>
      BY <1>0, <1>4, SetLeavesSignal DEF RunSdpSignal
    <2> QED
      BY <2>1 DEF FrameNumbered, SignalOwed
  <1>5. CASE SdpCreate
    BY <1>0, <1>5 DEF SdpCreate, P2pAt, FrameNumbered, SignalOwed
  <1>6. CASE SdpSpawn
    <2>1. p2p = "spawn" /\ p2p' = "wait" /\ frame' = frame
      BY <1>6 DEF SdpSpawn, P2pAt
    <2>2. unheard' \/ \E i \in 1 .. Len(spawnq') : spawnq'[i] = frame
      <3>1. CASE spawnq' = Append(spawnq, frame)
        BY <1>2, <3>1
      <3>2. CASE unheard' = TRUE
        BY <3>2
      <3> QED
        BY <1>6, <3>1, <3>2 DEF SdpSpawn
    <2> QED
      BY <2>1, <2>2 DEF FrameNumbered, SignalOwed
  <1>7. CASE SdpWake \/ SdpDelete
    BY <1>7 DEF SdpWake, SdpDelete, P2pAt, FrameNumbered, SignalOwed
  <1>8. CASE SetupStore \/ SetupAccept \/ SetupOpen \/ DisconnectClear \/ DisconnectClose
             \/ CameraMakes \/ RunSdpSend \/ UNCHANGED sessionVars
    <2>1. UNCHANGED <<spawnq, p2p, frame, signal, unheard>>
      BY <1>8 DEF SetupStore, SetupAccept, SetupOpen, DisconnectClear, DisconnectClose,
         CameraMakes, RunSdpSend, sessionVars, p2pVars
    <2> QED
      BY <2>1 DEF FrameNumbered, SignalOwed
  <1>9. CASE OutFetch \/ OutSent \/ OutKept
    <2>1. p2p' \in {"run", "send"}
      BY <1>9 DEF OutFetch, OutSent, OutKept, P2pAt
    <2> QED
      BY <2>1 DEF FrameNumbered, SignalOwed
  <1> QED
    BY <1>1, <1>3, <1>4, <1>5, <1>6, <1>7, <1>8, <1>9 DEF SessionNext, Handler, RunSpawned, SdpStep

(* On every port, for every queue: a p2p task in its callback never waits  *)
(* for a signal that no one has yet to give, but for a failed iotk_spawn.  *)
THEOREM WaitersAreOwed == SessionSpec => []SignalOwed
  <1>1. SessionInit => FrameNumbered /\ SignalOwed
    BY DEF SessionInit, FrameNumbered, SignalOwed
  <1>2. Typed /\ FrameNumbered /\ SignalOwed /\ [SessionNext]_sessionVars => FrameNumbered' /\ SignalOwed'
    BY OwedStep
  <1> QED
    BY <1>1, <1>2, TypedInit, TypedStep, PTL DEF SessionSpec
-----------------------------------------------------------------------------
(* What a failed iotk_spawn leads to.                                      *)

(* The p2p task waits for the signal of a message that iotk_spawn refused. *)
Hung == p2p = "wait" /\ unheard

(* Nothing is on its way to a task that hangs.                             *)
NothingComes == Hung =>
    /\ signal = 0
    /\ \A i \in 1 .. Len(spawnq) : spawnq[i] = 0

(* Only a new message could clear unheard, and there is none while the     *)
(* task waits.                                                             *)
UnheardWaits == p2p = "spawn" => ~unheard

(* Every step but the refusal itself leaves a hanging task as it is.       *)
LEMMA HungStep ==
    ASSUME Port.init = 0, Port.forever, SdpInv, NothingComes, UnheardWaits, [SessionNext]_sessionVars
    PROVE  /\ NothingComes' /\ UnheardWaits'
           /\ Hung => Hung' /\ UNCHANGED <<out, sent>>
  <1>0. spawnq \in Seq(Nat) /\ frame \in Nat /\ signal \in Nat
    BY DEF SdpTypes
  <1>1. ASSUME Hung PROVE Hung' /\ NothingComes' /\ UnheardWaits' /\ UNCHANGED <<out, sent>>
    <2>1. p2p = "wait" /\ unheard /\ signal = 0 /\ \A i \in 1 .. Len(spawnq) : spawnq[i] = 0
      BY <1>1 DEF Hung, NothingComes
    <2>2. iotk # "signal"
      BY <1>0, <2>1 DEF SenderAtHead
    <2>3. spawnq # << >> => Head(spawnq) = 0
      BY <1>0, <2>1
    <2>4. /\ UNCHANGED <<p2p, frame, signal, unheard, out, sent>>
          /\ \/ spawnq' = spawnq
             \/ spawnq # << >> /\ spawnq' = Tail(spawnq)
             \/ spawnq' = Append(spawnq, 0)
      <3>1. CASE RunOther
        BY <3>1 DEF RunOther, p2pVars, dataVars
      <3>2. CASE SpawnOther
        BY <1>0, <3>2 DEF SpawnOther, p2pVars, dataVars
      <3>3. ~SdpStep /\ ~SdpCreate /\ ~OutFetch /\ ~OutSent /\ ~OutKept /\ ~RunSdpSend /\ ~RunSdpSignal
        <4>1. ~SdpWake
          BY <2>1 DEF SdpWake, CanTake
        <4>2. ~SdpSpawn /\ ~SdpDelete /\ ~SdpCreate /\ ~OutFetch /\ ~OutSent /\ ~OutKept
          BY <2>1 DEF SdpSpawn, SdpDelete, SdpCreate, OutFetch, OutSent, OutKept, P2pAt
        <4>3. ~RunSdpSend /\ ~RunSdpSignal
          BY <2>2, <2>3 DEF RunSdpSend, RunSdpSignal, IotkAt
        <4> QED
          BY <4>1, <4>2, <4>3 DEF SdpStep
      <3>4. CASE SetupStore \/ SetupAccept \/ SetupOpen \/ DisconnectClear \/ DisconnectClose
                 \/ CameraMakes \/ UNCHANGED sessionVars
        <4>1. UNCHANGED <<spawnq, p2p, frame, signal, unheard, out, sent>>
          BY <3>4 DEF SetupStore, SetupAccept, SetupOpen, DisconnectClear, DisconnectClose,
             CameraMakes, sessionVars, p2pVars, dataVars
        <4> QED
          BY <1>0, <4>1
      <3> QED
        BY <3>1, <3>2, <3>3, <3>4 DEF SessionNext, Handler, RunSpawned
    <2>5. \A i \in 1 .. Len(spawnq') : spawnq'[i] = 0
      <3>1. CASE spawnq' = spawnq
        BY <2>1, <3>1
      <3>2. CASE spawnq # << >> /\ spawnq' = Tail(spawnq)
        BY <1>0, <2>1, <3>2, TailElements
      <3>3. CASE spawnq' = Append(spawnq, 0)
        <4>1. /\ Len(spawnq) \in Nat /\ Len(spawnq') = Len(spawnq) + 1
              /\ \A i \in 1 .. Len(spawnq) : spawnq'[i] = spawnq[i]
              /\ spawnq'[Len(spawnq) + 1] = 0
          BY <1>0, <3>3, AppendElements
        <4> QED
          BY <2>1, <4>1
      <3> QED
        BY <2>4, <3>1, <3>2, <3>3
    <2> QED
      BY <2>1, <2>4, <2>5 DEF Hung, NothingComes, UnheardWaits
  <1>2. ASSUME ~Hung PROVE NothingComes' /\ UnheardWaits'
    <2>1. CASE SdpSpawn
      <3>1. /\ p2p = "spawn" /\ p2p' = "wait" /\ ~unheard /\ signal' = signal
            /\ unheard' => spawnq' = spawnq
        BY <2>1 DEF SdpSpawn, P2pAt, UnheardWaits
      <3>2. signal = 0 /\ \A i \in 1 .. Len(spawnq) : spawnq[i] = 0
        BY <3>1, NotWaiting DEF FreshSignal
      <3> QED
        BY <3>1, <3>2 DEF Hung, NothingComes, UnheardWaits
    <2>2. CASE SdpCreate
      BY <2>2 DEF SdpCreate, P2pAt, Hung, NothingComes, UnheardWaits
    <2>3. CASE SdpWake \/ SdpDelete \/ OutFetch \/ OutSent \/ OutKept
      BY <2>3 DEF SdpWake, SdpDelete, OutFetch, OutSent, OutKept, P2pAt, Hung, NothingComes, UnheardWaits
    <2>4. CASE \/ SetupStore \/ SetupAccept \/ SetupOpen \/ DisconnectClear \/ DisconnectClose
               \/ CameraMakes \/ RunOther \/ SpawnOther \/ RunSdpSend \/ RunSdpSignal \/ UNCHANGED sessionVars
      <3>1. UNCHANGED <<p2p, unheard>>
        BY <2>4 DEF SetupStore, SetupAccept, SetupOpen, DisconnectClear, DisconnectClose,
           CameraMakes, RunOther, SpawnOther, RunSdpSend, RunSdpSignal, sessionVars, p2pVars
      <3> QED
        BY <1>2, <3>1 DEF Hung, NothingComes, UnheardWaits
    <2> QED
      BY <2>1, <2>2, <2>3, <2>4 DEF SessionNext, Handler, RunSpawned, SdpStep
  <1> QED
    BY <1>1, <1>2

(* The price of not looking at iotk_spawn's result (main.c:347): one       *)
(* refused update and the p2p task waits for ever, so that no packet and   *)
(* no update of this or any later call is sent.                            *)
THEOREM FailedSpawnHangs ==
    ASSUME Port.init = 0, Port.forever
    PROVE  SessionSpec => [](Hung => []Hung /\ [][UNCHANGED <<out, sent>>]_<<out, sent>>)
  <1>1. SessionInit => NothingComes /\ UnheardWaits
    BY DEF SessionInit, NothingComes, UnheardWaits, Hung
  <1>2. SdpInv /\ NothingComes /\ UnheardWaits /\ [SessionNext]_sessionVars => NothingComes' /\ UnheardWaits'
    BY HungStep
  <1>3. SdpInv /\ NothingComes /\ UnheardWaits /\ Hung /\ [SessionNext]_sessionVars => Hung'
    BY HungStep
  <1>4. SdpInv /\ NothingComes /\ UnheardWaits /\ Hung /\ [SessionNext]_sessionVars
          => [UNCHANGED <<out, sent>>]_<<out, sent>>
    BY HungStep
  <1> QED
    BY <1>1, <1>2, <1>3, <1>4, SdpAlways, PTL DEF SessionSpec
=============================================================================
