--------------------------- MODULE PalPortProofs ---------------------------
(***************************************************************************)
(* Theorems about the message queues of the ports other than Windows, and  *)
(* about the locks and the synchronisation objects of all ports, for any   *)
(* number of threads.                                                      *)
(*                                                                         *)
(* PalKernelQ (uC/OS and RT-Thread), for any size of the queue, any        *)
(* timeouts and any tick rate: a write naps for as long as it was told,    *)
(* which needs how the time left, what was asked and the naps hang         *)
(* together at every step of the countdown (Countdown).                    *)
(*                                                                         *)
(* PalLinuxQ: that no message is written over.  The tokens only become     *)
(* fewer, so there are never more messages than slots (Tokens); the guard, *)
(* as long as no one unlocked it for another, is held by the one thread    *)
(* between its lock and its unlock (Section); and so the filled slots are  *)
(* the first ones of the ring and wpos is the next (Prefix).  That the     *)
(* tokens run out needs none of this, only the count of the writers that   *)
(* have a token in hand (TokensSpent).                                     *)
(*                                                                         *)
(* PalTask, for any depth of nesting: that a task was told the truth of a  *)
(* lock.  This is kept by each step only because a lock without an owner   *)
(* is not held at any depth, because a closed or an abandoned lock has no  *)
(* owner, because no one waits for a closed one, and because mutexes are   *)
(* abandoned on Windows only (LockShape).  The blocks of parameters are    *)
(* those of the live tasks and of the failed creations (BlocksOwned).  The *)
(* lock of a task that ended on RT-Thread is lost for good (OrphanStep).   *)
(*                                                                         *)
(* PalEvent, for any set of the ports' objects: a count moves by one       *)
(* within bounds that differ from port to port (PortFields).  On Windows a *)
(* signal that is there answers a set that no wait or reset came after     *)
(* (Answers), since the object starts without one and holds at most one.   *)
(***************************************************************************)
EXTENDS PalKernelQ, PalLinuxQ, PalTask, PalEvent, FiniteSetTheorems, TLAPS

(* The time left is what was asked less ten milliseconds for each nap,     *)
(* zero when that is used up, and IOTK_WAIT_FOREVER for a write that waits *)
(* for ever.                                                               *)
Counts(left, asked, naps) ==
    \/ asked = KqForever /\ left = KqForever /\ naps = 0
    \/ asked < KqForever /\ 10 * naps < asked /\ left = asked - 10 * naps
    \/ asked < KqForever /\ left = 0 /\ asked <= 10 * naps /\ 10 * naps < asked + 10

(* What was slept is so many naps of so many ticks.                        *)
Napped(left, asked, slept, nap) ==
    \E naps \in Nat : slept = naps * nap /\ Counts(left, asked, naps)

(* The relation holds for every thread, one that sleeps has time left, and *)
(* one that gave up has none.                                              *)
Countdown == \A u \in KqUsers :
    /\ Napped(kqLeft[u], kqAsked[u], kqSlept[u], KqNap)
    /\ kqPc[u] = "nap" => kqLeft[u] > 0
    /\ KqGaveUp(u) => kqLeft[u] = 0
-----------------------------------------------------------------------------
(* The countdown itself.                                                   *)

(* A new call has slept nothing yet.                                       *)
LEMMA NappedStart ==
    ASSUME NEW t \in 0 .. KqForever, NEW nap \in Nat
    PROVE  Napped(t, t, 0, nap)
  <1>1. Counts(t, t, 0)
    BY KqAssumption DEF Counts
  <1>2. 0 = 0 * nap
    OBVIOUS
  <1> QED
    BY <1>1, <1>2 DEF Napped

(* One nap later the countdown has its relation to the naps again.         *)
LEMMA CountsNap ==
    ASSUME NEW left \in 0 .. KqForever, NEW asked \in 0 .. KqForever, NEW naps \in Nat,
           Counts(left, asked, naps), left > 0
    PROVE  /\ KqCountDown(left) \in 0 .. KqForever
           /\ Counts(KqCountDown(left), asked, IF left = KqForever THEN naps ELSE naps + 1)
  BY KqAssumption DEF Counts, KqCountDown

(* And so has what was slept.                                              *)
LEMMA NappedNap ==
    ASSUME NEW left \in 0 .. KqForever, NEW asked \in 0 .. KqForever, NEW slept \in Nat,
           NEW nap \in Nat, Napped(left, asked, slept, nap), left > 0
    PROVE  /\ KqCountDown(left) \in 0 .. KqForever
           /\ Napped(KqCountDown(left), asked,
                     IF left = KqForever THEN slept ELSE slept + nap, nap)
  <1>1. PICK naps \in Nat : slept = naps * nap /\ Counts(left, asked, naps)
    BY DEF Napped
  <1>2. KqCountDown(left) \in 0 .. KqForever
    BY <1>1, CountsNap
  <1>3. CASE left = KqForever
    <2>1. Counts(KqCountDown(left), asked, naps)
      BY <1>1, <1>3, CountsNap
    <2> QED
      BY <1>1, <1>2, <1>3, <2>1 DEF Napped
  <1>4. CASE left # KqForever
    <2>1. Counts(KqCountDown(left), asked, naps + 1)
      BY <1>1, <1>4, CountsNap
    <2>2. slept + nap = (naps + 1) * nap /\ naps + 1 \in Nat
      BY <1>1
    <2> QED
      BY <1>2, <1>4, <2>1, <2>2 DEF Napped
  <1> QED
    BY <1>3, <1>4

(* A multiple of a nap keeps the order of the numbers.                     *)
LEMMA Multiples ==
    ASSUME NEW a \in Nat, NEW b \in Nat, NEW nap \in Nat \ {0}
    PROVE  /\ a < b => a * nap < b * nap
           /\ a <= b => a * nap <= b * nap
  OBVIOUS

(* What the relation says of any write, and of one with no time left.      *)
LEMMA NappedLate ==
    ASSUME NEW left \in 0 .. KqForever, NEW asked \in 0 .. KqForever, NEW slept \in Nat,
           NEW nap \in Nat \ {0}, Napped(left, asked, slept, nap)
    PROVE  /\ 10 * slept < (asked + 10) * nap
           /\ left = 0 => 10 * slept >= asked * nap
  <1>1. PICK naps \in Nat : slept = naps * nap /\ Counts(left, asked, naps)
    BY DEF Napped
  <1>2. asked \in Nat /\ asked + 10 \in Nat /\ 10 * naps \in Nat
    BY KqAssumption
  <1>3. 10 * naps < asked + 10 /\ (left = 0 => asked <= 10 * naps)
    BY <1>1, <1>2, KqAssumption DEF Counts
  <1>4. 10 * slept = (10 * naps) * nap
    BY <1>1
  <1>5. (10 * naps) * nap < (asked + 10) * nap
    BY <1>2, <1>3, Multiples
  <1>6. left = 0 => asked * nap <= (10 * naps) * nap
    BY <1>2, <1>3, Multiples
  <1> QED
    BY <1>2, <1>4, <1>5, <1>6

(* The three clocks of a thread.                                           *)
LEMMA ClockTypes ==
    ASSUME KqTypeOK, NEW u \in KqUsers
    PROVE  kqLeft[u] \in 0 .. KqForever /\ kqAsked[u] \in 0 .. KqForever /\ kqSlept[u] \in Nat
  <1>1. kqLeft[u] \in 0 .. KqForever /\ kqAsked[u] \in KqTimeouts \cup {0} /\ kqSlept[u] \in Nat
    BY DEF KqTypeOK
  <1>2. 0 \in 0 .. KqForever
    BY KqAssumption
  <1> QED
    BY <1>1, <1>2, KqAssumption

(* A nap is at least one tick, at any rate.                                *)
LEMMA NapType ==
    ASSUME kqRate \in KqRates
    PROVE  KqNap \in Nat \ {0}
  BY KqAssumption DEF KqNap

(* An empty queue and no time left are values of their types.              *)
LEMMA Zero == 0 \in 0 .. KqMax /\ 0 \in 0 .. KqForever
  BY KqAssumption
-----------------------------------------------------------------------------
(* The types.                                                              *)
LEMMA KqTypeInit == KqInit => KqTypeOK
  <1> SUFFICES ASSUME KqInit PROVE KqTypeOK
    OBVIOUS
  <1>1. kqMsgs \in 0 .. KqMax
    BY Zero DEF KqInit
  <1>2. kqLeft \in [KqUsers -> 0 .. KqForever]
    BY Zero DEF KqInit
  <1>3. kqAsked \in [KqUsers -> KqTimeouts \cup {0}] /\ kqSlept \in [KqUsers -> Nat]
    BY DEF KqInit
  <1> QED
    BY <1>1, <1>2, <1>3 DEF KqInit, KqTypeOK

(* A call sets the clocks to values of their types.                        *)
LEMMA CallTypes ==
    ASSUME KqTypeOK, NEW u \in KqUsers, NEW t \in KqTimeouts, KqCall(u, t)
    PROVE  /\ kqLeft' \in [KqUsers -> 0 .. KqForever]
           /\ kqAsked' \in [KqUsers -> KqTimeouts \cup {0}]
           /\ kqSlept' \in [KqUsers -> Nat]
  <1>1. t \in 0 .. KqForever
    BY KqAssumption
  <1> QED
    BY <1>1 DEF KqTypeOK, KqCall

(* A read that takes a message or finds none does so within the types.     *)
LEMMA ReadTypes ==
    ASSUME KqTypeOK, NEW u \in KqUsers, KqTake(u) \/ KqNothing(u)
    PROVE  /\ kqMsgs' \in 0 .. KqMax
           /\ \E r \in {"OK", "FAILURE", "OPERATION_FAILED"} : kqRet' = [kqRet EXCEPT ![u] = r]
  <1>1. CASE KqTake(u)
    <2>1. kqMsgs' \in 0 .. KqMax
      BY <1>1, KqAssumption DEF KqTypeOK, KqTake
    <2>2. CASE kqPort = "ucos"
      BY <1>1, <2>1, <2>2 DEF KqTake
    <2>3. CASE kqPort # "ucos"
      BY <1>1, <2>1, <2>3 DEF KqTake
    <2> QED
      BY <2>2, <2>3
  <1>2. CASE KqNothing(u)
    BY <1>2 DEF KqTypeOK, KqNothing
  <1> QED
    BY <1>1, <1>2

(* Every step keeps the types; the nap needs the countdown, which does not *)
(* pass zero.                                                              *)
LEMMA KqTypeStep == KqTypeOK /\ [KqNext]_kqVars /\ Countdown => KqTypeOK'
  <1> SUFFICES ASSUME KqTypeOK, [KqNext]_kqVars, Countdown PROVE KqTypeOK'
    OBVIOUS
  <1> USE DEF KqTypeOK, kqQueue, kqClock
  <1>1. CASE KqCreate
    BY <1>1 DEF KqCreate
  <1>2. CASE KqUcosDelete
    <2>1. kqAlive' \in BOOLEAN
      BY <1>2 DEF KqUcosDelete
    <2>2. kqMsgs' \in 0 .. KqMax
      BY <1>2, Zero DEF KqUcosDelete
    <2> QED
      BY <1>2, <2>1, <2>2 DEF KqUcosDelete
  <1>3. CASE KqRtDelete
    <2>1. kqMsgs' \in 0 .. KqMax
      BY <1>3, Zero DEF KqRtDelete
    <2>2. /\ kqPc' \in [KqUsers -> {"idle", "post", "nap", "read", "read_forever"}]
          /\ kqRet' \in [KqUsers -> {"none", "OK", "TIMEOUT", "FAILURE", "OPERATION_FAILED"}]
      BY <1>3 DEF KqRtDelete
    <2> QED
      BY <1>3, <2>1, <2>2 DEF KqRtDelete
  <1>4. ASSUME NEW u \in KqUsers, KqWriteCall(u) PROVE KqTypeOK'
    BY <1>4, CallTypes DEF KqWriteCall
  <1>5. ASSUME NEW u \in KqUsers, KqPosted(u) PROVE KqTypeOK'
    BY <1>5, KqAssumption DEF KqPosted, KqReturn
  <1>6. ASSUME NEW u \in KqUsers, KqPostGone(u) \/ KqRtFull(u) \/ KqUcosTimeout(u) PROVE KqTypeOK'
    BY <1>6 DEF KqPostGone, KqRtFull, KqUcosTimeout, KqPostFull, KqReturn
  <1>7. ASSUME NEW u \in KqUsers, KqUcosNap(u) PROVE KqTypeOK'
    BY <1>7 DEF KqUcosNap, KqPostFull
  <1>8. ASSUME NEW u \in KqUsers, KqSleep(u) PROVE KqTypeOK'
    <2>1. KqNap \in Nat
      BY NapType
    <2>2. KqCountDown(kqLeft[u]) \in 0 .. KqForever
      BY <1>8, <2>1, ClockTypes, NappedNap DEF KqSleep, Countdown
    <2> QED
      BY <1>8, <2>1, <2>2 DEF KqSleep
  <1>9. ASSUME NEW u \in KqUsers, KqReadCall(u) PROVE KqTypeOK'
    <2>1. PICK t \in KqTimeouts, wait \in {"read", "read_forever"} :
              KqCall(u, t) /\ kqPc' = [kqPc EXCEPT ![u] = wait]
      BY <1>9 DEF KqReadCall
    <2> QED
      BY <1>9, <2>1, CallTypes DEF KqReadCall
  <1>10. ASSUME NEW u \in KqUsers, KqReadNow(u) PROVE KqTypeOK'
    BY <1>10, CallTypes, ReadTypes DEF KqReadNow
  <1>11. ASSUME NEW u \in KqUsers, KqReceive(u) \/ KqReadTimeout(u) PROVE KqTypeOK'
    BY <1>11, ReadTypes DEF KqReceive, KqReadTimeout
  <1>12. CASE UNCHANGED kqVars
    BY <1>12 DEF kqVars
  <1> QED
    BY <1>1, <1>2, <1>3, <1>4, <1>5, <1>6, <1>7, <1>8, <1>9, <1>10, <1>11, <1>12 DEF KqNext
-----------------------------------------------------------------------------
(* No thread has called yet.                                               *)
LEMMA CountdownInit == KqInit => Countdown
  <1> SUFFICES ASSUME KqInit, NEW u \in KqUsers
               PROVE  /\ Napped(kqLeft[u], kqAsked[u], kqSlept[u], KqNap)
                      /\ kqPc[u] = "nap" => kqLeft[u] > 0
                      /\ KqGaveUp(u) => kqLeft[u] = 0
    BY DEF Countdown
  <1>1. KqNap \in Nat
    BY NapType DEF KqInit
  <1>2. Napped(0, 0, 0, KqNap)
    BY <1>1, NappedStart, Zero
  <1> QED
    BY <1>2 DEF KqInit, KqGaveUp

(* A call begins the countdown of its thread; its result is still that of  *)
(* an earlier call, or one that is no timeout.                             *)
LEMMA CallCounts ==
    ASSUME KqTypeOK, Countdown, NEW u \in KqUsers, NEW t \in KqTimeouts, KqCall(u, t),
           kqRate' = kqRate, kqPc'[u] # "nap", ~KqGaveUp(u)',
           \A v \in KqUsers \ {u} : kqPc'[v] = kqPc[v] /\ kqRet'[v] = kqRet[v]
    PROVE  Countdown'
  <1>1. KqNap' = KqNap /\ KqNap \in Nat
    BY NapType DEF KqNap, KqTypeOK
  <1>2. Napped(t, t, 0, KqNap)
    BY <1>1, NappedStart, KqAssumption
  <1> SUFFICES ASSUME NEW v \in KqUsers
               PROVE  /\ Napped(kqLeft'[v], kqAsked'[v], kqSlept'[v], KqNap')
                      /\ kqPc'[v] = "nap" => kqLeft'[v] > 0
                      /\ KqGaveUp(v)' => kqLeft'[v] = 0
    BY DEF Countdown
  <1>3. CASE v = u
    <2>1. kqLeft'[u] = t /\ kqAsked'[u] = t /\ kqSlept'[u] = 0
      BY DEF KqCall, KqTypeOK
    <2> QED
      BY <1>1, <1>2, <1>3, <2>1
  <1>4. CASE v # u
    <2>1. kqLeft'[v] = kqLeft[v] /\ kqAsked'[v] = kqAsked[v] /\ kqSlept'[v] = kqSlept[v]
      BY <1>4 DEF KqCall, KqTypeOK
    <2> QED
      BY <1>1, <1>4, <2>1 DEF Countdown, KqGaveUp
  <1> QED
    BY <1>3, <1>4

(* Every step keeps the countdown.                                         *)
LEMMA CountdownStep == KqTypeOK /\ Countdown /\ [KqNext]_kqVars => Countdown'
  <1> SUFFICES ASSUME KqTypeOK, Countdown, [KqNext]_kqVars PROVE Countdown'
    OBVIOUS
  <1>0. kqRate' = kqRate /\ KqNap' = KqNap /\ KqNap \in Nat
    <2>1. kqRate' = kqRate
      BY DEF KqNext, KqCreate, KqUcosDelete, KqRtDelete, KqWriteCall, KqPosted, KqPostGone,
             KqRtFull, KqUcosNap, KqUcosTimeout, KqPostFull, KqSleep, KqReadNow, KqReadCall,
             KqReceive, KqReadTimeout, kqQueue, kqVars
    <2> QED
      BY <2>1, NapType DEF KqNap, KqTypeOK
  <1>1. ASSUME NEW u \in KqUsers, KqWriteCall(u) PROVE Countdown'
    <2>1. kqPc'[u] = "post" /\ \A v \in KqUsers \ {u} : kqPc'[v] = kqPc[v] /\ kqRet'[v] = kqRet[v]
      BY <1>1 DEF KqWriteCall, KqTypeOK
    <2> QED
      BY <1>0, <1>1, <2>1, CallCounts DEF KqWriteCall, KqGaveUp
  <1>2. ASSUME NEW u \in KqUsers, KqReadCall(u) PROVE Countdown'
    <2>1. PICK t \in KqTimeouts, wait \in {"read", "read_forever"} :
              KqCall(u, t) /\ kqPc' = [kqPc EXCEPT ![u] = wait]
      BY <1>2 DEF KqReadCall
    <2>2. kqPc'[u] \in {"read", "read_forever"}
          /\ \A v \in KqUsers \ {u} : kqPc'[v] = kqPc[v] /\ kqRet'[v] = kqRet[v]
      BY <1>2, <2>1 DEF KqReadCall, KqTypeOK
    <2> QED
      BY <1>0, <2>1, <2>2, CallCounts DEF KqGaveUp
  <1>3. ASSUME NEW u \in KqUsers, KqReadNow(u) PROVE Countdown'
    <2>1. PICK r \in {"OK", "FAILURE", "OPERATION_FAILED"} : kqRet' = [kqRet EXCEPT ![u] = r]
      BY <1>3, ReadTypes DEF KqReadNow
    <2>2. /\ kqRet'[u] # "TIMEOUT" /\ kqPc'[u] # "nap"
          /\ \A v \in KqUsers \ {u} : kqPc'[v] = kqPc[v] /\ kqRet'[v] = kqRet[v]
      BY <1>3, <2>1 DEF KqReadNow, KqCall, KqTypeOK
    <2> QED
      BY <1>0, <1>3, <2>2, CallCounts DEF KqReadNow, KqGaveUp
  <1>4. ASSUME NEW u \in KqUsers, KqSleep(u) PROVE Countdown'
    <2>1. Napped(KqCountDown(kqLeft[u]), kqAsked[u],
                 IF kqLeft[u] = KqForever THEN kqSlept[u] ELSE kqSlept[u] + KqNap, KqNap)
      BY <1>0, <1>4, ClockTypes, NappedNap DEF KqSleep, Countdown
    <2>2. UNCHANGED <<kqRet, kqAsked>>
      BY <1>4 DEF KqSleep
    <2> SUFFICES ASSUME NEW v \in KqUsers
                 PROVE  /\ Napped(kqLeft'[v], kqAsked'[v], kqSlept'[v], KqNap)
                        /\ kqPc'[v] = "nap" => kqLeft'[v] > 0
                        /\ kqRet'[v] = "TIMEOUT" /\ kqPc'[v] = "idle" => kqLeft'[v] = 0
      BY <1>0 DEF Countdown, KqGaveUp
    <2>3. CASE v = u
      <3>1. /\ kqLeft'[u] = KqCountDown(kqLeft[u]) /\ kqPc'[u] = "post"
            /\ kqSlept'[u] = IF kqLeft[u] = KqForever THEN kqSlept[u] ELSE kqSlept[u] + KqNap
        BY <1>4 DEF KqSleep, KqTypeOK
      <3> QED
        BY <2>1, <2>2, <2>3, <3>1
    <2>4. CASE v # u
      <3>1. kqLeft'[v] = kqLeft[v] /\ kqSlept'[v] = kqSlept[v] /\ kqPc'[v] = kqPc[v]
        BY <1>4, <2>4 DEF KqSleep, KqTypeOK
      <3> QED
        BY <2>2, <3>1 DEF Countdown, KqGaveUp
    <2> QED
      BY <2>3, <2>4
  <1>5. ASSUME UNCHANGED kqClock,
               \A u \in KqUsers :
                   /\ kqPc'[u] = "nap" => kqPc[u] = "nap" \/ kqLeft[u] > 0
                   /\ kqRet'[u] = "TIMEOUT" /\ kqPc'[u] = "idle" =>
                          kqLeft[u] = 0 \/ (kqRet[u] = "TIMEOUT" /\ kqPc[u] = "idle")
        PROVE  Countdown'
    BY <1>0, <1>5 DEF Countdown, KqGaveUp, kqClock
  <1>6. ASSUME NEW u \in KqUsers, KqUcosNap(u) PROVE Countdown'
    <2>1. UNCHANGED kqClock /\ UNCHANGED kqRet /\ kqPc' = [kqPc EXCEPT ![u] = "nap"] /\ kqLeft[u] > 0
      BY <1>6 DEF KqUcosNap, KqPostFull
    <2> QED
      BY <1>5, <2>1 DEF KqTypeOK
  <1>7. ASSUME NEW u \in KqUsers, KqUcosTimeout(u) PROVE Countdown'
    <2>1. /\ UNCHANGED kqClock /\ kqLeft[u] = 0
          /\ kqPc' = [kqPc EXCEPT ![u] = "idle"] /\ kqRet' = [kqRet EXCEPT ![u] = "TIMEOUT"]
      BY <1>7 DEF KqUcosTimeout, KqPostFull, KqReturn
    <2> QED
      BY <1>5, <2>1 DEF KqTypeOK
  <1>8. ASSUME NEW u \in KqUsers,
               \/ KqPosted(u) \/ KqPostGone(u) \/ KqRtFull(u)
               \/ KqReceive(u) \/ KqReadTimeout(u)
        PROVE  Countdown'
    <2>1. UNCHANGED kqClock /\ kqPc' = [kqPc EXCEPT ![u] = "idle"]
      BY <1>8 DEF KqPosted, KqPostGone, KqRtFull, KqPostFull, KqReceive, KqReadTimeout, KqReturn
    <2>2. PICK r \in {"OK", "FAILURE", "OPERATION_FAILED"} : kqRet' = [kqRet EXCEPT ![u] = r]
      BY <1>8, ReadTypes DEF KqPosted, KqPostGone, KqRtFull, KqReceive, KqReadTimeout, KqReturn
    <2> QED
      BY <1>5, <2>1, <2>2 DEF KqTypeOK
  <1>9. CASE KqRtDelete
    BY <1>5, <1>9 DEF KqRtDelete, KqPending
  <1>10. CASE KqCreate \/ KqUcosDelete \/ UNCHANGED kqVars
    BY <1>5, <1>10 DEF KqCreate, KqUcosDelete, kqVars
  <1> QED
    BY <1>1, <1>2, <1>3, <1>4, <1>6, <1>7, <1>8, <1>9, <1>10 DEF KqNext

(* The types and the countdown hold together.                              *)
LEMMA CountdownHolds == KqSpec => [](KqTypeOK /\ Countdown)
  <1>1. KqInit => KqTypeOK /\ Countdown
    BY KqTypeInit, CountdownInit
  <1>2. KqTypeOK /\ Countdown /\ [KqNext]_kqVars => (KqTypeOK /\ Countdown)'
    BY KqTypeStep, CountdownStep
  <1> QED
    BY <1>1, <1>2, PTL DEF KqSpec

(* The counters of the uC/OS and RT-Thread queues and the clocks of their  *)
(* calls stay in range.                                                    *)
THEOREM KernelTypes == KqSpec => []KqTypeOK
  BY CountdownHolds, PTL

(* A write to a full queue that gives up slept as many naps as cover the   *)
(* time it was asked to wait and not one more, and one that was to wait    *)
(* for ever does not give up, for any timeouts, any IOTK_WAIT_FOREVER and  *)
(* any tick rate: the unsigned countdown of iotk_msgq_write does not pass  *)
(* zero.                                                                   *)
THEOREM WaitsAsAsked == KqSpec => []WaitHonoured
  <1>1. KqTypeOK /\ Countdown => WaitHonoured
    <2> SUFFICES ASSUME KqTypeOK, Countdown, NEW u \in KqUsers
                 PROVE  /\ 10 * kqSlept[u] < (kqAsked[u] + 10) * KqNap
                        /\ KqGaveUp(u) => 10 * kqSlept[u] >= kqAsked[u] * KqNap
      BY DEF WaitHonoured
    <2>1. kqLeft[u] \in 0 .. KqForever /\ kqAsked[u] \in 0 .. KqForever /\ kqSlept[u] \in Nat
      BY ClockTypes
    <2>2. KqNap \in Nat \ {0}
      BY NapType DEF KqTypeOK
    <2> QED
      BY <2>1, <2>2, NappedLate DEF Countdown
  <1> QED
    BY <1>1, CountdownHolds, PTL
-----------------------------------------------------------------------------
(* The Linux queue.                                                        *)

(* A closed queue is in no call.                                           *)
Closed == ~lxOpen => \A u \in LxUsers : lxPc[u] = "idle"

(* Between its lock and its unlock a thread owns the guard; a thread that  *)
(* timed out is about to unlock without owning it.                         *)
Section == \A u \in LxUsers :
    lxPc[u] \in {"w_wait", "w_copy", "w_next", "r_next", "r_unlock"} => lxGuard = u

(* Messages and tokens together are never more than the slots, also when   *)
(* the token of the writer that is about to copy is counted.               *)
Tokens ==
    /\ lxWrites + lxSem <= LxMax
    /\ \A u \in LxUsers : lxPc[u] = "w_copy" => lxWrites + lxSem < LxMax

(* The filled slots are the first, and wpos is the last of them while a    *)
(* writer has still to move it, the one behind them otherwise.             *)
Prefix ==
    /\ lxFilled = 0 .. lxWrites - 1
    /\ \A u \in LxUsers : lxPc[u] = "w_next" => lxWrites > 0 /\ lxWpos = lxWrites - 1
    /\ (\A u \in LxUsers : lxPc[u] # "w_next") =>
          lxWpos = IF lxWrites = LxMax THEN 0 ELSE lxWrites

(* The inductive invariant.                                                *)
LxInv == LxTypeOK /\ Closed /\ (lxStolen \/ (Section /\ Tokens /\ Prefix))
-----------------------------------------------------------------------------
(* The position behind the last slot is the first.                         *)
LEMMA NextSlot ==
    ASSUME NEW p \in LxSlots
    PROVE  (p + 1) % LxMax = IF p + 1 = LxMax THEN 0 ELSE p + 1
  BY LxAssumption DEF LxSlots

(* The first n slots are n.                                                *)
LEMMA SlotCount ==
    ASSUME NEW n \in Nat
    PROVE  Cardinality(0 .. n - 1) = n
  BY FS_Interval

(* A queue that was not created has no message.                            *)
LEMMA LxInvInit == LxInit => LxInv
  <1> SUFFICES ASSUME LxInit PROVE LxInv
    OBVIOUS
  <1>1. LxTypeOK
    <2>1. 0 \in LxSlots /\ 0 \in 0 .. LxMax
      BY LxAssumption DEF LxSlots
    <2> QED
      BY <2>1 DEF LxInit, LxTypeOK
  <1>2. Closed /\ Section
    BY DEF LxInit, Closed, Section
  <1>3. Tokens /\ Prefix
    BY LxAssumption DEF LxInit, Tokens, Prefix
  <1> QED
    BY <1>1, <1>2, <1>3 DEF LxInv

(* Every step keeps the types.                                             *)
LEMMA LxTypeStep == LxTypeOK /\ [LxNext]_lxVars => LxTypeOK'
  <1> SUFFICES ASSUME LxTypeOK, [LxNext]_lxVars PROVE LxTypeOK'
    OBVIOUS
  <1> USE LxAssumption DEF LxTypeOK, lxRing
  <1>1. CASE LxCreate
    <2>1. 0 \in LxSlots /\ LxMax \in 0 .. LxMax
      BY DEF LxSlots
    <2> QED
      BY <1>1, <2>1 DEF LxCreate
  <1>2. CASE LxDelete
    BY <1>2 DEF LxDelete
  <1>3. ASSUME NEW u \in LxUsers, LxCall(u) PROVE LxTypeOK'
    BY <1>3 DEF LxCall, LxAt
  <1>4. ASSUME NEW u \in LxUsers, LxWriteLock(u) \/ LxReadLock(u) PROVE LxTypeOK'
    BY <1>4 DEF LxWriteLock, LxReadLock, LxLock, LxAt
  <1>5. ASSUME NEW u \in LxUsers, LxWriteWait(u) \/ LxReadWait(u) PROVE LxTypeOK'
    BY <1>5 DEF LxWriteWait, LxReadWait, LxToken, LxAt
  <1>6. ASSUME NEW u \in LxUsers, LxWriteCopy(u) PROVE LxTypeOK'
    BY <1>6 DEF LxWriteCopy, LxAt
  <1>7. ASSUME NEW u \in LxUsers, LxWriteNext(u) PROVE LxTypeOK'
    BY <1>7, NextSlot DEF LxWriteNext, LxAt, LxSlots
  <1>8. ASSUME NEW u \in LxUsers, LxReadNext(u) PROVE LxTypeOK'
    BY <1>8, NextSlot DEF LxReadNext, LxAt, LxSlots
  <1>9. ASSUME NEW u \in LxUsers, LxWriteUnlock(u) \/ LxReadUnlock(u) PROVE LxTypeOK'
    BY <1>9 DEF LxWriteUnlock, LxReadUnlock, LxAt
  <1>10. CASE UNCHANGED lxVars
    BY <1>10 DEF lxVars
  <1> QED
    BY <1>1, <1>2, <1>3, <1>4, <1>5, <1>6, <1>7, <1>8, <1>9, <1>10 DEF LxNext

(* A call begins on an open queue, and a queue is closed between calls.    *)
LEMMA ClosedStep == LxTypeOK /\ Closed /\ [LxNext]_lxVars => Closed'
  <1> SUFFICES ASSUME LxTypeOK, Closed, [LxNext]_lxVars PROVE Closed'
    OBVIOUS
  <1> USE DEF LxTypeOK, Closed
  <1>1. CASE LxCreate \/ LxDelete \/ UNCHANGED lxVars
    BY <1>1 DEF LxCreate, LxDelete, lxVars
  <1>2. ASSUME NEW u \in LxUsers, LxCall(u) PROVE Closed'
    BY <1>2 DEF LxCall
  <1>3. ASSUME NEW u \in LxUsers,
               \/ LxWriteLock(u) \/ LxWriteWait(u) \/ LxWriteCopy(u) \/ LxWriteNext(u)
               \/ LxWriteUnlock(u)
               \/ LxReadWait(u) \/ LxReadLock(u) \/ LxReadNext(u) \/ LxReadUnlock(u)
        PROVE  Closed'
    <2>1. lxPc[u] # "idle" /\ UNCHANGED lxOpen
      BY <1>3 DEF LxWriteLock, LxWriteWait, LxWriteCopy, LxWriteNext, LxWriteUnlock,
                  LxReadWait, LxReadLock, LxReadNext, LxReadUnlock, LxAt
    <2> QED
      BY <2>1
  <1> QED
    BY <1>1, <1>2, <1>3 DEF LxNext
-----------------------------------------------------------------------------
(* The steps of a queue whose guard no one unlocked for another: the guard *)
(* is taken only when it is free.                                          *)
LEMMA SectionStep ==
    ASSUME LxTypeOK, Closed, Section, [LxNext]_lxVars, ~lxStolen'
    PROVE  Section'
  <1> USE DEF LxTypeOK, Section, lxRing
  <1>1. CASE LxCreate
    BY <1>1 DEF LxCreate, Closed
  <1>2. CASE LxDelete \/ UNCHANGED lxVars
    BY <1>2 DEF LxDelete, lxVars
  <1>3. ASSUME NEW u \in LxUsers, LxCall(u) PROVE Section'
    BY <1>3 DEF LxCall, LxAt
  <1>4. ASSUME NEW u \in LxUsers, LxWriteLock(u) \/ LxReadLock(u) PROVE Section'
    BY <1>4, LxAssumption DEF LxWriteLock, LxReadLock, LxLock, LxAt
  <1>5. ASSUME NEW u \in LxUsers,
               \/ LxWriteWait(u) \/ LxWriteCopy(u) \/ LxWriteNext(u)
               \/ LxReadWait(u) \/ LxReadNext(u)
        PROVE  Section'
    BY <1>5 DEF LxWriteWait, LxWriteCopy, LxWriteNext, LxReadWait, LxReadNext, LxAt
  <1>6. ASSUME NEW u \in LxUsers, LxWriteUnlock(u) \/ LxReadUnlock(u) PROVE Section'
    <2>1. lxGuard \in {u, LxNoOne} /\ lxPc' = [lxPc EXCEPT ![u] = "idle"]
      BY <1>6 DEF LxWriteUnlock, LxReadUnlock, LxAt
    <2> QED
      BY <2>1, LxAssumption
  <1> QED
    BY <1>1, <1>2, <1>3, <1>4, <1>5, <1>6 DEF LxNext

(* A token becomes at most one message.                                    *)
LEMMA TokensStep ==
    ASSUME LxTypeOK, Closed, Section, Tokens, [LxNext]_lxVars
    PROVE  Tokens'
  <1> USE DEF LxTypeOK, Tokens, lxRing
  <1>1. CASE LxCreate
    BY <1>1, LxAssumption DEF LxCreate, Closed
  <1>2. CASE LxDelete \/ UNCHANGED lxVars
    BY <1>2 DEF LxDelete, lxVars
  <1>3. ASSUME NEW u \in LxUsers, LxWriteCopy(u) PROVE Tokens'
    <2>1. \A v \in LxUsers \ {u} : lxPc[v] # "w_copy"
      BY <1>3 DEF LxWriteCopy, LxAt, Section
    <2>2. lxWrites + lxSem < LxMax
      BY <1>3 DEF LxWriteCopy, LxAt
    <2>3. \A v \in LxUsers : lxPc'[v] # "w_copy"
      BY <1>3, <2>1 DEF LxWriteCopy, LxAt
    <2> QED
      BY <1>3, <2>2, <2>3, LxAssumption DEF LxWriteCopy
  <1>4. ASSUME NEW u \in LxUsers, LxWriteWait(u) PROVE Tokens'
    BY <1>4, LxAssumption DEF LxWriteWait, LxToken, LxAt
  <1>5. ASSUME NEW u \in LxUsers, LxReadWait(u) PROVE Tokens'
    BY <1>5, LxAssumption DEF LxReadWait, LxToken, LxAt
  <1>6. ASSUME NEW u \in LxUsers,
               \/ LxCall(u) \/ LxWriteLock(u) \/ LxWriteNext(u) \/ LxWriteUnlock(u)
               \/ LxReadLock(u) \/ LxReadNext(u) \/ LxReadUnlock(u)
        PROVE  Tokens'
    <2>1. UNCHANGED <<lxWrites, lxSem>>
      BY <1>6 DEF LxCall, LxWriteLock, LxWriteNext, LxWriteUnlock, LxReadLock, LxReadNext,
                  LxReadUnlock
    <2>2. \A v \in LxUsers : lxPc'[v] = "w_copy" => lxPc[v] = "w_copy"
      BY <1>6 DEF LxCall, LxWriteLock, LxWriteNext, LxWriteUnlock, LxReadLock, LxReadNext,
                  LxReadUnlock, LxAt
    <2> QED
      BY <2>1, <2>2
  <1> QED
    BY <1>1, <1>2, <1>3, <1>4, <1>5, <1>6 DEF LxNext

(* A writer fills the slot behind the filled ones, which is not one of     *)
(* them, and moves wpos behind it before the next writer comes.            *)
LEMMA PrefixStep ==
    ASSUME LxTypeOK, Closed, Section, Tokens, Prefix, [LxNext]_lxVars
    PROVE  Prefix'
  <1> USE DEF LxTypeOK, Prefix, lxRing
  <1>1. CASE LxCreate
    BY <1>1, LxAssumption DEF LxCreate, Closed
  <1>2. CASE LxDelete \/ UNCHANGED lxVars
    BY <1>2 DEF LxDelete, lxVars
  <1>3. ASSUME NEW u \in LxUsers, LxWriteCopy(u) PROVE Prefix'
    <2>1. \A v \in LxUsers \ {u} : lxPc[v] # "w_next"
      BY <1>3 DEF LxWriteCopy, LxAt, Section
    <2>2. lxWrites < LxMax
      BY <1>3, LxAssumption DEF LxWriteCopy, LxAt, Tokens
    <2>3. lxPc[u] = "w_copy" /\ lxPc' = [lxPc EXCEPT ![u] = "w_next"]
      BY <1>3 DEF LxWriteCopy, LxAt
    <2>4. lxWpos = lxWrites
      BY <2>1, <2>2, <2>3
    <2>5. lxFilled' = 0 .. lxWrites' - 1 /\ lxWrites' = lxWrites + 1 /\ lxWpos' = lxWpos
      BY <1>3, <2>4 DEF LxWriteCopy
    <2> QED
      BY <2>3, <2>4, <2>5
  <1>4. ASSUME NEW u \in LxUsers, LxWriteNext(u) PROVE Prefix'
    <2>1. \A v \in LxUsers \ {u} : lxPc[v] # "w_next"
      BY <1>4 DEF LxWriteNext, LxAt, Section
    <2>2. lxWrites > 0 /\ lxWpos = lxWrites - 1 /\ lxWpos \in LxSlots
      BY <1>4 DEF LxWriteNext, LxAt
    <2>3. lxWpos' = IF lxWrites = LxMax THEN 0 ELSE lxWrites
      BY <1>4, <2>2, NextSlot DEF LxWriteNext, LxSlots
    <2>4. \A v \in LxUsers : lxPc'[v] # "w_next"
      BY <1>4, <2>1 DEF LxWriteNext, LxAt
    <2>5. UNCHANGED <<lxFilled, lxWrites>>
      BY <1>4 DEF LxWriteNext
    <2> QED
      BY <2>3, <2>4, <2>5
  <1>5. ASSUME NEW u \in LxUsers,
               \/ LxCall(u) \/ LxWriteLock(u) \/ LxWriteWait(u) \/ LxWriteUnlock(u)
               \/ LxReadWait(u) \/ LxReadLock(u) \/ LxReadNext(u) \/ LxReadUnlock(u)
        PROVE  Prefix'
    <2>1. UNCHANGED <<lxFilled, lxWrites, lxWpos>>
      BY <1>5 DEF LxCall, LxWriteLock, LxWriteWait, LxWriteUnlock, LxReadWait, LxReadLock,
                  LxReadNext, LxReadUnlock
    <2>2. \A v \in LxUsers : lxPc'[v] = "w_next" <=> lxPc[v] = "w_next"
      BY <1>5 DEF LxCall, LxWriteLock, LxWriteWait, LxWriteUnlock, LxReadWait, LxReadLock,
                  LxReadNext, LxReadUnlock, LxAt
    <2> QED
      BY <2>1, <2>2
  <1> QED
    BY <1>1, <1>2, <1>3, <1>4, <1>5 DEF LxNext

(* A queue whose guard was unlocked for another becomes sound again only   *)
(* when it is created anew.                                                *)
LEMMA StolenStep ==
    ASSUME LxTypeOK, Closed, lxStolen, [LxNext]_lxVars
    PROVE  lxStolen' \/ (Section /\ Tokens /\ Prefix)'
  <1>1. CASE LxCreate
    BY <1>1, LxAssumption DEF LxCreate, Closed, LxTypeOK, Section, Tokens, Prefix
  <1>2. CASE ~LxCreate
    BY <1>2 DEF LxNext, LxDelete, LxCall, LxWriteLock, LxWriteWait, LxWriteCopy, LxWriteNext,
                LxWriteUnlock, LxReadWait, LxReadLock, LxReadNext, LxReadUnlock, lxVars
  <1> QED
    BY <1>1, <1>2

(* The counters of the Linux queue stay in range, whoever unlocks what.    *)
THEOREM LinuxTypes == LxSpec => []LxTypeOK
  <1>1. LxInit => LxTypeOK
    BY LxInvInit DEF LxInv
  <1> QED
    BY <1>1, LxTypeStep, PTL DEF LxSpec

(* On Linux no write that succeeds is written over, for any threads, any   *)
(* size, and although no call ever gives a token back; unless a writer     *)
(* whose wait for the guard timed out unlocked it under another thread.    *)
THEOREM LinuxWritesKept == LxSpec => []WritesKept
  <1>1. LxInv /\ [LxNext]_lxVars => LxInv'
    <2> SUFFICES ASSUME LxInv, [LxNext]_lxVars PROVE LxInv'
      OBVIOUS
    <2>1. LxTypeOK' /\ Closed'
      BY LxTypeStep, ClosedStep DEF LxInv
    <2>2. CASE lxStolen
      BY <2>1, <2>2, StolenStep DEF LxInv
    <2>3. CASE ~lxStolen
      BY <2>1, <2>3, SectionStep, TokensStep, PrefixStep DEF LxInv
    <2> QED
      BY <2>2, <2>3
  <1>2. LxInv => WritesKept
    BY SlotCount DEF LxInv, LxTypeOK, Prefix, WritesKept
  <1> QED
    BY <1>1, <1>2, LxInvInit, PTL DEF LxSpec
-----------------------------------------------------------------------------
(* The life of a Linux queue.                                              *)

(* The writers that have their token and have not copied their message.    *)
Copying == {u \in LxUsers : lxPc[u] = "w_copy"}

(* Each write that succeeds has used up one of the max_msgs tokens that    *)
(* sem_init gave the queue and that no call gives back, also while another *)
(* thread unlocks the guard of the one that writes.                        *)
TokensSpent ==
    /\ IsFiniteSet(Copying)
    /\ lxWrites + Cardinality(Copying) + lxSem <= LxMax

(* A write's token goes from the semaphore to the writer and from there to *)
(* the message; a read's is gone.                                          *)
LEMMA SpentStep == LxTypeOK /\ Closed /\ TokensSpent /\ [LxNext]_lxVars => TokensSpent'
  <1> SUFFICES ASSUME LxTypeOK, Closed, TokensSpent, [LxNext]_lxVars PROVE TokensSpent'
    OBVIOUS
  <1>0. /\ LxMax \in Nat /\ lxSem \in Nat /\ lxWrites \in Nat
        /\ IsFiniteSet(Copying) /\ Cardinality(Copying) \in Nat
        /\ lxWrites + Cardinality(Copying) + lxSem <= LxMax
    BY LxAssumption, FS_CardinalityType DEF LxTypeOK, TokensSpent
  <1>1. CASE LxCreate
    <2>1. Copying' = {}
      BY <1>1 DEF LxCreate, Closed, Copying
    <2>2. lxWrites' = 0 /\ lxSem' = LxMax
      BY <1>1 DEF LxCreate
    <2>3. IsFiniteSet(Copying') /\ Cardinality(Copying') = 0
      BY <2>1, FS_EmptySet
    <2> QED
      BY <1>0, <2>2, <2>3 DEF TokensSpent
  <1>2. ASSUME NEW u \in LxUsers, LxWriteCopy(u) PROVE TokensSpent'
    <2>1. Copying' = Copying \ {u} /\ u \in Copying
      BY <1>2 DEF LxWriteCopy, LxAt, Copying, LxTypeOK
    <2>2. IsFiniteSet(Copying') /\ Cardinality(Copying') = Cardinality(Copying) - 1
      BY <1>0, <2>1, FS_RemoveElement
    <2>3. lxWrites' = lxWrites + 1 /\ lxSem' = lxSem
      BY <1>2 DEF LxWriteCopy
    <2> QED
      BY <1>0, <2>2, <2>3 DEF TokensSpent
  <1>3. ASSUME NEW u \in LxUsers, LxAt(u, "w_wait", "w_copy"), LxToken, lxWrites' = lxWrites
        PROVE TokensSpent'
    <2>1. Copying' = Copying \cup {u} /\ u \notin Copying
      BY <1>3 DEF LxAt, Copying, LxTypeOK
    <2>2. IsFiniteSet(Copying') /\ Cardinality(Copying') = Cardinality(Copying) + 1
      BY <1>0, <2>1, FS_AddElement
    <2>3. lxSem' = lxSem - 1
      BY <1>3 DEF LxToken
    <2> QED
      BY <1>0, <1>3, <2>2, <2>3 DEF TokensSpent
  <1>4. ASSUME Copying' = Copying, lxWrites' = lxWrites, lxSem' = lxSem \/ lxSem' = lxSem - 1
        PROVE TokensSpent'
    BY <1>0, <1>4 DEF TokensSpent
  <1>5. ASSUME NEW u \in LxUsers, LxWriteWait(u) PROVE TokensSpent'
    <2>1. lxWrites' = lxWrites
      BY <1>5 DEF LxWriteWait, lxRing
    <2>2. CASE LxAt(u, "w_wait", "w_copy") /\ LxToken
      BY <1>3, <2>1, <2>2
    <2>3. CASE LxAt(u, "w_wait", "w_unlock") /\ UNCHANGED lxSem
      <3>1. Copying' = Copying
        BY <2>3 DEF LxAt, Copying, LxTypeOK
      <3> QED
        BY <1>4, <2>1, <2>3, <3>1
    <2> QED
      BY <1>5, <2>2, <2>3 DEF LxWriteWait
  <1>6. ASSUME NEW u \in LxUsers,
               \/ LxCall(u) \/ LxWriteLock(u) \/ LxWriteNext(u) \/ LxWriteUnlock(u)
               \/ LxReadWait(u) \/ LxReadLock(u) \/ LxReadNext(u) \/ LxReadUnlock(u)
        PROVE  TokensSpent'
    <2>1. lxWrites' = lxWrites /\ (lxSem' = lxSem \/ lxSem' = lxSem - 1)
      BY <1>6 DEF LxCall, LxWriteLock, LxWriteNext, LxWriteUnlock, LxReadWait, LxReadLock,
                  LxReadNext, LxReadUnlock, LxToken, lxRing
    <2>2. \A v \in LxUsers : lxPc'[v] = "w_copy" <=> lxPc[v] = "w_copy"
      BY <1>6 DEF LxCall, LxWriteLock, LxWriteNext, LxWriteUnlock, LxReadWait, LxReadLock,
                  LxReadNext, LxReadUnlock, LxAt, LxTypeOK
    <2>3. Copying' = Copying
      BY <2>2 DEF Copying
    <2> QED
      BY <1>4, <2>1, <2>3
  <1>7. CASE LxDelete \/ UNCHANGED lxVars
    <2>1. UNCHANGED <<lxPc, lxWrites, lxSem>>
      BY <1>7 DEF LxDelete, lxVars, lxRing
    <2> QED
      BY <1>4, <2>1 DEF Copying
  <1> QED
    BY <1>1, <1>2, <1>5, <1>6, <1>7 DEF LxNext

(* A Linux queue carries at most max_msgs messages in its whole life,      *)
(* fewer by each read: after that every write and every read fails.  This  *)
(* needs no assumption on who unlocks the guard.                           *)
THEOREM LinuxTokensRunOut == LxSpec => []TokensSpent
  <1>1. LxInit => LxTypeOK /\ Closed /\ TokensSpent
    <2> SUFFICES ASSUME LxInit PROVE TokensSpent
      BY LxInvInit DEF LxInv
    <2>1. Copying = {}
      BY DEF LxInit, Copying
    <2> QED
      BY <2>1, FS_EmptySet, LxAssumption DEF LxInit, TokensSpent
  <1> QED
    BY <1>1, LxTypeStep, ClosedStep, SpentStep, PTL DEF LxSpec
-----------------------------------------------------------------------------
(* The locks.                                                              *)

(* The types of what the locks are made of.                                *)
LockTypes ==
    /\ tkPort \in {"none", "windows", "linux", "rtthread"}
    /\ tkState \in [TkTasks -> {"none", "ready", "waits", "waits_forever", "ended"}]
    /\ lkOpen \in BOOLEAN
    /\ lkOwner \in TkTasks \cup {TkNoOne} /\ lkDepth \in Nat
    /\ lkAbandoned \in BOOLEAN
    /\ lkHeld \in [TkTasks -> Nat]
    /\ lkSilent \subseteq TkTasks

(* The depth is zero exactly when there is no owner; a closed lock has no  *)
(* owner and no one waits for it; only Windows abandons a mutex.           *)
LockShape ==
    /\ lkOwner = TkNoOne <=> lkDepth = 0
    /\ ~lkOpen => lkOwner = TkNoOne
    /\ \A t \in TkTasks : Waiting(t) => lkOpen
    /\ lkAbandoned => lkOwner = TkNoOne /\ tkPort = "windows"

(* The inductive invariant of the locks.                                   *)
LkInv == LockTypes /\ LockShape /\ AcquireIsTrue

(* No lock is there before it was created.                                 *)
LEMMA LkInvInit == TkInit => LkInv
  <1> SUFFICES ASSUME TkInit PROVE LkInv
    OBVIOUS
  <1>1. LockTypes
    BY DEF TkInit, LockTypes
  <1>2. LockShape
    BY DEF TkInit, LockShape, Waiting
  <1>3. AcquireIsTrue
    BY TkAssumption DEF TkInit, AcquireIsTrue
  <1> QED
    BY <1>1, <1>2, <1>3 DEF LkInv

(* A lock without an owner is held by no one, and no one has it silently.  *)
LEMMA NobodyHolds ==
    ASSUME LkInv, lkOwner = TkNoOne
    PROVE  lkSilent = {} /\ \A t \in TkTasks : lkHeld[t] = 0
  <1>1. \A t \in TkTasks : lkHeld[t] = 0 /\ t \notin lkSilent
    BY TkAssumption DEF LkInv, AcquireIsTrue
  <1> QED
    BY <1>1 DEF LkInv, LockTypes

(* A task that gets the lock, told so or not.                              *)
LEMMA AcquireStep ==
    ASSUME LkInv, NEW t \in TkTasks, AcquireOk(t) \/ AcquireAbandoned(t)
    PROVE  LkInv'
  <1> USE DEF LkInv
  <1>1. CASE AcquireOk(t)
    <2>1. LockTypes'
      BY <1>1 DEF LockTypes, AcquireOk, Resume, Owned
    <2>2. LockShape'
      <3>1. lkOwner' = t /\ lkDepth' = lkDepth + 1 /\ t # TkNoOne /\ lkDepth + 1 # 0
        BY <1>1, TkAssumption DEF LockTypes, AcquireOk, Owned
      <3> QED
        BY <1>1, <3>1 DEF LockTypes, LockShape, AcquireOk, Resume, Waiting
    <2>3. CASE lkOwner = t
      BY <1>1, <2>1, <2>2, <2>3 DEF LockTypes, AcquireIsTrue, AcquireOk, Owned
    <2>4. CASE lkOwner = TkNoOne
      <3>1. lkDepth = 0 /\ lkSilent = {} /\ \A s \in TkTasks : lkHeld[s] = 0
        BY <2>4, NobodyHolds DEF LockShape
      <3>2. AcquireIsTrue'
        BY <1>1, <3>1 DEF LockTypes, AcquireIsTrue, AcquireOk, Owned
      <3> QED
        BY <2>1, <2>2, <3>2
    <2> QED
      BY <1>1, <2>3, <2>4 DEF AcquireOk
  <1>2. CASE AcquireAbandoned(t)
    <2>1. LockTypes'
      <3>1. lkSilent' \subseteq TkTasks /\ lkAbandoned' \in BOOLEAN
        BY <1>2 DEF LockTypes, AcquireAbandoned
      <3> QED
        BY <1>2, <3>1 DEF LockTypes, AcquireAbandoned, Resume, Owned
    <2>2. LockShape'
      <3>1. lkOwner' = t /\ lkDepth' = lkDepth + 1 /\ t # TkNoOne /\ lkDepth + 1 # 0
        BY <1>2, TkAssumption DEF LockTypes, AcquireAbandoned, Owned
      <3> QED
        BY <1>2, <3>1 DEF LockTypes, LockShape, AcquireAbandoned, Resume, Waiting
    <2>3. lkDepth = 0 /\ lkSilent = {} /\ \A s \in TkTasks : lkHeld[s] = 0
      BY <1>2, NobodyHolds DEF LockShape, AcquireAbandoned
    <2>4. AcquireIsTrue'
      BY <1>2, <2>3 DEF LockTypes, LockShape, AcquireIsTrue, AcquireAbandoned, Owned
    <2> QED
      BY <2>1, <2>2, <2>4
  <1> QED
    BY <1>1, <1>2

(* A release takes back one acquire, the silent one last.                  *)
LEMMA ReleaseStep ==
    ASSUME LkInv, NEW t \in TkTasks, Release(t)
    PROVE  LkInv'
  <1> USE DEF LkInv
  <1>1. /\ lkDepth = lkHeld[t] + (IF t \in lkSilent THEN 1 ELSE 0)
        /\ lkDepth \in Nat /\ lkDepth # 0 /\ lkHeld[t] \in Nat
    BY TkAssumption DEF LockTypes, LockShape, AcquireIsTrue, Release
  <1>2. LockTypes'
    BY <1>1 DEF LockTypes, Release, tkTask
  <1>3. LockShape'
    BY <1>1, TkAssumption DEF LockTypes, LockShape, Release, Waiting, tkTask
  <1>4. CASE lkHeld[t] > 0
    <2>1. lkHeld' = [lkHeld EXCEPT ![t] = @ - 1] /\ lkSilent' = lkSilent
      BY <1>4 DEF Release
    <2>2. lkDepth = 1 => lkHeld[t] = 1 /\ t \notin lkSilent
      BY <1>1, <1>4
    <2>3. AcquireIsTrue'
      BY <1>1, <2>1, <2>2, TkAssumption DEF LockTypes, AcquireIsTrue, Release
    <2> QED
      BY <1>2, <1>3, <2>3
  <1>5. CASE ~(lkHeld[t] > 0)
    <2>1. lkHeld[t] = 0 /\ t \in lkSilent /\ lkDepth = 1
      BY <1>1, <1>5
    <2>2. lkSilent' = lkSilent \ {t} /\ lkHeld' = lkHeld
      BY <1>5 DEF Release
    <2>3. AcquireIsTrue'
      BY <2>1, <2>2, TkAssumption DEF LockTypes, AcquireIsTrue, Release
    <2> QED
      BY <1>2, <1>3, <2>3
  <1> QED
    BY <1>4, <1>5

(* A task that ends leaves its lock behind: on Windows without an owner,   *)
(* on RT-Thread with an owner that ended.                                  *)
LEMMA EndStep ==
    ASSUME LkInv, NEW t \in TkTasks, TaskEnd(t)
    PROVE  LkInv'
  <1> USE DEF LkInv
  <1>1. CASE lkOwner = t /\ tkPort = "windows"
    <2>1. /\ lkOwner' = TkNoOne /\ lkDepth' = 0 /\ lkAbandoned' = TRUE
          /\ lkHeld' = [lkHeld EXCEPT ![t] = 0] /\ lkSilent' = lkSilent \ {t}
          /\ UNCHANGED <<tkPort, lkOpen>>
          /\ tkState' = [tkState EXCEPT ![t] = "ended"]
      BY <1>1 DEF TaskEnd
    <2>2. LockTypes' /\ LockShape'
      BY <1>1, <2>1 DEF LockTypes, LockShape, Waiting
    <2>3. AcquireIsTrue'
      BY <1>1, <2>1, TkAssumption DEF LockTypes, AcquireIsTrue
    <2> QED
      BY <2>2, <2>3
  <1>2. CASE ~(lkOwner = t /\ tkPort = "windows")
    <2>1. /\ UNCHANGED <<lkOwner, lkDepth, lkAbandoned, lkHeld, lkSilent, tkPort, lkOpen>>
          /\ tkState' = [tkState EXCEPT ![t] = "ended"]
      BY <1>2 DEF TaskEnd
    <2> QED
      BY <2>1 DEF LockTypes, LockShape, Waiting, AcquireIsTrue
  <1> QED
    BY <1>1, <1>2

(* The steps that give the lock to no one and take it from no one.         *)
LEMMA QuietStep ==
    ASSUME LkInv,
           \/ Start \/ TaskCreateFails \/ LockCreate \/ LockDelete
           \/ \E t \in TkTasks : TaskCreate(t) \/ AcquireCall(t) \/ AcquireTimeout(t)
           \/ UNCHANGED tkVars
    PROVE  LkInv'
  <1> USE DEF LkInv, tkTask, lkLock
  <1>1. CASE Start
    BY <1>1 DEF Start, Waiting, LockTypes, LockShape, AcquireIsTrue
  <1>2. CASE LockCreate
    BY <1>2, NobodyHolds, TkAssumption DEF LockCreate, Waiting, LockTypes, LockShape, AcquireIsTrue
  <1>3. CASE LockDelete
    BY <1>3 DEF LockDelete, Waiting, LockTypes, LockShape, AcquireIsTrue
  <1>4. CASE TaskCreateFails
    BY <1>4 DEF TaskCreateFails, Waiting, LockTypes, LockShape, AcquireIsTrue
  <1>5. ASSUME NEW t \in TkTasks, TaskCreate(t) \/ AcquireCall(t) \/ AcquireTimeout(t)
        PROVE  LkInv'
    <2>1. UNCHANGED <<tkPort, lkLock, lkHeld, lkSilent>>
      BY <1>5 DEF TaskCreate, AcquireCall, AcquireTimeout
    <2>2. PICK s \in {"ready", "waits", "waits_forever"} :
              /\ tkState' = [tkState EXCEPT ![t] = s]
              /\ s # "ready" => lkOpen
      BY <1>5 DEF TaskCreate, AcquireCall, AcquireTimeout, Resume
    <2>3. LockShape'
      BY <2>1, <2>2 DEF LockTypes, LockShape, Waiting
    <2> QED
      BY <2>1, <2>2, <2>3 DEF LockTypes, AcquireIsTrue
  <1>6. CASE UNCHANGED tkVars
    BY <1>6 DEF tkVars, Waiting, LockTypes, LockShape, AcquireIsTrue
  <1> QED
    BY <1>1, <1>2, <1>3, <1>4, <1>5, <1>6

(* Every step keeps the invariant.                                         *)
LEMMA LkInvStep == LkInv /\ [TkNext]_tkVars => LkInv'
  BY AcquireStep, ReleaseStep, EndStep, QuietStep DEF TkNext

(* A task owns a lock exactly as often as it was told that it got it and   *)
(* not yet given it back, except for the one task on Windows that got a    *)
(* mutex another one left behind: what the results of iotk_lock_acquire    *)
(* and iotk_lock_release are worth.                                        *)
THEOREM LocksAreTrue == TkSpec => []AcquireIsTrue
  <1>1. LkInv => AcquireIsTrue
    BY DEF LkInv
  <1> QED
    BY <1>1, LkInvInit, LkInvStep, PTL DEF TkSpec

(* What an acquire is for: no two tasks have a lock at once, counting also *)
(* the one that has it without having been told.                           *)
OneHolder == \A t, u \in TkTasks :
    /\ lkHeld[t] > 0 \/ t \in lkSilent
    /\ lkHeld[u] > 0 \/ u \in lkSilent
    => t = u

(* iotk_lock_acquire keeps tasks apart, also around an abandoned mutex.    *)
THEOREM LocksExclude == TkSpec => []OneHolder
  <1>1. LkInv => OneHolder
    BY DEF LkInv, AcquireIsTrue, OneHolder, LockTypes
  <1> QED
    BY <1>1, LkInvInit, LkInvStep, PTL DEF TkSpec

(* A task ended with the lock in its hands on RT-Thread, whose kernel does *)
(* not notice.                                                             *)
Orphaned(t) == tkPort = "rtthread" /\ lkOwner = t /\ tkState[t] = "ended"

(* Only a ready task releases, only a waiting one acquires, and a lock     *)
(* with an owner is not deleted: an orphan's lock stays where it is.       *)
LEMMA OrphanStep ==
    ASSUME LkInv, NEW t \in TkTasks, Orphaned(t), [TkNext]_tkVars
    PROVE  /\ Orphaned(t)'
           /\ \A u \in TkTasks : tkState[u] = "waits_forever" => tkState'[u] = "waits_forever"
  <1>0. t # TkNoOne /\ lkOwner = t /\ lkOwner # TkNoOne /\ tkPort = "rtthread" /\ ~lkAbandoned /\ lkOpen
    BY TkAssumption DEF LkInv, LockShape, Orphaned
  <1> USE DEF Orphaned, LkInv, LockTypes
  <1>1. CASE Start \/ TaskCreateFails \/ LockCreate \/ LockDelete
    BY <1>0, <1>1 DEF Start, TaskCreateFails, LockCreate, LockDelete, tkTask, lkLock
  <1>2. ASSUME NEW v \in TkTasks, TaskCreate(v) \/ TaskEnd(v) \/ AcquireCall(v)
        PROVE  /\ Orphaned(t)'
               /\ \A u \in TkTasks : tkState[u] = "waits_forever" => tkState'[u] = "waits_forever"
    BY <1>0, <1>2 DEF TaskCreate, TaskEnd, AcquireCall, lkLock
  <1>3. ASSUME NEW v \in TkTasks, AcquireOk(v) \/ AcquireAbandoned(v) \/ AcquireTimeout(v)
        PROVE  /\ Orphaned(t)'
               /\ \A u \in TkTasks : tkState[u] = "waits_forever" => tkState'[u] = "waits_forever"
    BY <1>0, <1>3 DEF AcquireOk, AcquireAbandoned, AcquireTimeout, Resume, Waiting, lkLock
  <1>4. ASSUME NEW v \in TkTasks, Release(v)
        PROVE  /\ Orphaned(t)'
               /\ \A u \in TkTasks : tkState[u] = "waits_forever" => tkState'[u] = "waits_forever"
    BY <1>0, <1>4 DEF Release
  <1>5. CASE UNCHANGED tkVars
    BY <1>5 DEF tkVars, tkTask, lkLock
  <1> QED
    BY <1>1, <1>2, <1>3, <1>4, <1>5 DEF TkNext

(* On RT-Thread a lock whose owner ended is lost for good: it is never     *)
(* taken, released or deleted again, and a task that waits for it with     *)
(* IOTK_WAIT_FOREVER waits for ever.                                       *)
THEOREM OrphanedForEver ==
    ASSUME NEW t \in TkTasks, NEW u \in TkTasks
    PROVE  TkSpec => [](/\ Orphaned(t) => []Orphaned(t)
                        /\ Orphaned(t) /\ tkState[u] = "waits_forever"
                             => [](tkState[u] = "waits_forever"))
  <1>1. LkInv /\ Orphaned(t) /\ [TkNext]_tkVars => Orphaned(t)'
    BY OrphanStep
  <1>2. LkInv /\ Orphaned(t) /\ tkState[u] = "waits_forever" /\ [TkNext]_tkVars
          => (tkState[u] = "waits_forever")'
    BY OrphanStep
  <1> QED
    BY <1>1, <1>2, LkInvInit, LkInvStep, PTL DEF TkSpec
-----------------------------------------------------------------------------
(* The parameters of tasks.                                                *)

(* The tasks that have been created and have not ended.                    *)
Live == {t \in TkTasks : tkState[t] \notin {"none", "ended"}}

(* On the ports whose tasks have parameters, each block allocated belongs  *)
(* to a live task, which will free it, or to a creation that failed.       *)
BlocksOwned ==
    /\ IsFiniteSet(Live) /\ tkLeaked \in 0 .. TkMaxLeaks
    /\ tkPort = "none" => Live = {}
    /\ IF HasParams THEN tkParams = tkLeaked + Cardinality(Live)
                    ELSE tkParams = 0 /\ tkLeaked = 0

(* The nesting stays within its bound: an owner that waits for one more    *)
(* has room for it.                                                        *)
NestingBounded ==
    /\ lkDepth <= TkMaxDepth
    /\ \A t \in TkTasks : Waiting(t) /\ lkOwner = t => lkDepth < TkMaxDepth

(* At the start there are no tasks and no blocks.                          *)
LEMMA TaskInit == TkInit => BlocksOwned /\ NestingBounded
  <1> SUFFICES ASSUME TkInit PROVE BlocksOwned /\ NestingBounded
    OBVIOUS
  <1>1. Live = {}
    BY DEF TkInit, Live
  <1>2. BlocksOwned
    BY <1>1, FS_EmptySet, TkAssumption DEF TkInit, BlocksOwned, HasParams
  <1>3. NestingBounded
    BY TkAssumption DEF TkInit, NestingBounded, Waiting
  <1> QED
    BY <1>2, <1>3

(* A step that changes neither who is alive nor the blocks.                *)
LEMMA BlocksQuiet ==
    ASSUME BlocksOwned, UNCHANGED <<tkPort, tkParams, tkLeaked>>, Live' = Live
    PROVE  BlocksOwned'
  BY DEF BlocksOwned, HasParams

(* A creation allocates a block for a new task, an end frees the block of  *)
(* one that lived, and a failed creation allocates one for no task.        *)
LEMMA BlocksStep == LkInv /\ BlocksOwned /\ [TkNext]_tkVars => BlocksOwned'
  <1> SUFFICES ASSUME LkInv, BlocksOwned, [TkNext]_tkVars PROVE BlocksOwned'
    OBVIOUS
  <1>1. tkState \in [TkTasks -> {"none", "ready", "waits", "waits_forever", "ended"}]
    BY DEF LkInv, LockTypes
  <1>2. Cardinality(Live) \in Nat
    BY FS_CardinalityType DEF BlocksOwned
  <1>3. CASE Start
    <2>1. Live' = Live /\ Live = {} /\ Cardinality(Live) = 0
      BY <1>3, FS_EmptySet DEF Start, tkTask, Live, BlocksOwned
    <2>2. tkParams' = 0 /\ tkLeaked' = 0
      BY <1>3 DEF Start, tkTask, BlocksOwned, HasParams
    <2> QED
      BY <1>3, <2>1, <2>2, TkAssumption DEF Start, BlocksOwned, HasParams
  <1>4. CASE TaskCreateFails
    <2>1. Live' = Live
      BY <1>4 DEF TaskCreateFails, Live
    <2>2. tkParams' = tkLeaked' + Cardinality(Live) /\ tkLeaked' \in 0 .. TkMaxLeaks
      BY <1>2, <1>4, TkAssumption DEF TaskCreateFails, BlocksOwned
    <2> QED
      BY <1>4, <2>1, <2>2 DEF TaskCreateFails, BlocksOwned, HasParams
  <1>5. ASSUME NEW t \in TkTasks, TaskCreate(t) PROVE BlocksOwned'
    <2>1. Live' = Live \cup {t} /\ t \notin Live
      BY <1>1, <1>5 DEF TaskCreate, Live
    <2>2. IsFiniteSet(Live') /\ Cardinality(Live') = Cardinality(Live) + 1
      BY <2>1, FS_AddElement DEF BlocksOwned
    <2> QED
      BY <1>2, <1>5, <2>2 DEF TaskCreate, BlocksOwned, HasParams
  <1>6. ASSUME NEW t \in TkTasks, TaskEnd(t) PROVE BlocksOwned'
    <2>1. Live' = Live \ {t} /\ t \in Live
      BY <1>1, <1>6 DEF TaskEnd, Live
    <2>2. IsFiniteSet(Live') /\ Cardinality(Live') = Cardinality(Live) - 1
      BY <2>1, FS_RemoveElement DEF BlocksOwned
    <2>3. UNCHANGED <<tkPort, tkLeaked>> /\ tkParams' = IF HasParams THEN tkParams - 1 ELSE tkParams
      BY <1>6 DEF TaskEnd
    <2> QED
      BY <1>2, <2>1, <2>2, <2>3 DEF BlocksOwned, HasParams
  <1>7. ASSUME NEW t \in TkTasks,
               AcquireCall(t) \/ AcquireOk(t) \/ AcquireAbandoned(t) \/ AcquireTimeout(t)
        PROVE  BlocksOwned'
    <2>1. PICK s \in {"ready", "waits", "waits_forever"} :
             tkState' = [tkState EXCEPT ![t] = s] /\ tkState[t] \in {"ready", "waits", "waits_forever"}
      BY <1>7 DEF AcquireCall, AcquireOk, AcquireAbandoned, AcquireTimeout, Resume, Waiting
    <2>2. Live' = Live
      BY <1>1, <2>1 DEF Live
    <2>3. UNCHANGED <<tkPort, tkParams, tkLeaked>>
      BY <1>7 DEF AcquireCall, AcquireOk, AcquireAbandoned, AcquireTimeout
    <2> QED
      BY <2>2, <2>3, BlocksQuiet
  <1>8. ASSUME \/ LockCreate \/ LockDelete \/ UNCHANGED tkVars
               \/ \E t \in TkTasks : Release(t)
        PROVE  BlocksOwned'
    <2>1. UNCHANGED <<tkPort, tkState, tkParams, tkLeaked>>
      BY <1>8 DEF LockCreate, LockDelete, Release, tkVars, tkTask
    <2> QED
      BY <2>1, BlocksQuiet DEF Live
  <1> QED
    BY <1>3, <1>4, <1>5, <1>6, <1>7, <1>8 DEF TkNext

(* Only a task that asked with room to spare gets the lock once more.      *)
LEMMA NestingStep == LkInv /\ NestingBounded /\ [TkNext]_tkVars => NestingBounded'
  <1> SUFFICES ASSUME LkInv, NestingBounded, [TkNext]_tkVars PROVE NestingBounded'
    OBVIOUS
  <1> USE DEF LkInv, LockTypes, tkTask, lkLock
  <1>1. CASE Start \/ TaskCreateFails \/ LockCreate \/ LockDelete
    <2>1. UNCHANGED tkState
      BY <1>1 DEF Start, TaskCreateFails, LockCreate, LockDelete
    <2>2. \/ UNCHANGED <<lkOwner, lkDepth>>
          \/ lkOwner' = TkNoOne /\ lkDepth' = 0
      BY <1>1 DEF Start, TaskCreateFails, LockCreate, LockDelete
    <2> QED
      BY <2>1, <2>2, TkAssumption DEF NestingBounded, Waiting
  <1>2. ASSUME NEW t \in TkTasks, TaskCreate(t) \/ TaskEnd(t) \/ AcquireTimeout(t)
        PROVE  NestingBounded'
    <2>1. PICK s \in {"ready", "ended"} : tkState' = [tkState EXCEPT ![t] = s]
      BY <1>2 DEF TaskCreate, TaskEnd, AcquireTimeout, Resume
    <2>2. \/ UNCHANGED <<lkOwner, lkDepth>>
          \/ lkOwner' = TkNoOne /\ lkDepth' = 0
      BY <1>2 DEF TaskCreate, TaskEnd, AcquireTimeout
    <2> QED
      BY <2>1, <2>2, TkAssumption DEF NestingBounded, Waiting
  <1>3. ASSUME NEW t \in TkTasks, AcquireCall(t) PROVE NestingBounded'
    BY <1>3 DEF AcquireCall, NestingBounded, Waiting
  <1>4. ASSUME NEW t \in TkTasks, AcquireOk(t) \/ AcquireAbandoned(t) PROVE NestingBounded'
    <2>1. tkState' = [tkState EXCEPT ![t] = "ready"] /\ lkOwner' = t /\ lkDepth' = lkDepth + 1
      BY <1>4 DEF AcquireOk, AcquireAbandoned, Resume, Owned
    <2>2. lkDepth < TkMaxDepth
      <3>1. Waiting(t) /\ (lkOwner = t \/ lkOwner = TkNoOne)
        BY <1>4 DEF AcquireOk, AcquireAbandoned, LockShape
      <3> QED
        BY <3>1, TkAssumption DEF NestingBounded, LockShape
    <2> QED
      BY <2>1, <2>2, TkAssumption DEF NestingBounded, Waiting
  <1>5. ASSUME NEW t \in TkTasks, Release(t) PROVE NestingBounded'
    <2>1. UNCHANGED tkState /\ lkDepth' = lkDepth - 1 /\ lkOwner' \in {TkNoOne, lkOwner}
      BY <1>5 DEF Release
    <2> QED
      BY <2>1, TkAssumption DEF NestingBounded, Waiting
  <1>6. CASE UNCHANGED tkVars
    BY <1>6 DEF tkVars, NestingBounded, Waiting
  <1> QED
    BY <1>1, <1>2, <1>3, <1>4, <1>5, <1>6 DEF TkNext

(* The invariants hold always.                                             *)
LEMMA TaskAlways == TkSpec => [](LkInv /\ BlocksOwned /\ NestingBounded)
  BY LkInvInit, LkInvStep, TaskInit, BlocksStep, NestingStep, PTL DEF TkSpec

(* A task's parameters are freed once, by the task, and only those of a    *)
(* creation that failed are left.                                          *)
THEOREM ParametersFreedOnce == TkSpec => []BlocksOwned
  BY TaskAlways, PTL

(* The blocks allocated are never fewer than none, a lock is never nested  *)
(* deeper than its tasks go, and states and owners are what they may be.   *)
THEOREM TaskTypes == TkSpec => []TkTypeOK
  <1>1. ASSUME LkInv, BlocksOwned, NestingBounded PROVE TkTypeOK
    <2>1. tkParams \in Nat
      BY <1>1, FS_CardinalityType, TkAssumption DEF BlocksOwned
    <2>2. lkDepth \in 0 .. TkMaxDepth
      BY <1>1, TkAssumption DEF LkInv, LockTypes, NestingBounded
    <2>3. ASSUME NEW t \in TkTasks PROVE lkHeld[t] \in 0 .. TkMaxDepth
      BY <1>1, <2>2, TkAssumption DEF LkInv, LockTypes, AcquireIsTrue
    <2> QED
      BY <1>1, <2>1, <2>2, <2>3 DEF LkInv, LockTypes, BlocksOwned, TkTypeOK
  <1> QED
    BY <1>1, TaskAlways, PTL
-----------------------------------------------------------------------------
(* The synchronisation objects.                                           *)

(* The fields of the ports that the arithmetic needs.                      *)
LEMMA PortFields ==
    ASSUME NEW p \in Ports
    PROVE  /\ p.init \in Nat /\ p.max \in Nat /\ p.typed \in BOOLEAN
           /\ p.max # Unbounded => p.init <= p.max
           /\ p.late \in {"TIMEOUT", "OPERATION_FAILED"}
           /\ p.reset = "restart" => p.max = Unbounded
  <1>1. CASE p = Windows
    BY <1>1 DEF Windows, Unbounded
  <1>2. CASE p = Linux
    BY <1>2 DEF Linux, Unbounded
  <1>3. CASE p = Ucos
    BY <1>3 DEF Ucos, Unbounded
  <1>4. CASE p = RtThread
    BY <1>4 DEF RtThread, Unbounded
  <1> QED
    BY <1>1, <1>2, <1>3, <1>4 DEF Ports

(* The Windows object: its signal answers a set that was made since the    *)
(* last wait or reset, and every signal that was set is there or was taken.*)
Answers == port = Windows =>
    /\ count > 0 => fresh
    /\ taken + count = given

(* The fields of the Windows object that this rests on.                    *)
LEMMA WindowsFields == Windows.init = 0 /\ Windows.reset = "take"
  BY DEF Windows

(* A new object has the count of its port and nobody waits for it.         *)
LEMMA EventInit == EvInit => EvTypeOK /\ Answers
  <1> SUFFICES ASSUME EvInit PROVE EvTypeOK /\ Answers
    OBVIOUS
  <1>1. port \in Ports
    BY PortAssumption DEF EvInit
  <1>2. count \in Nat /\ (port.max # Unbounded => count <= port.max)
    BY <1>1, PortFields DEF EvInit
  <1>3. owed \subseteq {w \in Waiters : Suspended(w)} /\ fresh \in BOOLEAN
    BY DEF EvInit
  <1>4. EvTypeOK
    BY <1>2, <1>3, BoundAssumption DEF EvInit, EvTypeOK
  <1>5. Answers
    BY WindowsFields DEF EvInit, Answers
  <1> QED
    BY <1>4, <1>5

(* Every step keeps the types.                                             *)
LEMMA EventStep == EvTypeOK /\ [EvNext]_evVars => EvTypeOK'
  <1> SUFFICES ASSUME EvTypeOK, [EvNext]_evVars PROVE EvTypeOK'
    OBVIOUS
  <1> USE DEF EvTypeOK, Suspended
  <1>1. port \in Ports
    BY PortAssumption
  <1>2. CASE Set
    <2>1. calls' \in 0 .. MaxSets /\ fresh' \in BOOLEAN /\ UNCHANGED <<port, pc, ret, taken>>
      BY <1>2, BoundAssumption DEF Set, Count1
    <2>2. CASE CanSet(port, count)
      <3>1. count' = count + 1 /\ given' = given + 1 /\ owed' = {w \in Waiters : Suspended(w)}
        BY <1>2, <2>2, Zenon DEF Set
      <3>2. count' \in Nat /\ (port'.max # Unbounded => count' <= port'.max)
        BY <1>1, <2>1, <2>2, <3>1, PortFields DEF CanSet
      <3> QED
        BY <2>1, <3>1, <3>2
    <2>3. CASE ~CanSet(port, count)
      <3>1. UNCHANGED <<count, given, owed>>
        BY <1>2, <2>3, Zenon DEF Set
      <3> QED
        BY <2>1, <3>1
    <2> QED
      BY <2>2, <2>3
  <1>3. ASSUME NEW w \in Waiters, WaitCall(w)
        PROVE  EvTypeOK'
    BY <1>3 DEF WaitCall, history
  <1>4. ASSUME NEW w \in Waiters, WaitTake(w)
        PROVE  EvTypeOK'
    <2>1. /\ count' \in Nat /\ taken' \in Nat
          /\ port'.max # Unbounded => count' <= port'.max
      BY <1>1, <1>4, PortFields DEF WaitTake, CanTake
    <2>2. fresh' \in BOOLEAN
      BY <1>4, Zenon DEF WaitTake
    <2> QED
      BY <1>4, <2>1, <2>2 DEF WaitTake, Return
  <1>5. ASSUME NEW w \in Waiters, WaitTimeout(w) \/ WaitRefused(w)
        PROVE  EvTypeOK'
    <2>1. PICK r \in {"TIMEOUT", "OPERATION_FAILED", "FAILURE"} : Return(w, r)
      BY <1>1, <1>5, PortFields DEF WaitTimeout, WaitRefused
    <2>2. UNCHANGED <<port, count, given, taken, fresh, calls>>
      BY <1>5 DEF WaitTimeout, WaitRefused
    <2> QED
      BY <2>1, <2>2 DEF Return
  <1>6. CASE ResetTake
    <2>0. fresh' \in BOOLEAN
      BY <1>6, Zenon DEF ResetTake
    <2>1. calls' \in 0 .. MaxSets /\ fresh' \in BOOLEAN /\ UNCHANGED <<port, pc, ret, given, owed>>
      BY <1>6, <2>0, BoundAssumption DEF ResetTake, Count1
    <2>2. CASE CanTake(port, count)
      BY <1>1, <1>6, <2>1, <2>2, PortFields DEF ResetTake, CanTake
    <2>3. CASE ~CanTake(port, count)
      BY <1>6, <2>1, <2>3 DEF ResetTake
    <2> QED
      BY <2>2, <2>3
  <1>7. CASE ResetRestart
    <2>0. fresh' \in BOOLEAN
      BY <1>7, Zenon DEF ResetRestart
    <2>1. calls' \in 0 .. MaxSets /\ fresh' \in BOOLEAN /\ UNCHANGED <<port, given, taken>>
      BY <1>7, <2>0, BoundAssumption DEF ResetRestart, Count1
    <2>2. port.max = Unbounded /\ count' \in Nat /\ owed' = {}
      BY <1>1, <1>7, PortFields DEF ResetRestart, RestartValue
    <2>3. /\ pc' \in [Waiters -> {"idle", "forever", "finite"}]
          /\ ret' \in [Waiters -> {"none", "OK", "TIMEOUT", "FAILURE", "OPERATION_FAILED"}]
      BY <1>7 DEF ResetRestart
    <2> QED
      BY <2>1, <2>2, <2>3
  <1>8. CASE UNCHANGED evVars
    BY <1>8 DEF evVars, history
  <1> QED
    BY <1>2, <1>3, <1>4, <1>5, <1>6, <1>7, <1>8 DEF EvNext, WaitReturn

(* On Windows only a set makes the signal, and a wait that succeeds and a  *)
(* reset both leave none: the object holds at most one.                    *)
LEMMA AnswersStep == EvTypeOK /\ Answers /\ [EvNext]_evVars => Answers'
  <1> SUFFICES ASSUME EvTypeOK, Answers, [EvNext]_evVars, port' = Windows
               PROVE  (count' > 0 => fresh') /\ taken' + count' = given'
    BY DEF Answers
  <1>1. port' = port
    BY DEF EvNext, WaitReturn, Set, WaitCall, WaitTake, WaitTimeout, WaitRefused, ResetTake,
           ResetRestart, evVars
  <1>2. /\ port = Windows /\ count \in Nat /\ count <= 1 /\ taken \in Nat /\ given \in Nat
        /\ taken + count = given
    BY <1>1 DEF EvTypeOK, Answers, Windows, Unbounded
  <1>3. count > 0 => fresh
    BY <1>2 DEF Answers
  <1>4. CASE Set
    <2>1. fresh' /\ taken' = taken
      BY <1>4, Zenon DEF Set
    <2>2. CASE CanSet(port, count)
      <3>1. count' = count + 1 /\ given' = given + 1
        BY <1>4, <2>2, Zenon DEF Set
      <3> QED
        BY <1>2, <2>1, <3>1
    <2>3. CASE ~CanSet(port, count)
      <3>1. count' = count /\ given' = given
        BY <1>4, <2>3, Zenon DEF Set
      <3> QED
        BY <1>2, <2>1, <3>1
    <2> QED
      BY <2>2, <2>3
  <1>5. ASSUME NEW w \in Waiters, WaitTake(w)
        PROVE  (count' > 0 => fresh') /\ taken' + count' = given'
    <2>1. count' = count - 1 /\ taken' = taken + 1 /\ given' = given
      BY <1>5 DEF WaitTake
    <2> QED
      BY <1>2, <2>1
  <1>6. CASE ResetTake
    <2>1. given' = given
      BY <1>6 DEF ResetTake
    <2>2. CASE CanTake(port, count)
      <3>1. count' = count - 1 /\ taken' = taken + 1
        BY <1>6, <2>2, Zenon DEF ResetTake
      <3> QED
        BY <1>2, <2>1, <3>1
    <2>3. CASE ~CanTake(port, count)
      <3>1. count' = count /\ taken' = taken
        BY <1>6, <2>3, Zenon DEF ResetTake
      <3>2. ~(count > 0)
        BY <1>2, <2>3 DEF CanTake, Windows
      <3> QED
        BY <1>2, <2>1, <3>1, <3>2
    <2> QED
      BY <2>2, <2>3
  <1>7. ~ResetRestart
    BY <1>2, WindowsFields DEF ResetRestart
  <1>8. ASSUME \/ \E w \in Waiters : WaitCall(w) \/ WaitTimeout(w) \/ WaitRefused(w)
               \/ UNCHANGED evVars
        PROVE  (count' > 0 => fresh') /\ taken' + count' = given'
    <2>1. UNCHANGED <<count, given, taken, fresh>>
      BY <1>8 DEF WaitCall, WaitTimeout, WaitRefused, history, evVars
    <2> QED
      BY <1>2, <1>3, <2>1, Zenon
  <1> QED
    BY <1>4, <1>5, <1>6, <1>7, <1>8 DEF EvNext, WaitReturn

(* The types and the signal of the Windows object, always.                 *)
LEMMA EventAlways == EvSpec => [](EvTypeOK /\ Answers)
  BY EventInit, EventStep, AnswersStep, PTL DEF EvSpec

(* The count of every port stays between zero and its maximum, and every   *)
(* call is in one of the states of the waits.                              *)
THEOREM EventTypes == EvSpec => []EvTypeOK
  BY EventAlways, PTL

(* On the Windows port a wait that reports success answers a set that was  *)
(* made after the last wait that succeeded and after the last reset, for   *)
(* any number of waiters: by the count the object is created with, its     *)
(* maximum of one, and a reset that takes the signal.                      *)
THEOREM WindowsWaitsMeanSets == EvSpec => WaitMeansSet
  <1>1. ASSUME EvTypeOK, Answers, EvNext, port = Windows, NEW w \in Waiters,
               Suspended(w), pc'[w] = "idle", ret'[w] = "OK"
        PROVE  fresh
    <2>1. CASE count > 0
      BY <1>1, <2>1 DEF Answers
    <2>2. CASE ~(count > 0)
      <3>1. ~\E v \in Waiters : WaitTake(v)
        BY <2>2 DEF WaitTake, CanTake
      <3>2. pc[w] # "idle"
        BY <1>1 DEF Suspended
      <3>3. CASE Set \/ ResetTake
        BY <1>1, <3>2, <3>3 DEF Set, ResetTake
      <3>4. CASE ResetRestart
        BY <1>1, <3>4, WindowsFields DEF ResetRestart
      <3>5. ASSUME NEW v \in Waiters, WaitCall(v)
            PROVE  FALSE
        BY <1>1, <3>2, <3>5 DEF WaitCall, EvTypeOK
      <3>6. ASSUME NEW v \in Waiters, WaitTimeout(v) \/ WaitRefused(v)
            PROVE  FALSE
        <4>1. PICK r \in {"TIMEOUT", "FAILURE"} : Return(v, r)
          BY <1>1, <3>6 DEF WaitTimeout, WaitRefused, Windows
        <4> QED
          BY <1>1, <3>2, <4>1 DEF Return, EvTypeOK
      <3> QED
        BY <1>1, <3>1, <3>3, <3>4, <3>5, <3>6 DEF EvNext, WaitReturn
    <2> QED
      BY <2>1, <2>2
  <1>2. EvTypeOK /\ Answers /\ [EvNext]_evVars => [WaitsAnswerSets]_evVars
    BY <1>1 DEF WaitsAnswerSets
  <1> QED
    BY <1>2, EventAlways, PTL DEF EvSpec, WaitMeansSet

(* On the Windows port, whose events are created without a signal, the     *)
(* promise of iotk_pal_os.h:105 that other ports break is kept: there are  *)
(* no more waits that succeed than sets that did.                          *)
THEOREM WindowsWaitsNeedSets ==
    ASSUME InUse \subseteq {Windows}
    PROVE  EvSpec => []WaitNeedsSet
  <1>1. ASSUME EvTypeOK, Answers PROVE WaitNeedsSet
    <2>1. port = Windows
      BY <1>1 DEF EvTypeOK
    <2> QED
      BY <1>1, <2>1 DEF EvTypeOK, Answers, WaitNeedsSet
  <1> QED
    BY <1>1, EventAlways, PTL
=============================================================================
