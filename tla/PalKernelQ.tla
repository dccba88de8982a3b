----------------------------- MODULE PalKernelQ -----------------------------
(***************************************************************************)
(* The message queues of the uC/OS and RT-Thread ports: a handle around a  *)
(* queue of the kernel, which copies messages and suspends readers.  Both  *)
(* ports turn a kernel write that does not wait into one that does, and    *)
(* translate the kernel's results.                                         *)
(*                                                                         *)
(* The kernels are external, modelled from the calls the ports make.  The  *)
(* results of RT-Thread's calls are negative, so the comparisons with      *)
(* RT_ETIMEOUT never hold: a full queue and a read that timed out are      *)
(* IOTK_RES_OPERATION_FAILED.  Messages differ in nothing here, and the    *)
(* queue is their number.                                                  *)
(***************************************************************************)
EXTENDS Integers, FiniteSets

CONSTANTS
    KqUsers,        \* threads that write and read
    KqMax,          \* MaxMsgs
    KqForever,      \* IOTK_WAIT_FOREVER, the largest iotk_time_t
    KqTimeouts,     \* milliseconds a write or a read may be given
    KqRates         \* what OS_TICKS_PER_SEC may be

ASSUME KqAssumption ==
    /\ KqMax \in Nat \ {0}
    /\ KqForever \in Nat /\ KqForever > 10
    /\ KqTimeouts \subseteq 0 .. KqForever
    /\ KqRates \subseteq Nat \ {0}

VARIABLES
    kqPort,     \* the port the program is built for, "none" before it creates its queue
    kqAlive,    \* the kernel's queue exists
    kqMsgs,     \* messages in it
    kqDeleted,  \* iotk_msgq_delete returned IOTK_RES_OK
    kqPc,       \* where each thread is in its call
    kqLeft,     \* its Timeout, which a write counts down
    kqAsked,    \* what Timeout was
    kqSlept,    \* ticks its write slept
    kqRet,      \* result of its last call
    kqRate      \* OS_TICKS_PER_SEC

kqQueue == <<kqPort, kqAlive, kqDeleted, kqRate>>
kqClock == <<kqLeft, kqAsked, kqSlept>>
kqVars == <<kqQueue, kqMsgs, kqPc, kqClock, kqRet>>

KqInit ==
    /\ kqPort = "none" /\ kqAlive = FALSE /\ kqDeleted = FALSE
    /\ kqMsgs = 0
    /\ kqPc = [u \in KqUsers |-> "idle"]
    /\ kqLeft = [u \in KqUsers |-> 0]
    /\ kqAsked = [u \in KqUsers |-> 0]
    /\ kqSlept = [u \in KqUsers |-> 0]
    /\ kqRet = [u \in KqUsers |-> "none"]
    /\ kqRate \in KqRates

KqCreate ==                 \* one that fails keeps nothing
    /\ kqPort = "none"
    /\ kqPort' \in {"ucos", "rtthread"}
    /\ kqAlive' = TRUE
    /\ UNCHANGED <<kqDeleted, kqRate, kqMsgs, kqPc, kqClock, kqRet>>

KqCall(u, t) ==             \* a call with the timeout t
    /\ kqAlive /\ ~kqDeleted
    /\ kqPc[u] = "idle"
    /\ kqLeft' = [kqLeft EXCEPT ![u] = t]
    /\ kqAsked' = [kqAsked EXCEPT ![u] = t]
    /\ kqSlept' = [kqSlept EXCEPT ![u] = 0]

KqReturn(u, result) ==
    /\ kqPc' = [kqPc EXCEPT ![u] = "idle"]
    /\ kqRet' = [kqRet EXCEPT ![u] = result]

KqPending == {u \in KqUsers : kqPc[u] \in {"read", "read_forever"}}
-----------------------------------------------------------------------------
(* iotk_msgq_write.                                                        *)

KqWriteCall(u) ==
    /\ \E t \in KqTimeouts : KqCall(u, t)
    /\ kqPc' = [kqPc EXCEPT ![u] = "post"]
    /\ UNCHANGED <<kqQueue, kqMsgs, kqRet>>

(* OSQPost and rt_mq_send.                                                 *)
KqPosted(u) ==
    /\ kqPc[u] = "post"
    /\ kqAlive /\ kqMsgs < KqMax
    /\ kqMsgs' = kqMsgs + 1
    /\ KqReturn(u, "OK")
    /\ UNCHANGED <<kqQueue, kqClock>>

KqPostGone(u) ==            \* the queue was deleted while the writer slept
    /\ kqPc[u] = "post"
    /\ ~kqAlive
    /\ KqReturn(u, "FAILURE")
    /\ UNCHANGED <<kqQueue, kqMsgs, kqClock>>

KqPostFull(u) ==
    /\ kqPc[u] = "post"
    /\ kqAlive /\ kqMsgs = KqMax
    /\ UNCHANGED <<kqQueue, kqMsgs, kqClock>>

KqRtFull(u) ==              \* the retry is not reached
    /\ kqPort = "rtthread"
    /\ KqPostFull(u)
    /\ KqReturn(u, "OPERATION_FAILED")

KqUcosNap(u) ==             \* full, and there is time left
    /\ kqPort = "ucos"
    /\ kqLeft[u] > 0
    /\ KqPostFull(u)
    /\ kqPc' = [kqPc EXCEPT ![u] = "nap"]
    /\ UNCHANGED kqRet

KqUcosTimeout(u) ==
    /\ kqPort = "ucos"
    /\ kqLeft[u] = 0
    /\ KqPostFull(u)
    /\ KqReturn(u, "TIMEOUT")

KqLess(t) == (t - 10) % (KqForever + 1)     \* wrong: unsigned, and not clamped
KqCountDown(t) == IF t = KqForever THEN t ELSE IF t > 10 THEN t - 10 ELSE 0

(* iotk_sleep(10) asks the kernel for whole ticks, at least one.  So many  *)
(* ticks may be less than ten milliseconds, or more.                       *)
KqNap ==
    LET ticks == (10 * kqRate) \div 1000
    IN IF ticks > 0 THEN ticks ELSE 1

KqSleep(u) ==               \* waiting for ever is not timed
    /\ kqPc[u] = "nap"
    /\ kqPc' = [kqPc EXCEPT ![u] = "post"]
    /\ kqLeft' = [kqLeft EXCEPT ![u] = KqCountDown(@)]
    /\ kqSlept' = [kqSlept EXCEPT ![u] = IF kqLeft[u] = KqForever THEN @ ELSE @ + KqNap]
    /\ UNCHANGED <<kqQueue, kqMsgs, kqAsked, kqRet>>
-----------------------------------------------------------------------------
(* iotk_msgq_read.                                                         *)

(* On uC/OS the timeout is taken into 5 .. 327 ms and made ticks by a      *)
(* division that may leave none, with which OSQPend waits for ever.        *)
KqPendTicks(t) ==
    LET bounded == IF t < 5 THEN 5 ELSE IF t > 327 THEN 327 ELSE t
    IN (kqRate * bounded) \div 1000

KqUntimed(t) ==
    \/ t = KqForever
    \/ kqPort = "ucos" /\ KqPendTicks(t) = 0

KqReadCall(u) ==            \* rt_mq_recv, OSQPend
    /\ \E t \in KqTimeouts \ {0} :
          /\ KqCall(u, t)
          /\ kqPc' = [kqPc EXCEPT ![u] = IF KqUntimed(t) THEN "read_forever" ELSE "read"]
    /\ UNCHANGED <<kqQueue, kqMsgs, kqRet>>

(* The message leaves the queue, but on uC/OS iotk_msgq_read returns what  *)
(* res was initialised to, not what the kernel said.                       *)
KqTake(u) ==
    /\ kqMsgs > 0
    /\ kqMsgs' = kqMsgs - 1
    /\ kqRet' = [kqRet EXCEPT ![u] = IF kqPort = "ucos" THEN "FAILURE" ELSE "OK"]

KqNothing(u) ==
    /\ kqMsgs = 0
    /\ kqRet' = [kqRet EXCEPT ![u] = IF kqPort = "ucos" THEN "FAILURE" ELSE "OPERATION_FAILED"]
    /\ UNCHANGED kqMsgs

KqReadNow(u) ==             \* a read that may not wait: OSQAccept, or rt_mq_recv with 0
    /\ 0 \in KqTimeouts /\ KqCall(u, 0)
    /\ KqTake(u) \/ KqNothing(u)
    /\ UNCHANGED <<kqQueue, kqPc>>

KqReceive(u) ==
    /\ u \in KqPending
    /\ kqPc' = [kqPc EXCEPT ![u] = "idle"]
    /\ KqTake(u)
    /\ UNCHANGED <<kqQueue, kqClock>>

KqReadTimeout(u) ==
    /\ kqPc[u] = "read"
    /\ kqPc' = [kqPc EXCEPT ![u] = "idle"]
    /\ KqNothing(u)
    /\ UNCHANGED <<kqQueue, kqClock>>
-----------------------------------------------------------------------------
(* iotk_msgq_delete.                                                       *)

KqNotWriting == \A u \in KqUsers : kqPc[u] # "post"

(* OSQDel with option 0 refuses while a thread is suspended on the queue;  *)
(* the result is not looked at.  The handle is not freed.                  *)
KqUcosDelete ==
    /\ kqPort = "ucos" /\ ~kqDeleted
    /\ KqNotWriting
    /\ kqAlive' = (KqPending # {})
    /\ kqMsgs' = IF KqPending = {} THEN 0 ELSE kqMsgs
    /\ kqDeleted' = TRUE
    /\ UNCHANGED <<kqPort, kqRate, kqPc, kqClock, kqRet>>

KqRtDelete ==               \* rt_mq_delete resumes suspended readers with an error
    /\ kqPort = "rtthread" /\ ~kqDeleted
    /\ KqNotWriting
    /\ kqAlive' = FALSE
    /\ kqMsgs' = 0
    /\ kqDeleted' = TRUE
    /\ kqPc' = [u \in KqUsers |-> IF u \in KqPending THEN "idle" ELSE kqPc[u]]
    /\ kqRet' = [u \in KqUsers |-> IF u \in KqPending THEN "OPERATION_FAILED" ELSE kqRet[u]]
    /\ UNCHANGED <<kqPort, kqRate, kqClock>>

KqNext ==
    \/ KqCreate
    \/ KqUcosDelete \/ KqRtDelete
    \/ \E u \in KqUsers :
          \/ KqWriteCall(u) \/ KqPosted(u) \/ KqPostGone(u)
          \/ KqRtFull(u) \/ KqUcosNap(u) \/ KqUcosTimeout(u) \/ KqSleep(u)
          \/ KqReadNow(u) \/ KqReadCall(u) \/ KqReceive(u) \/ KqReadTimeout(u)

KqSpec == KqInit /\ [][KqNext]_kqVars
-----------------------------------------------------------------------------
(* Properties.                                                             *)

KqTypeOK ==
    /\ kqPort \in {"none", "ucos", "rtthread"}
    /\ kqAlive \in BOOLEAN /\ kqDeleted \in BOOLEAN
    /\ kqMsgs \in 0 .. KqMax
    /\ kqPc \in [KqUsers -> {"idle", "post", "nap", "read", "read_forever"}]
    /\ kqLeft \in [KqUsers -> 0 .. KqForever]
    /\ kqAsked \in [KqUsers -> KqTimeouts \cup {0}]
    /\ kqSlept \in [KqUsers -> Nat]
    /\ kqRet \in [KqUsers -> {"none", "OK", "TIMEOUT", "FAILURE", "OPERATION_FAILED"}]
    /\ kqRate \in KqRates

KqGaveUp(u) == kqRet[u] = "TIMEOUT" /\ kqPc[u] = "idle"

(* A write to a full queue sleeps in naps that stand for 10 ms each and    *)
(* counts Timeout down without ever passing zero, whatever Timeout is: one *)
(* that gives up slept as many naps as cover Timeout, and not one more,    *)
(* however many ticks a nap is, and one that was to wait for ever does not *)
(* give up.                                                                *)
WaitHonoured == \A u \in KqUsers :
    /\ 10 * kqSlept[u] < (kqAsked[u] + 10) * KqNap
    /\ KqGaveUp(u) => 10 * kqSlept[u] >= kqAsked[u] * KqNap
-----------------------------------------------------------------------------
(* What iotk_pal_os.h says and the uC/OS port does not do.                 *)

(* "All threads suspended waiting for a message from this queue are        *)
(* resumed" by its deletion (iotk_pal_os.h:260).                           *)
DeleteResumesReaders == kqDeleted => KqPending = {}
=============================================================================
