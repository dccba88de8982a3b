----------------------------- MODULE PalLinuxQ -----------------------------
(***************************************************************************)
(* The message queue of the Linux port: a ring under a mutex, the guard,   *)
(* and one semaphore that both a write and a read take a token from.       *)
(*                                                                         *)
(* The semaphore starts with max_msgs tokens and no call posts it.  The    *)
(* deadlines are the value of timespec_delay, which returns none, so a     *)
(* timed call may give up at once.  The member count is written and never  *)
(* read, and is left out.                                                  *)
(***************************************************************************)
EXTENDS Integers, FiniteSets

CONSTANTS
    LxUsers,    \* threads that write and read
    LxMax,      \* max_msgs
    LxNoOne     \* no thread

ASSUME LxAssumption ==
    /\ LxMax \in Nat \ {0}
    /\ LxNoOne \notin LxUsers

VARIABLES
    lxOpen,     \* the handle is that of a queue
    lxSem,      \* tokens in the semaphore
    lxGuard,    \* owner of the guard
    lxPc,       \* where each thread is in its call
    lxRpos, lxWpos,
    lxFilled,   \* slots a writer copied its message to
    lxWrites,   \* history: writes that returned IOTK_RES_OK or will
    lxStolen    \* history: a guard was released by a thread that did not own it

lxRing == <<lxRpos, lxWpos, lxFilled, lxWrites>>
lxVars == <<lxOpen, lxSem, lxGuard, lxPc, lxRing, lxStolen>>

LxSlots == 0 .. LxMax - 1

LxInit ==
    /\ lxOpen = FALSE
    /\ lxSem = 0
    /\ lxGuard = LxNoOne
    /\ lxPc = [u \in LxUsers |-> "idle"]
    /\ lxRpos = 0 /\ lxWpos = 0 /\ lxFilled = {} /\ lxWrites = 0
    /\ lxStolen = FALSE

LxAt(u, l, next) == lxPc[u] = l /\ lxPc' = [lxPc EXCEPT ![u] = next]

(* A create that fails gives back what it took and leaves the handle.      *)
LxCreate ==
    /\ ~lxOpen
    /\ lxOpen' = TRUE
    /\ lxSem' = LxMax
    /\ lxRpos' = 0 /\ lxWpos' = 0 /\ lxFilled' = {} /\ lxWrites' = 0
    /\ lxStolen' = FALSE
    /\ UNCHANGED <<lxGuard, lxPc>>

(* Deleting a queue under the feet of another call frees its memory: the   *)
(* callers must not.                                                       *)
LxDelete ==
    /\ lxOpen
    /\ \A u \in LxUsers : lxPc[u] = "idle"
    /\ lxOpen' = FALSE
    /\ UNCHANGED <<lxSem, lxGuard, lxPc, lxRing, lxStolen>>

LxCall(u) ==
    /\ lxOpen
    /\ LxAt(u, "idle", "w_lock") \/ LxAt(u, "idle", "r_wait")
    /\ UNCHANGED <<lxOpen, lxSem, lxGuard, lxRing, lxStolen>>

LxLock(u) ==
    /\ lxGuard = LxNoOne
    /\ lxGuard' = u

(* sem_timedwait *)
LxToken ==
    /\ lxSem > 0
    /\ lxSem' = lxSem - 1
-----------------------------------------------------------------------------
(* iotk_msgq_write.                                                        *)

LxWriteLockAnyway(u) ==         \* wrong: goes on when the wait for the guard timed out
    /\ LxAt(u, "w_lock", "w_wait")
    /\ IF lxGuard = LxNoOne THEN lxGuard' = u ELSE UNCHANGED lxGuard
    /\ UNCHANGED <<lxOpen, lxSem, lxRing, lxStolen>>

LxWriteLock(u) ==
    /\ \/ LxAt(u, "w_lock", "w_wait") /\ LxLock(u)
       \/ LxAt(u, "w_lock", "w_unlock") /\ lxGuard # LxNoOne /\ UNCHANGED lxGuard
    /\ UNCHANGED <<lxOpen, lxSem, lxRing, lxStolen>>

LxWriteWait(u) ==
    /\ \/ LxAt(u, "w_wait", "w_copy") /\ LxToken
       \/ LxAt(u, "w_wait", "w_unlock") /\ UNCHANGED lxSem
    /\ UNCHANGED <<lxOpen, lxGuard, lxRing, lxStolen>>

LxWriteCopy(u) ==
    /\ LxAt(u, "w_copy", "w_next")
    /\ lxFilled' = lxFilled \cup {lxWpos}
    /\ lxWrites' = lxWrites + 1
    /\ UNCHANGED <<lxOpen, lxSem, lxGuard, lxRpos, lxWpos, lxStolen>>

LxWriteNext(u) ==
    /\ LxAt(u, "w_next", "w_unlock")
    /\ lxWpos' = (lxWpos + 1) % LxMax
    /\ UNCHANGED <<lxOpen, lxSem, lxGuard, lxRpos, lxFilled, lxWrites, lxStolen>>

(* The guard is unlocked also when locking it timed out; the default mutex *)
(* of glibc does not ask who unlocks it.                                   *)
LxWriteUnlock(u) ==
    /\ LxAt(u, "w_unlock", "idle")
    /\ lxGuard' = LxNoOne
    /\ lxStolen' = (lxStolen \/ lxGuard \notin {u, LxNoOne})
    /\ UNCHANGED <<lxOpen, lxSem, lxRing>>
-----------------------------------------------------------------------------
(* iotk_msgq_read.  A wait that fails returns IOTK_RES_FAILURE: its result *)
(* is -1, which is not ETIMEDOUT.                                          *)

LxReadWait(u) ==
    /\ \/ LxAt(u, "r_wait", "r_lock") /\ LxToken
       \/ LxAt(u, "r_wait", "idle") /\ UNCHANGED lxSem
    /\ UNCHANGED <<lxOpen, lxGuard, lxRing, lxStolen>>

LxReadLock(u) ==
    /\ LxAt(u, "r_lock", "r_next")
    /\ LxLock(u)
    /\ UNCHANGED <<lxOpen, lxSem, lxRing, lxStolen>>

LxReadNext(u) ==                \* the copy changes nothing but the caller's buffer
    /\ LxAt(u, "r_next", "r_unlock")
    /\ lxRpos' = (lxRpos + 1) % LxMax
    /\ UNCHANGED <<lxOpen, lxSem, lxGuard, lxWpos, lxFilled, lxWrites, lxStolen>>

LxReadUnlock(u) ==
    /\ LxAt(u, "r_unlock", "idle")
    /\ lxGuard' = LxNoOne
    /\ lxStolen' = (lxStolen \/ lxGuard \notin {u, LxNoOne})
    /\ UNCHANGED <<lxOpen, lxSem, lxRing>>
-----------------------------------------------------------------------------
LxNext ==
    \/ LxCreate \/ LxDelete
    \/ \E u \in LxUsers :
          \/ LxCall(u)
          \/ LxWriteLock(u) \/ LxWriteWait(u) \/ LxWriteCopy(u) \/ LxWriteNext(u)
          \/ LxWriteUnlock(u)
          \/ LxReadWait(u) \/ LxReadLock(u) \/ LxReadNext(u) \/ LxReadUnlock(u)

LxSpec == LxInit /\ [][LxNext]_lxVars
-----------------------------------------------------------------------------
(* Properties.                                                             *)

LxTypeOK ==
    /\ lxOpen \in BOOLEAN
    /\ lxSem \in 0 .. LxMax
    /\ lxGuard \in LxUsers \cup {LxNoOne}
    /\ lxPc \in [LxUsers -> {"idle", "w_lock", "w_wait", "w_copy", "w_next", "w_unlock",
                             "r_wait", "r_lock", "r_next", "r_unlock"}]
    /\ lxRpos \in LxSlots /\ lxWpos \in LxSlots
    /\ lxFilled \subseteq LxSlots
    /\ lxWrites \in Nat
    /\ lxStolen \in BOOLEAN

(* Writers do not ask whether a slot is free: what keeps a message from    *)
(* being written over is that the tokens run out when as many calls as     *)
(* there are slots have succeeded, and that the guard keeps two writers    *)
(* apart.  Each message keeps a slot of its own, unless a writer whose     *)
(* wait for the guard timed out unlocked it under another thread.          *)
WritesKept == lxStolen \/ Cardinality(lxFilled) = lxWrites
=============================================================================
