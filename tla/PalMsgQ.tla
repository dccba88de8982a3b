------------------------------- MODULE PalMsgQ -------------------------------
(***************************************************************************)
(* The message queue of iotk_pal/src/iotk_os_windows.c: a ring of MaxMsgs  *)
(* slots protected by a mutex (guard), and a counting semaphore (queue,    *)
(* here sem) that readers wait on.  A writer posts the semaphore and fills *)
(* the slot inside one critical section; a reader takes its token BEFORE   *)
(* it enters the critical section, so between the two another thread runs. *)
(***************************************************************************)
EXTENDS Integers, FiniteSets, Sequences

CONSTANTS
    Writers, Readers,   \* the threads that call iotk_msgq_write / _read
    MaxMsgs,            \* the queue's size, a parameter of iotk_msgq_create
    Quota,              \* bound: write calls made in all
    Timeouts,           \* the timeouts a reader may pass
    CanDelete,          \* may the owner call iotk_msgq_delete
    NoOne               \* the guard has no owner

ASSUME SizeAssumption == MaxMsgs \in Nat \ {0} /\ Quota \in Nat
ASSUME ThreadAssumption ==
    /\ IsFiniteSet(Writers) /\ IsFiniteSet(Readers)
    /\ Writers \cap Readers = {}
    /\ NoOne \notin Writers \cup Readers
ASSUME ModeAssumption ==
    /\ Timeouts \subseteq {"forever", "finite"}
    /\ CanDelete \in BOOLEAN

Threads == Writers \cup Readers
Slots == 0 .. MaxMsgs - 1
Messages == 1 .. Quota          \* the n-th write call carries message n
Zero == 0                       \* a slot as memset left it

VARIABLES
    alive,      \* the queue has not been deleted
    guard,      \* owner of the mutex
    sem,        \* count of the semaphore
    rpos, wpos, \* next slot to read, to write
    count,      \* OSI_MSGQ.count
    slots,      \* the ring
    pc,         \* where each thread is
    msg,        \* writer: the message to send; reader: the one received
    wait,       \* the timeout of the reader's current call
    ret,        \* result of each thread's last call
    calls       \* write calls made so far

vars == <<alive, guard, sem, rpos, wpos, count, slots, pc, msg, wait, ret, calls>>
ring == <<rpos, wpos, count, slots>>

Init ==
    /\ alive = TRUE
    /\ guard = NoOne
    /\ sem = 0
    /\ rpos = 0 /\ wpos = 0 /\ count = 0
    /\ slots = [i \in Slots |-> Zero]
    /\ pc = [t \in Threads |-> "idle"]
    /\ msg = [t \in Threads |-> Zero]
    /\ wait = [r \in Readers |-> "forever"]
    /\ ret = [t \in Threads |-> "none"]
    /\ calls = 0

Goto(t, l) == pc' = [pc EXCEPT ![t] = l]

(* The operators marked "wrong" are no part of the specification: each is  *)
(* a plausible mistake in the operator that follows it, there to see that  *)
(* a property notices.                                                     *)

LockIgnoringGuard(t, from, to) ==       \* wrong: the wait's result is not tested
    /\ pc[t] = from
    /\ guard' = t
    /\ Goto(t, to)
    /\ UNCHANGED <<alive, sem, ring, msg, wait, ret, calls>>

LockTry(t, from, to) ==                 \* wrong: gives up when the guard is taken
    /\ pc[t] = from
    /\ IF guard = NoOne
         THEN guard' = t /\ Goto(t, to) /\ UNCHANGED ret
         ELSE Goto(t, "idle") /\ ret' = [ret EXCEPT ![t] = "FAILURE"] /\ UNCHANGED guard
    /\ UNCHANGED <<alive, sem, ring, msg, wait, calls>>

Lock(t, from, to) ==            \* WaitForSingleObject(q->guard, INFINITE)
    /\ pc[t] = from
    /\ guard = NoOne
    /\ guard' = t
    /\ Goto(t, to)
    /\ UNCHANGED <<alive, sem, ring, msg, wait, ret, calls>>

Unlock(t, from, result) ==      \* ReleaseMutex(q->guard); return result
    /\ pc[t] = from
    /\ guard' = NoOne
    /\ Goto(t, "idle")
    /\ ret' = [ret EXCEPT ![t] = result]
    /\ UNCHANGED <<alive, sem, ring, msg, wait, calls>>

Next1NoWrap(i) == i + 1                 \* wrong
Next1OneTooFar(i) == (i + 1) % (MaxMsgs + 1)        \* wrong: > for >=

Next1(i) == (i + 1) % MaxMsgs
-----------------------------------------------------------------------------
(* iotk_msgq_write.  The Timeout parameter is not read.                    *)

WriteCall(w) ==
    /\ alive
    /\ pc[w] = "idle"
    /\ calls < Quota
    /\ calls' = calls + 1
    /\ msg' = [msg EXCEPT ![w] = calls + 1]
    /\ Goto(w, "wlock")
    /\ UNCHANGED <<alive, guard, sem, ring, wait, ret>>

WriteLock(w) == Lock(w, "wlock", "wpost")

WritePostUnbounded(w) ==        \* wrong: the semaphore has no maximum
    /\ pc[w] = "wpost"
    /\ sem' = sem + 1
    /\ Goto(w, "wstore")
    /\ UNCHANGED <<alive, guard, ring, msg, wait, ret, calls>>

WritePostLost(w) ==             \* wrong: no one is told of the message
    /\ pc[w] = "wpost"
    /\ Goto(w, "wstore")
    /\ UNCHANGED <<alive, guard, sem, ring, msg, wait, ret, calls>>

WritePost(w) ==                 \* ReleaseSemaphore succeeds
    /\ pc[w] = "wpost"
    /\ sem < MaxMsgs
    /\ sem' = sem + 1
    /\ Goto(w, "wstore")
    /\ UNCHANGED <<alive, guard, ring, msg, wait, ret, calls>>

WriteFullStores(w) ==           \* wrong: stores without a token
    /\ pc[w] = "wpost"
    /\ sem >= MaxMsgs
    /\ Goto(w, "wstore")
    /\ UNCHANGED <<alive, guard, sem, ring, msg, wait, ret, calls>>

WriteFull(w) ==                 \* ReleaseSemaphore fails: the count is at its maximum
    /\ pc[w] = "wpost"
    /\ sem >= MaxMsgs
    /\ Goto(w, "wfail")
    /\ UNCHANGED <<alive, guard, sem, ring, msg, wait, ret, calls>>

WriteStore(w) ==
    /\ pc[w] = "wstore"
    /\ slots' = [slots EXCEPT ![wpos] = msg[w]]
    /\ wpos' = Next1(wpos)
    /\ count' = count + 1
    /\ Goto(w, "wdone")
    /\ UNCHANGED <<alive, guard, sem, rpos, msg, wait, ret, calls>>

WriteReturnKeepsGuard(w) ==     \* wrong: only the failure path has its ReleaseMutex
    \/ /\ pc[w] = "wdone"
       /\ Goto(w, "idle")
       /\ ret' = [ret EXCEPT ![w] = "OK"]
       /\ UNCHANGED <<alive, guard, sem, ring, msg, wait, calls>>
    \/ Unlock(w, "wfail", "FAILURE")

WriteReturn(w) ==
    \/ Unlock(w, "wdone", "OK")
    \/ Unlock(w, "wfail", "FAILURE")
-----------------------------------------------------------------------------
(* iotk_msgq_read.                                                         *)

ReadCall(r) ==
    /\ alive
    /\ pc[r] = "idle"
    /\ wait' \in {[wait EXCEPT ![r] = t] : t \in Timeouts}
    /\ Goto(r, "rwait")
    /\ UNCHANGED <<alive, guard, sem, ring, msg, ret, calls>>

ReadTake(r) ==                  \* WaitForSingleObject(q->queue, Timeout) is signalled
    /\ alive
    /\ pc[r] = "rwait"
    /\ sem > 0
    /\ sem' = sem - 1
    /\ Goto(r, "rlock")
    /\ UNCHANGED <<alive, guard, ring, msg, wait, ret, calls>>

ReadTimeout(r) ==
    /\ pc[r] = "rwait"
    /\ wait[r] = "finite"
    /\ sem = 0
    /\ Goto(r, "idle")
    /\ ret' = [ret EXCEPT ![r] = "TIMEOUT"]
    /\ UNCHANGED <<alive, guard, sem, ring, msg, wait, calls>>

ReadLock(r) == Lock(r, "rlock", "rcopy")

ReadCopyAdvanced(r) ==          \* wrong: advances the position first
    /\ pc[r] = "rcopy"
    /\ msg' = [msg EXCEPT ![r] = slots[Next1(rpos)]]
    /\ rpos' = Next1(rpos)
    /\ count' = count - 1
    /\ Goto(r, "rdone")
    /\ UNCHANGED <<alive, guard, sem, wpos, slots, wait, ret, calls>>

ReadCopy(r) ==
    /\ pc[r] = "rcopy"
    /\ msg' = [msg EXCEPT ![r] = slots[rpos]]
    /\ rpos' = Next1(rpos)
    /\ count' = count - 1
    /\ Goto(r, "rdone")
    /\ UNCHANGED <<alive, guard, sem, wpos, slots, wait, ret, calls>>

ReadReturn(r) == Unlock(r, "rdone", "OK")
-----------------------------------------------------------------------------
(* iotk_msgq_delete closes both handles and frees the queue: it wakes no   *)
(* one.  A client may call it only when no other call is under way except  *)
(* readers suspended on the empty queue, the case the header describes;    *)
(* any other caller would use freed memory.                                *)

Suspended(r) == pc[r] = "rwait" /\ sem = 0

Delete ==
    /\ CanDelete
    /\ alive
    /\ \A t \in Threads : pc[t] = "idle" \/ (t \in Readers /\ Suspended(t))
    /\ alive' = FALSE
    /\ UNCHANGED <<guard, sem, ring, pc, msg, wait, ret, calls>>

WriteStep(w) ==
    WriteLock(w) \/ WritePost(w) \/ WriteFull(w) \/ WriteStore(w) \/ WriteReturn(w)

ReadStep(r) ==
    ReadTake(r) \/ ReadTimeout(r) \/ ReadLock(r) \/ ReadCopy(r) \/ ReadReturn(r)

Next ==
    \/ \E w \in Writers : WriteCall(w) \/ WriteStep(w)
    \/ \E r \in Readers : ReadCall(r) \/ ReadStep(r)
    \/ Delete

(* Threads inside a call run on; the kernel hands a free mutex or a token  *)
(* to each waiter in turn (SF); a reader calls again, as iotk_run's loop   *)
(* in main.c does.                                                         *)
Fairness ==
    /\ \A w \in Writers : SF_vars(WriteStep(w))
    /\ \A r \in Readers : SF_vars(ReadStep(r)) /\ WF_vars(ReadCall(r))

Spec == Init /\ [][Next]_vars /\ Fairness
-----------------------------------------------------------------------------
(* Properties.                                                             *)

InCall(t) == pc[t] # "idle"
HoldsToken == {r \in Readers : pc[r] \in {"rlock", "rcopy"}}
Posted == {w \in Writers : pc[w] = "wstore"}    \* token given, slot not yet filled
InSection == {t \in Threads :
    pc[t] \in {"wpost", "wstore", "wdone", "wfail", "rcopy", "rdone"}}

Pcs(t) == IF t \in Writers
            THEN {"idle", "wlock", "wpost", "wstore", "wdone", "wfail"}
            ELSE {"idle", "rwait", "rlock", "rcopy", "rdone"}

(* Types: positions stay inside the ring, the semaphore inside its         *)
(* maximum, and every thread is at a line of its own call.                 *)
TypeOK ==
    /\ alive \in BOOLEAN
    /\ guard \in Threads \cup {NoOne}
    /\ sem \in 0 .. MaxMsgs
    /\ rpos \in Slots /\ wpos \in Slots
    /\ count \in Nat
    /\ slots \in [Slots -> Messages \cup {Zero}]
    /\ pc \in [Threads -> {"idle", "wlock", "wpost", "wstore", "wdone", "wfail",
                           "rwait", "rlock", "rcopy", "rdone"}]
    /\ \A t \in Threads : pc[t] \in Pcs(t)
    /\ msg \in [Threads -> Messages \cup {Zero}]
    /\ wait \in [Readers -> {"forever", "finite"}]
    /\ ret \in [Threads -> {"none", "OK", "FAILURE", "TIMEOUT"}]
    /\ calls \in 0 .. Quota

(* The mutex works: whoever is between WaitForSingleObject(guard) and      *)
(* ReleaseMutex in either function is its owner, so at most one thread is. *)
GuardExclusion == \A t \in Threads : t \in InSection <=> guard = t

(* The count field and the semaphore, which two functions change at four   *)
(* different places, always agree up to the calls under way: a token taken *)
(* by a reader that has not copied yet still counts in count, a token      *)
(* posted by the writer that has not stored yet does not.                  *)
TokenAccounting ==
    count + Cardinality(Posted) = sem + Cardinality(HoldsToken)

(* wpos is always count places after rpos, also after the ring overran.    *)
RingGeometry == wpos = (rpos + count) % MaxMsgs

(* The most the count field can exceed the size the queue was created      *)
(* with: one message for each reader caught between token and guard.       *)
OverrunBound == count <= MaxMsgs + Cardinality(HoldsToken)

(* The unread messages, oldest first, as the ring stores them.             *)
Box == [i \in 1 .. count |-> slots[(rpos + i - 1) % MaxMsgs]]

Lossy == INSTANCE MsgQueue WITH
    Capacity <- MaxMsgs, Slack <- Cardinality(Readers), Messages <- Messages,
    Takers <- Readers, Nothing <- Zero,
    box <- Box, got <- [r \in Readers |-> msg[r]]

(* The queue implements the bounded box of MsgQueue, one atomic step for a *)
(* store and one for a copy, except that the box may take one message per  *)
(* reader too many, each one destroying the unread message of its slot.    *)
ImplementsLossyBox == Lossy!Spec

(* A call that was made returns, even on a full queue: a writer never      *)
(* waits for space and no one waits for a token while holding the guard.   *)
WritesReturn == \A w \in Writers : InCall(w) ~> ~InCall(w)

(* Every message that is in the queue leaves it.                           *)
EveryMessageLeaves == \A m \in Messages :
    (\E i \in 1 .. count : Box[i] = m) ~> (~alive \/ \A i \in 1 .. count : Box[i] # m)

(* A reader that has a token always comes back with a message.             *)
TokenYieldsMessage == \A r \in Readers :
    (r \in HoldsToken) ~> (pc[r] = "idle" /\ ret[r] = "OK")
-----------------------------------------------------------------------------
(* What iotk_pal_os.h says and the code does not do.                       *)

(* iotk_pal_os.h:246, MaxMsgs is the maximum number of messages.           *)
AtMostMaxMsgs == count <= MaxMsgs
=============================================================================
