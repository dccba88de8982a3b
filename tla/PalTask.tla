------------------------------ MODULE PalTask ------------------------------
(***************************************************************************)
(* Tasks and locks of the platform layer.  A task is a thread of the       *)
(* kernel that runs the entry it was created with and then frees its       *)
(* parameters; a lock is a recursive mutex of the kernel, on the Windows   *)
(* and the RT-Thread port (the Linux port has tasks and no locks, uC/OS    *)
(* has neither).  RT-Thread has no iotk_task functions: its threads are    *)
(* the board's and have no parameters here.                                *)
(***************************************************************************)
EXTENDS Integers, FiniteSets

CONSTANTS
    TkTasks,        \* tasks a program may create
    TkMaxDepth,     \* bound: how deep a task nests the lock
    TkMaxLeaks,     \* bound: creations that fail
    TkNoOne         \* no task

ASSUME TkAssumption ==
    /\ TkMaxDepth \in Nat \ {0}
    /\ TkMaxLeaks \in Nat
    /\ TkNoOne \notin TkTasks

VARIABLES
    tkPort,         \* the port, "none" before the program starts
    tkState,        \* each task: "none", "ready", "waits" (finite), "waits_forever", "ended"
    tkParams,       \* parameter blocks allocated
    tkLeaked,       \* of those, the ones no wrapper will free
    lkOpen,         \* the lock exists
    lkOwner, lkDepth,
    lkAbandoned,    \* its owner ended and no one has waited for it since
    lkHeld,         \* acquires that were told IOTK_RES_OK, less releases that were
    lkSilent        \* history: tasks that own the lock without having been told

tkTask == <<tkState, tkParams, tkLeaked>>
lkLock == <<lkOpen, lkOwner, lkDepth, lkAbandoned>>
tkVars == <<tkPort, tkTask, lkLock, lkHeld, lkSilent>>

TkInit ==
    /\ tkPort = "none"
    /\ tkState = [t \in TkTasks |-> "none"]
    /\ tkParams = 0 /\ tkLeaked = 0
    /\ lkOpen = FALSE
    /\ lkOwner = TkNoOne /\ lkDepth = 0 /\ lkAbandoned = FALSE
    /\ lkHeld = [t \in TkTasks |-> 0]
    /\ lkSilent = {}

Start ==
    /\ tkPort = "none"
    /\ tkPort' \in {"windows", "linux", "rtthread"}
    /\ UNCHANGED <<tkTask, lkLock, lkHeld, lkSilent>>
-----------------------------------------------------------------------------
(* Tasks.                                                                  *)

HasParams == tkPort \in {"windows", "linux"}

TaskCreate(t) ==
    /\ tkPort # "none"
    /\ tkState[t] = "none"
    /\ tkState' = [tkState EXCEPT ![t] = "ready"]
    /\ tkParams' = IF HasParams THEN tkParams + 1 ELSE tkParams
    /\ UNCHANGED <<tkPort, tkLeaked, lkLock, lkHeld, lkSilent>>

TaskCreateFails ==              \* no thread: the parameters are not freed
    /\ HasParams
    /\ tkLeaked < TkMaxLeaks
    /\ tkParams' = tkParams + 1
    /\ tkLeaked' = tkLeaked + 1
    /\ UNCHANGED <<tkPort, tkState, lkLock, lkHeld, lkSilent>>

(* iotk_task_delete ends no task: Windows' passes the address of the       *)
(* handle for the handle, Linux' is empty.  So a task ends when its entry  *)
(* returns, and then its wrapper frees the parameters.  Windows marks a    *)
(* mutex whose owner ended; RT-Thread's keeps its owner.                   *)
TaskEnd(t) ==
    /\ tkState[t] = "ready"
    /\ tkState' = [tkState EXCEPT ![t] = "ended"]
    /\ tkParams' = IF HasParams THEN tkParams - 1 ELSE tkParams
    /\ IF lkOwner = t /\ tkPort = "windows"
         THEN /\ lkOwner' = TkNoOne /\ lkDepth' = 0 /\ lkAbandoned' = TRUE
              /\ lkHeld' = [lkHeld EXCEPT ![t] = 0]
              /\ lkSilent' = lkSilent \ {t}
         ELSE UNCHANGED <<lkOwner, lkDepth, lkAbandoned, lkHeld, lkSilent>>
    /\ UNCHANGED <<tkPort, tkLeaked, lkOpen>>
-----------------------------------------------------------------------------
(* Locks.                                                                  *)

HasLocks == tkPort \in {"windows", "rtthread"}

Waiting(t) == tkState[t] \in {"waits", "waits_forever"}

LockCreate ==
    /\ HasLocks /\ ~lkOpen
    /\ lkOpen' = TRUE
    /\ lkOwner' = TkNoOne /\ lkDepth' = 0 /\ lkAbandoned' = FALSE
    /\ UNCHANGED <<tkPort, tkTask, lkHeld, lkSilent>>

LockDelete ==                   \* of a lock no one uses
    /\ lkOpen
    /\ lkOwner = TkNoOne
    /\ \A t \in TkTasks : ~Waiting(t)
    /\ lkOpen' = FALSE
    /\ UNCHANGED <<tkPort, tkTask, lkOwner, lkDepth, lkAbandoned, lkHeld, lkSilent>>

AcquireCall(t) ==
    /\ lkOpen
    /\ tkState[t] = "ready"
    /\ lkOwner = t => lkDepth < TkMaxDepth
    /\ \E w \in {"waits", "waits_forever"} : tkState' = [tkState EXCEPT ![t] = w]
    /\ UNCHANGED <<tkPort, tkParams, tkLeaked, lkLock, lkHeld, lkSilent>>

Resume(t) == tkState' = [tkState EXCEPT ![t] = "ready"]

Owned(t) == lkOwner' = t /\ lkDepth' = lkDepth + 1

AcquireOk(t) ==
    /\ Waiting(t)
    /\ lkOwner \in {t, TkNoOne} /\ ~lkAbandoned
    /\ Resume(t) /\ Owned(t)
    /\ lkHeld' = [lkHeld EXCEPT ![t] = @ + 1]
    /\ UNCHANGED <<tkPort, tkParams, tkLeaked, lkOpen, lkAbandoned, lkSilent>>

(* WAIT_ABANDONED: the caller owns the mutex and is told                   *)
(* IOTK_RES_OPERATION_FAILED.                                              *)
AcquireAbandoned(t) ==
    /\ Waiting(t)
    /\ lkAbandoned
    /\ Resume(t) /\ Owned(t)
    /\ lkAbandoned' = FALSE
    /\ lkSilent' = lkSilent \cup {t}
    /\ UNCHANGED <<tkPort, tkParams, tkLeaked, lkOpen, lkHeld>>

AcquireTimeoutIsOk(t) ==        \* wrong: looks only for WAIT_FAILED
    /\ tkState[t] = "waits"
    /\ lkOwner \notin {t, TkNoOne}
    /\ Resume(t)
    /\ lkHeld' = [lkHeld EXCEPT ![t] = 1]
    /\ UNCHANGED <<tkPort, tkParams, tkLeaked, lkLock, lkSilent>>

AcquireTimeout(t) ==            \* both ports return IOTK_RES_OPERATION_FAILED
    /\ tkState[t] = "waits"
    /\ lkOwner \notin {t, TkNoOne}
    /\ Resume(t)
    /\ UNCHANGED <<tkPort, tkParams, tkLeaked, lkLock, lkHeld, lkSilent>>

(* Of the owner only; the kernel refuses it to others, and nothing         *)
(* changes.                                                                *)
Release(t) ==
    /\ lkOpen
    /\ tkState[t] = "ready"
    /\ lkOwner = t
    /\ lkDepth' = lkDepth - 1
    /\ lkOwner' = IF lkDepth = 1 THEN TkNoOne ELSE t
    /\ IF lkHeld[t] > 0
         THEN lkHeld' = [lkHeld EXCEPT ![t] = @ - 1] /\ UNCHANGED lkSilent
         ELSE lkSilent' = lkSilent \ {t} /\ UNCHANGED lkHeld
    /\ UNCHANGED <<tkPort, tkTask, lkOpen, lkAbandoned>>

TkNext ==
    \/ Start \/ TaskCreateFails \/ LockCreate \/ LockDelete
    \/ \E t \in TkTasks :
          \/ TaskCreate(t) \/ TaskEnd(t)
          \/ AcquireCall(t) \/ AcquireOk(t) \/ AcquireAbandoned(t) \/ AcquireTimeout(t)
          \/ Release(t)

TkSpec == TkInit /\ [][TkNext]_tkVars
-----------------------------------------------------------------------------
(* Properties.                                                             *)

TkTypeOK ==
    /\ tkPort \in {"none", "windows", "linux", "rtthread"}
    /\ tkState \in [TkTasks -> {"none", "ready", "waits", "waits_forever", "ended"}]
    /\ tkParams \in Nat /\ tkLeaked \in 0 .. TkMaxLeaks
    /\ lkOpen \in BOOLEAN
    /\ lkOwner \in TkTasks \cup {TkNoOne} /\ lkDepth \in 0 .. TkMaxDepth
    /\ lkAbandoned \in BOOLEAN
    /\ lkHeld \in [TkTasks -> 0 .. TkMaxDepth]
    /\ lkSilent \subseteq TkTasks

(* What a task was told is what is true: it owns the lock as often as its  *)
(* acquires returned IOTK_RES_OK and its releases did not take back.  The  *)
(* exception is Windows' abandoned mutex, which the next task to wait gets *)
(* once more than it was told, and will keep from all others.              *)
AcquireIsTrue ==
    /\ \A t \in TkTasks :
          IF lkOwner = t THEN lkDepth = lkHeld[t] + (IF t \in lkSilent THEN 1 ELSE 0)
                         ELSE lkHeld[t] = 0 /\ t \notin lkSilent
    /\ lkSilent # {} => tkPort = "windows"
=============================================================================
