------------------------------ MODULE PalEvent ------------------------------
(***************************************************************************)
(* One synchronisation object of the platform layer, used by any number of *)
(* threads, on one of the ports.                                           *)
(***************************************************************************)
EXTENDS PalEventOps

CONSTANTS
    InUse,      \* the ports looked at
    Waiters,    \* threads that wait
    MaxSets     \* bound: calls of iotk_event_set and iotk_event_reset

ASSUME PortAssumption == InUse \subseteq Ports
ASSUME BoundAssumption == MaxSets \in Nat

VARIABLES
    port,       \* the port the program is built for
    count,      \* the semaphore
    pc,         \* each waiter is "idle" or suspended: "forever", "finite"
    ret,        \* result of its last wait
    given, taken,
                \* history: sets that succeeded, tokens consumed by waits and resets
    fresh,      \* history: iotk_event_set was called after the object was created,
                \* last waited for with success, and last reset
    owed,       \* history: waiters suspended at a set that succeeded, and still
    calls

history == <<given, taken, fresh, owed>>
evVars == <<port, count, pc, ret, history, calls>>

EvInit ==
    /\ port \in InUse
    /\ count = port.init
    /\ pc = [w \in Waiters |-> "idle"]
    /\ ret = [w \in Waiters |-> "none"]
    /\ given = 0 /\ taken = 0
    /\ fresh = FALSE
    /\ owed = {}
    /\ calls = 0

Suspended(w) == pc[w] # "idle"

Return(w, result) ==
    /\ pc' = [pc EXCEPT ![w] = "idle"]
    /\ ret' = [ret EXCEPT ![w] = result]
    /\ owed' = owed \ {w}

Count1 ==
    /\ calls < MaxSets
    /\ calls' = calls + 1

Set ==                      \* a set that fails changes nothing
    /\ Count1
    /\ fresh' = TRUE
    /\ IF CanSet(port, count)
         THEN /\ count' = count + 1
              /\ given' = given + 1
              /\ owed' = {w \in Waiters : Suspended(w)}
         ELSE UNCHANGED <<count, given, owed>>
    /\ UNCHANGED <<port, pc, ret, taken>>

WaitCall(w) ==
    /\ pc[w] = "idle"
    /\ \E t \in {"forever", "finite"} : pc' = [pc EXCEPT ![w] = t]
    /\ UNCHANGED <<port, count, ret, history, calls>>

WaitTake(w) ==
    /\ Suspended(w)
    /\ CanTake(port, count)
    /\ count' = count - 1
    /\ taken' = taken + 1
    /\ fresh' = FALSE
    /\ Return(w, "OK")
    /\ UNCHANGED <<port, given, calls>>

WaitTimeout(w) ==
    /\ Suspended(w)
    /\ port.forever => pc[w] = "finite"
    /\ port.typed /\ count = 0
    /\ Return(w, port.late)
    /\ UNCHANGED <<port, count, given, taken, fresh, calls>>

WaitRefused(w) ==
    /\ Suspended(w)
    /\ ~port.typed
    /\ Return(w, "FAILURE")
    /\ UNCHANGED <<port, count, given, taken, fresh, calls>>

ResetTake ==
    /\ port.reset = "take"
    /\ Count1
    /\ IF CanTake(port, count)
         THEN count' = count - 1 /\ taken' = taken + 1
         ELSE UNCHANGED <<count, taken>>
    /\ fresh' = FALSE
    /\ UNCHANGED <<port, pc, ret, given, owed>>

ResetRestart ==             \* rt_sem_control(RT_IPC_CMD_RESET)
    /\ port.reset = "restart"
    /\ Count1
    /\ count' = RestartValue
    /\ fresh' = FALSE
    /\ owed' = {}
    /\ pc' = [w \in Waiters |-> "idle"]
    /\ ret' = [w \in Waiters |-> IF Suspended(w) THEN "OPERATION_FAILED" ELSE ret[w]]
    /\ UNCHANGED <<port, given, taken>>

WaitReturn(w) == WaitTake(w) \/ WaitTimeout(w) \/ WaitRefused(w)

EvNext ==
    \/ Set
    \/ \E w \in Waiters : WaitCall(w) \/ WaitReturn(w)
    \/ ResetTake \/ ResetRestart

(* The kernel resumes a suspended thread that can be resumed.              *)
EvFairness == \A w \in Waiters : SF_evVars(WaitReturn(w))

EvSpec == EvInit /\ [][EvNext]_evVars /\ EvFairness
-----------------------------------------------------------------------------
(* Properties.                                                             *)

(* Types; the count never exceeds the maximum the port created it with.    *)
EvTypeOK ==
    /\ port \in InUse
    /\ count \in Nat
    /\ port.max # Unbounded => count <= port.max
    /\ pc \in [Waiters -> {"idle", "forever", "finite"}]
    /\ ret \in [Waiters -> {"none", "OK", "TIMEOUT", "FAILURE", "OPERATION_FAILED"}]
    /\ given \in Nat /\ taken \in Nat
    /\ fresh \in BOOLEAN
    /\ owed \subseteq {w \in Waiters : Suspended(w)}
    /\ calls \in 0 .. MaxSets

(* On the Windows port, whatever the interleaving, a wait that returns     *)
(* IOTK_RES_OK answers a set: iotk_event_set was called after the object   *)
(* was created, after the last wait that succeeded and after the last      *)
(* reset.  Signals neither pile up nor outlive a reset.                    *)
WaitsAnswerSets == port = Windows => \A w \in Waiters :
    Suspended(w) /\ pc'[w] = "idle" /\ ret'[w] = "OK" => fresh
WaitMeansSet == [][WaitsAnswerSets]_evVars

-----------------------------------------------------------------------------
(* What iotk_pal_os.h says and the ports do not do.                        *)

(* A wait returns 0 only "upon successful reception of the signal"         *)
(* (iotk_pal_os.h:105): no more waits succeed than signals were set.       *)
WaitNeedsSet == taken <= given

(* "All suspended threads waiting on this sync object are resumed" by a    *)
(* set (iotk_pal_os.h:69): each thread suspended at a set returns.         *)
AllResumed == \A w \in Waiters : (w \in owed) ~> (w \notin owed)
=============================================================================
