---------------------------- MODULE PalEventOps ----------------------------
(***************************************************************************)
(* The synchronisation object of the platform layer, iotk_event_t, as each *)
(* port builds it out of a kernel semaphore.  A port is described by       *)
(*   init    the count iotk_event_create gives the semaphore               *)
(*   max     the count at which a set fails, Unbounded if none             *)
(*   typed   the calls suit the kernel object that was created             *)
(*   late    what a wait that timed out returns                            *)
(*   forever a wait with IOTK_WAIT_FOREVER does not time out               *)
(*   reset   "take": reset is a wait with timeout 0;                       *)
(*           "restart": reset gives the semaphore a value and resumes the  *)
(*           waiters with an error                                         *)
(***************************************************************************)
EXTENDS Integers

(* The definitions marked "wrong" are plausible mistakes in what follows.  *)
Unbounded == 0      \* no limit a program would meet

WindowsCreatedSet ==        \* wrong: created with a signal, as on the other ports
    [init |-> 1, max |-> 1, typed |-> TRUE, late |-> "TIMEOUT", forever |-> TRUE,
     reset |-> "take"]

Windows ==
    [init |-> 0, max |-> 1, typed |-> TRUE, late |-> "TIMEOUT", forever |-> TRUE,
     reset |-> "take"]

(* sem_timedwait returns -1, never ETIMEDOUT; the deadline it gets is the  *)
(* value of a function that returns none, so any wait may end at once.     *)
Linux ==
    [init |-> 1, max |-> Unbounded, typed |-> TRUE, late |-> "OPERATION_FAILED", forever |-> FALSE,
     reset |-> "take"]

Ucos ==             \* message queue calls on a semaphore: each is refused
    [init |-> 1, max |-> Unbounded, typed |-> FALSE, late |-> "TIMEOUT", forever |-> TRUE,
     reset |-> "take"]

RtThread ==         \* rt_sem_take returns -RT_ETIMEOUT, never RT_ETIMEOUT
    [init |-> 1, max |-> Unbounded, typed |-> TRUE, late |-> "OPERATION_FAILED", forever |-> TRUE,
     reset |-> "restart"]

Ports == {Windows, Linux, Ucos, RtThread}

RestartValue == 1   \* the value RT-Thread's iotk_event_reset passes

CanSetAlways(port, count) == port.typed                             \* wrong

CanSet(port, count) == port.typed /\ (port.max = Unbounded \/ count < port.max)
CanTake(port, count) == port.typed /\ count > 0
=============================================================================
