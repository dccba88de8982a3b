-------------------------------- MODULE Cfg --------------------------------
(***************************************************************************)
(* examples/doorbell/cfg.c: the configuration store, one piece of memory   *)
(* in which each node (id, length, time stamp) is followed by its value.   *)
(* There is no index: every call walks from node to node and looks for its *)
(* id in the memory itself, so a value that ran over would cost the store  *)
(* the nodes behind it.                                                    *)
(*                                                                         *)
(* A header is the low byte of the id and Header - 1 zero bytes: the time  *)
(* stamp and the length are written by cfg_init only.                      *)
(***************************************************************************)
EXTENDS Integers, Sequences

CONSTANTS
    Size,       \* _cfg_len: the size of each value, by id
    Header,     \* size of struct CONFIG_NODE
    Data        \* the strings clients set, without NUL

N == Len(Size)
Ids == 0 .. N - 1

ASSUME TableAssumption ==
    /\ Size \in Seq(Nat \ {0})
    /\ N \in 1 .. 256           \* an id is its low byte
    /\ Header \in Nat /\ Header > 1
    /\ \A d \in Data : d \in Seq(Nat \ {0})

VARIABLES
    mem,        \* struct CFG_RAM, a byte each
    ret,        \* result of the last call
    latest,     \* history: what each id was last set to
    longest     \* history: the length of the longest string it was set to

vars == <<mem, ret, latest, longest>>

CfgLen(i) == Size[i + 1]

Min2(a, b) == IF a < b THEN a ELSE b

(* Where the walk is after i nodes; the struct ends in padding.            *)
Node[i \in 0 .. N] == IF i = 0 THEN 0 ELSE Node[i - 1] + Header + CfgLen(i - 1)
Ram == 0 .. Node[N]

Value(i) == Node[i] + Header    \* &node[1]

(* The nodes at which a walk for id stops; the first one is taken.         *)
Matches(id) == {i \in Ids : mem[Node[i]] = id}
Found(id) == CHOOSE i \in Matches(id) : \A j \in Matches(id) : i <= j

Init ==                         \* cfg_init
    /\ mem = [a \in Ram |-> IF \E i \in Ids : a = Node[i]
                              THEN CHOOSE i \in Ids : a = Node[i] ELSE 0]
    /\ ret = 0
    /\ latest = [i \in Ids |-> << >>]
    /\ longest = [i \in Ids |-> 0]

(* The operators marked "wrong" are plausible mistakes in Clip.            *)
ClipByTable(i, length) == Min2(length, CfgLen(0))       \* wrong: _cfg_len[0]
ClipOneLess(i, length) == Min2(length, CfgLen(i) - 1)   \* wrong: leaves room for a NUL

Clip(i, length) == Min2(length, CfgLen(i))

CfgSet(id, val) ==
    /\ Matches(id) # {}
    /\ LET i == Found(id)
           n == Clip(i, Len(val))
           a == Value(i)
       IN /\ mem' = [b \in Ram |-> IF b \in a .. a + n - 1 THEN val[b - a + 1] ELSE mem[b]]
          /\ ret' = n
          /\ latest' = [latest EXCEPT ![i] = val]
          /\ longest' = [longest EXCEPT ![i] = IF Len(val) > @ THEN Len(val) ELSE @]

CfgSetUnknown(id) ==            \* dp id not found
    /\ Matches(id) = {}
    /\ ret' = 0
    /\ UNCHANGED <<mem, latest, longest>>

(* cfg_get copies the first n bytes of the value, at most all of it, and   *)
(* none of an id it does not find.                                         *)
CfgGet(id, n) ==
    IF Matches(id) = {} THEN << >>
    ELSE LET i == Found(id)
         IN [k \in 1 .. Min2(n, CfgLen(i)) |-> mem[Value(i) + k - 1]]

(* What a caller of cfg_get_ptr reads as a C string, as main.c does with   *)
(* the server's address: it ends at the first zero byte, in this value or  *)
(* behind it.                                                              *)
EndOfString(a) == CHOOSE e \in Ram :
    /\ e >= a /\ mem[e] = 0
    /\ \A b \in a .. e - 1 : mem[b] # 0

CfgGetPtrNode(id) ==            \* wrong: node for &node[1]
    IF Matches(id) = {} THEN << >>
    ELSE LET a == Node[Found(id)] IN [k \in 1 .. EndOfString(a) - a |-> mem[a + k - 1]]

CfgGetPtr(id) ==
    IF Matches(id) = {} THEN << >>
    ELSE LET a == Value(Found(id)) IN [k \in 1 .. EndOfString(a) - a |-> mem[a + k - 1]]

Next ==
    \/ \E id \in Ids, d \in Data : CfgSet(id, d)
    \/ \E id \in 0 .. N : CfgSetUnknown(id)

Spec == Init /\ [][Next]_vars
-----------------------------------------------------------------------------
(* Properties.                                                             *)

(* The walk stays possible: after any sets, in any order and of any        *)
(* length, each id is found at its own node and nowhere else, every byte   *)
(* is one, and the one behind the last value stays padding.                *)
NodesStand ==
    /\ mem \in [Ram -> Nat] /\ mem[Node[N]] = 0
    /\ \A i \in Ids : Matches(i) = {i}

Store == INSTANCE CfgStore WITH
    Ids <- Ids, Size <- [i \in Ids |-> CfgLen(i)], Data <- Data,
    value <- [i \in Ids |-> CfgGet(i, CfgLen(i))]

(* The memory with its walk is a table: a set changes the beginning of     *)
(* what cfg_get returns for its own id, and nothing else.                  *)
ImplementsStore == Store!Spec

(* A string reads back as it was set if it leaves room for the zero byte   *)
(* that cfg_set does not store, and no longer one was set before: a tail   *)
(* of the longer one would follow.                                         *)
StringReadsBack == \A i \in Ids :
    latest[i] # << >> /\ Len(latest[i]) = longest[i] /\ longest[i] < CfgLen(i)
        => CfgGetPtr(i) = latest[i]
=============================================================================
