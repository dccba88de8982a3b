----------------------------- MODULE SlProfiles -----------------------------
(***************************************************************************)
(* examples/doorbell/sl.c: the Wi-Fi profiles of the network processor     *)
(* (NWP) as the application sees them.  Sets of profiles travel as bytes   *)
(* built by shifting: profile i is bit 7 - i.  The NWP is external: it has *)
(* MaxProfiles places, an addition takes a free one, and a deletion may be *)
(* refused; it may also say yes to the deletion of an empty place.         *)
(***************************************************************************)
EXTENDS Integers, FiniteSets

CONSTANTS
    MaxProfiles,    \* SL_WLAN_MAX_PROFILES
    Stubborn,       \* the places whose deletion the NWP may refuse
    KeyLens         \* lengths of the keys a client uses

ASSUME ProfileAssumption ==
    /\ MaxProfiles \in 1 .. 7
    /\ Stubborn \subseteq 0 .. MaxProfiles - 1
    /\ KeyLens \subseteq Nat

Places == 0 .. MaxProfiles - 1
Bytes == 0 .. 255
RemoveAll == 255

VARIABLES
    stored,     \* the places in use (external)
    op,         \* the last call
    ret         \* the byte, or for an addition the number, that it returned

prVars == <<stored, op, ret>>

PrInit ==                       \* the NWP keeps its profiles without power
    /\ stored \in SUBSET Places
    /\ op = "none" /\ ret = 0

Shift(b) == (b * 2) % 256       \* <<= 1 on an unsigned char
Or1(b) == (b - (b % 2)) + 1     \* |= 1

(* The byte that the loops of remove_set and count build: in each turn set *)
(* the lowest bit if the place is in S, then shift.                        *)
(* The operators marked "wrong" are plausible mistakes in what follows.    *)
BuildShiftFirst(S) ==           \* wrong: shifts before it sets the bit
    LET res[i \in 0 .. MaxProfiles] ==
          IF i = 0 THEN 0
          ELSE IF i - 1 \in S THEN Or1(Shift(res[i - 1])) ELSE Shift(res[i - 1])
    IN res[MaxProfiles]

Build(S) ==
    LET res[i \in 0 .. MaxProfiles] ==
          IF i = 0 THEN 0
          ELSE Shift(IF i - 1 \in S THEN Or1(res[i - 1]) ELSE res[i - 1])
    IN res[MaxProfiles]

(* The places that a loop over cur, shifted each time, finds in a byte.    *)
AskedReversed(b) ==             \* wrong: tests the lowest bit and shifts right
    LET cur[i \in 0 .. MaxProfiles] == IF i = 0 THEN b ELSE cur[i - 1] \div 2
    IN {i \in Places : cur[i] % 2 = 1}

Asked(b) ==
    LET cur[i \in 0 .. MaxProfiles] == IF i = 0 THEN b ELSE Shift(cur[i - 1])
    IN {i \in Places : cur[i] >= 128}           \* 0x80 & cur
-----------------------------------------------------------------------------
RemoveSet(b) ==                 \* sl_wlan_profile_remove_set
    /\ op' = "remove_set"
    /\ \E no \in SUBSET (Asked(b) \cap Stubborn) :
          LET deleted == Asked(b) \ no
          IN /\ stored' = stored \ deleted
             /\ ret' = Build(deleted)

Remove(idx) ==                  \* sl_wlan_profile_remove; RemoveAll is 0xFF
    /\ op' = "remove"
    /\ \E deleted \in {{}, IF idx = RemoveAll THEN Places ELSE {idx}} :
          stored' = stored \ deleted
    /\ ret' = 0                 \* a driver result, looked at by no one

Count ==                        \* the set sl_wlan_profile_count returns
    /\ op' = "count"
    /\ ret' = Build(stored)
    /\ UNCHANGED stored

(* The security types sl_wlan_profile_add tries for a key, one profile     *)
(* each.                                                                   *)
WepLens == {5, 10, 13, 16, 26, 32}
Types(len) ==
    (IF len = 0 \/ len \in WepLens THEN 1 ELSE 0) + (IF len \in 8 .. 63 THEN 1 ELSE 0)

Add(len) ==                     \* sl_wlan_profile_add; the NWP may refuse
    /\ op' = "add"
    /\ \E new \in SUBSET (Places \ stored) :
          /\ Cardinality(new) <= Types(len)
          /\ stored' = stored \cup new
          /\ ret' = Cardinality(new)

PrNext ==
    \/ \E b \in Bytes : RemoveSet(b)
    \/ \E idx \in Places \cup {RemoveAll} : Remove(idx)
    \/ Count
    \/ \E len \in KeyLens : Add(len)

PrSpec == PrInit /\ [][PrNext]_prVars
-----------------------------------------------------------------------------
(* Properties.                                                             *)

(* Reference: in a byte, place i is bit 7 - i.                             *)
Members(b) == {i \in Places : (b \div 2 ^ (7 - i)) % 2 = 1}

(* What remove_set returns follows the convention of what it takes, though *)
(* one byte is shifted before and the other after its bit is used: every   *)
(* profile that went is in it, and none that is still there, whichever     *)
(* deletions the NWP refuses.                                              *)
RemoveSetReports == [][op' = "remove_set" =>
    /\ stored \ stored' \subseteq Members(ret')
    /\ stored' \cap Members(ret') = {}]_prVars

(* What a call returns is a byte.  The one count returns says which places *)
(* are in use, so a client may pass it to remove_set: it asks for all of   *)
(* them and for nothing else.  This depends on there being one place less  *)
(* than a byte has bits.                                                   *)
CountIsARemoveSet ==
    /\ stored \subseteq Places /\ ret \in Bytes
    /\ op = "count" => Asked(ret) = stored
=============================================================================
