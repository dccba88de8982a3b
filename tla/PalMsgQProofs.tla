--------------------------- MODULE PalMsgQProofs ---------------------------
(***************************************************************************)
(* Theorems about PalMsgQ, for any numbers of threads and any queue size.  *)
(* The inductive invariant is the conjunction of the types, the mutual     *)
(* exclusion of the guard and the token accounting: count stays a natural  *)
(* number only because a reader that copies holds a token, and the         *)
(* accounting is only kept because at most one thread is in the critical   *)
(* section.  For the refinement of MsgQueue two invariants are added: the  *)
(* positions are count places apart (RingGeometry), and a writer carries a *)
(* message (WriterHasMessage).                                             *)
(* What the liveness properties rest on follows from the same invariants:  *)
(* no wakeup is lost (NoLostWakeup) and some thread can always run         *)
(* (SomeoneRuns).                                                          *)
(***************************************************************************)
EXTENDS PalMsgQ, FiniteSetTheorems, SequenceTheorems, TLAPS

(* The inductive invariant.                                                *)
Inv == TypeOK /\ GuardExclusion /\ TokenAccounting

(* The next position of the ring lies in the ring.                         *)
LEMMA Next1Type == \A i \in Slots : Next1(i) \in Slots
  BY SizeAssumption DEF Next1, Slots

(* The two sets the accounting counts are finite.                          *)
LEMMA CountedFinite ==
    /\ IsFiniteSet(HoldsToken) /\ IsFiniteSet(Posted)
    /\ Cardinality(HoldsToken) \in Nat /\ Cardinality(Posted) \in Nat
  <1>1. HoldsToken \in SUBSET Readers /\ Posted \in SUBSET Writers
    BY DEF HoldsToken, Posted
  <1>2. IsFiniteSet(HoldsToken) /\ IsFiniteSet(Posted)
    BY <1>1, FS_Subset, ThreadAssumption
  <1> QED
    BY <1>2, FS_CardinalityType

(* The invariant holds in a queue just created.                            *)
LEMMA InvInit == Init => Inv
  <1> SUFFICES ASSUME Init PROVE Inv
    OBVIOUS
  <1>1. TypeOK
    BY SizeAssumption DEF Init, TypeOK, Slots, Threads, Pcs
  <1>2. GuardExclusion
    BY ThreadAssumption DEF Init, GuardExclusion, InSection, Threads
  <1>3. HoldsToken = {} /\ Posted = {}
    BY DEF Init, HoldsToken, Posted, Threads
  <1>4. TokenAccounting
    BY <1>3, FS_EmptySet DEF Init, TokenAccounting
  <1> QED
    BY <1>1, <1>2, <1>4 DEF Inv
-----------------------------------------------------------------------------
(* A thread that takes the guard finds no one in the critical section.     *)
LEMMA LockStep ==
    ASSUME Inv, NEW t \in Threads, NEW from, NEW to, Lock(t, from, to),
           \/ t \in Writers /\ from = "wlock" /\ to = "wpost"
           \/ t \in Readers /\ from = "rlock" /\ to = "rcopy"
    PROVE  Inv'
  <1> USE DEF Inv
  <1>1. TypeOK'
    BY ThreadAssumption DEF TypeOK, Lock, Goto, ring, Threads, Pcs
  <1>2. GuardExclusion'
    BY ThreadAssumption DEF TypeOK, GuardExclusion, InSection, Lock, Goto, Threads, Pcs
  <1>3. HoldsToken' = HoldsToken /\ Posted' = Posted
    BY ThreadAssumption DEF TypeOK, HoldsToken, Posted, Lock, Goto, Threads
  <1>4. TokenAccounting'
    BY <1>3 DEF TokenAccounting, Lock, ring
  <1> QED
    BY <1>1, <1>2, <1>4

(* A thread that gives the guard back was its owner.                       *)
LEMMA UnlockStep ==
    ASSUME Inv, NEW t \in Threads, NEW from, NEW result, Unlock(t, from, result),
           \/ t \in Writers /\ from \in {"wdone", "wfail"}
           \/ t \in Readers /\ from = "rdone",
           result \in {"OK", "FAILURE"}
    PROVE  Inv'
  <1> USE DEF Inv
  <1>1. TypeOK'
    BY ThreadAssumption DEF TypeOK, Unlock, Goto, ring, Threads, Pcs
  <1>2. guard = t
    BY DEF GuardExclusion, InSection, Unlock
  <1>3. GuardExclusion'
    BY <1>2, ThreadAssumption DEF TypeOK, GuardExclusion, InSection, Unlock, Goto, Threads, Pcs
  <1>4. HoldsToken' = HoldsToken /\ Posted' = Posted
    BY ThreadAssumption DEF TypeOK, HoldsToken, Posted, Unlock, Goto, Threads
  <1>5. TokenAccounting'
    BY <1>4 DEF TokenAccounting, Unlock, ring
  <1> QED
    BY <1>1, <1>3, <1>5

(* The steps that neither move a message nor a token nor the guard.        *)
LEMMA QuietStep ==
    ASSUME Inv,
           \/ \E w \in Writers : WriteCall(w) \/ WriteFull(w)
           \/ \E r \in Readers : ReadCall(r) \/ ReadTimeout(r)
           \/ Delete
           \/ UNCHANGED vars
    PROVE  Inv'
  <1> USE DEF Inv
  <1>1. ASSUME NEW w \in Writers, WriteCall(w)
        PROVE  Inv'
    <2>1. calls + 1 \in Messages /\ calls + 1 \in 0 .. Quota
      BY <1>1, SizeAssumption DEF TypeOK, WriteCall, Messages
    <2>2. TypeOK'
      BY <1>1, <2>1, ThreadAssumption DEF TypeOK, WriteCall, Goto, ring, Threads, Pcs
    <2>3. GuardExclusion'
      BY <1>1, ThreadAssumption DEF TypeOK, GuardExclusion, InSection, WriteCall, Goto, Threads
    <2>4. HoldsToken' = HoldsToken /\ Posted' = Posted
      BY <1>1, ThreadAssumption DEF TypeOK, HoldsToken, Posted, WriteCall, Goto, Threads
    <2>5. TokenAccounting'
      BY <1>1, <2>4 DEF TokenAccounting, WriteCall, ring
    <2> QED
      BY <2>2, <2>3, <2>5
  <1>2. ASSUME NEW w \in Writers, WriteFull(w)
        PROVE  Inv'
    <2>1. TypeOK'
      BY <1>2, ThreadAssumption DEF TypeOK, WriteFull, Goto, ring, Threads, Pcs
    <2>2. GuardExclusion'
      BY <1>2, ThreadAssumption DEF TypeOK, GuardExclusion, InSection, WriteFull, Goto, Threads
    <2>3. HoldsToken' = HoldsToken /\ Posted' = Posted
      BY <1>2, ThreadAssumption DEF TypeOK, HoldsToken, Posted, WriteFull, Goto, Threads
    <2>4. TokenAccounting'
      BY <1>2, <2>3 DEF TokenAccounting, WriteFull, ring
    <2> QED
      BY <2>1, <2>2, <2>4
  <1>3. ASSUME NEW r \in Readers, ReadCall(r)
        PROVE  Inv'
    <2>1. wait' \in [Readers -> {"forever", "finite"}]
      BY <1>3, ModeAssumption DEF TypeOK, ReadCall
    <2>2. TypeOK'
      BY <1>3, <2>1, ThreadAssumption DEF TypeOK, ReadCall, Goto, ring, Threads, Pcs
    <2>3. GuardExclusion'
      BY <1>3, ThreadAssumption DEF TypeOK, GuardExclusion, InSection, ReadCall, Goto, Threads
    <2>4. HoldsToken' = HoldsToken /\ Posted' = Posted
      BY <1>3, ThreadAssumption DEF TypeOK, HoldsToken, Posted, ReadCall, Goto, Threads
    <2>5. TokenAccounting'
      BY <1>3, <2>4 DEF TokenAccounting, ReadCall, ring
    <2> QED
      BY <2>2, <2>3, <2>5
  <1>4. ASSUME NEW r \in Readers, ReadTimeout(r)
        PROVE  Inv'
    <2>1. TypeOK'
      BY <1>4, ThreadAssumption DEF TypeOK, ReadTimeout, Goto, ring, Threads, Pcs
    <2>2. GuardExclusion'
      BY <1>4, ThreadAssumption DEF TypeOK, GuardExclusion, InSection, ReadTimeout, Goto, Threads
    <2>3. HoldsToken' = HoldsToken /\ Posted' = Posted
      BY <1>4, ThreadAssumption DEF TypeOK, HoldsToken, Posted, ReadTimeout, Goto, Threads
    <2>4. TokenAccounting'
      BY <1>4, <2>3 DEF TokenAccounting, ReadTimeout, ring
    <2> QED
      BY <2>1, <2>2, <2>4
  <1>5. ASSUME Delete \/ UNCHANGED vars
        PROVE  Inv'
    <2>1. /\ UNCHANGED <<guard, sem, rpos, wpos, count, slots, pc, msg, wait, ret, calls>>
          /\ alive' \in BOOLEAN
      BY <1>5 DEF Delete, vars, ring, TypeOK
    <2>2. TypeOK'
      BY <2>1 DEF TypeOK, Pcs
    <2>3. GuardExclusion'
      BY <2>1 DEF GuardExclusion, InSection
    <2>4. HoldsToken' = HoldsToken /\ Posted' = Posted
      BY <2>1 DEF HoldsToken, Posted
    <2>5. TokenAccounting'
      BY <2>1, <2>4 DEF TokenAccounting, ring
    <2> QED
      BY <2>2, <2>3, <2>5
  <1> QED
    BY <1>1, <1>2, <1>3, <1>4, <1>5

(* A post adds one token and one writer that has not stored yet.           *)
LEMMA WritePostStep ==
    ASSUME Inv, NEW w \in Writers, WritePost(w)
    PROVE  Inv'
  <1> USE DEF Inv
  <1>1. TypeOK'
    BY SizeAssumption, ThreadAssumption DEF TypeOK, WritePost, Goto, ring, Threads, Pcs
  <1>2. GuardExclusion'
    BY ThreadAssumption DEF TypeOK, GuardExclusion, InSection, WritePost, Goto, Threads
  <1>3. HoldsToken' = HoldsToken /\ Posted' = Posted \cup {w} /\ w \notin Posted
    BY ThreadAssumption DEF TypeOK, HoldsToken, Posted, WritePost, Goto, Threads
  <1>4. Cardinality(Posted') = Cardinality(Posted) + 1
    BY <1>3, CountedFinite, FS_AddElement
  <1>5. TokenAccounting'
    <2>1. sem' = sem + 1 /\ count' = count
      BY DEF WritePost, ring
    <2> QED
      BY <1>3, <1>4, <2>1, CountedFinite DEF TokenAccounting, TypeOK
  <1> QED
    BY <1>1, <1>2, <1>5

(* A store moves the writer's message from its token into count.           *)
LEMMA WriteStoreStep ==
    ASSUME Inv, NEW w \in Writers, WriteStore(w)
    PROVE  Inv'
  <1> USE DEF Inv
  <1>1. wpos' \in Slots /\ slots' \in [Slots -> Messages \cup {Zero}]
    BY Next1Type DEF TypeOK, WriteStore, Threads
  <1>2. TypeOK'
    BY <1>1, ThreadAssumption DEF TypeOK, WriteStore, Goto, Threads, Pcs
  <1>3. GuardExclusion'
    BY ThreadAssumption DEF TypeOK, GuardExclusion, InSection, WriteStore, Goto, Threads
  <1>4. HoldsToken' = HoldsToken /\ Posted' = Posted \ {w} /\ w \in Posted
    BY ThreadAssumption DEF TypeOK, HoldsToken, Posted, WriteStore, Goto, Threads
  <1>5. Cardinality(Posted') = Cardinality(Posted) - 1
    BY <1>4, CountedFinite, FS_RemoveElement
  <1>6. TokenAccounting'
    <2>1. sem' = sem /\ count' = count + 1
      BY DEF WriteStore
    <2> QED
      BY <1>4, <1>5, <2>1, CountedFinite DEF TokenAccounting, TypeOK
  <1> QED
    BY <1>2, <1>3, <1>6

(* A take moves a token from the semaphore to the reader.                  *)
LEMMA ReadTakeStep ==
    ASSUME Inv, NEW r \in Readers, ReadTake(r)
    PROVE  Inv'
  <1> USE DEF Inv
  <1>1. TypeOK'
    BY SizeAssumption, ThreadAssumption DEF TypeOK, ReadTake, Goto, ring, Threads, Pcs
  <1>2. GuardExclusion'
    BY ThreadAssumption DEF TypeOK, GuardExclusion, InSection, ReadTake, Goto, Threads
  <1>3. Posted' = Posted /\ HoldsToken' = HoldsToken \cup {r} /\ r \notin HoldsToken
    BY ThreadAssumption DEF TypeOK, HoldsToken, Posted, ReadTake, Goto, Threads
  <1>4. Cardinality(HoldsToken') = Cardinality(HoldsToken) + 1
    BY <1>3, CountedFinite, FS_AddElement
  <1>5. TokenAccounting'
    <2>1. sem' = sem - 1 /\ count' = count
      BY DEF ReadTake, ring
    <2> QED
      BY <1>3, <1>4, <2>1, CountedFinite DEF TokenAccounting, TypeOK
  <1> QED
    BY <1>1, <1>2, <1>5

(* A reader that is about to copy holds a token, and no writer is between  *)
(* its post and its store: so there is a message to copy.                  *)
LEMMA CopyFindsMessage ==
    ASSUME Inv, NEW r \in Readers, pc[r] = "rcopy"
    PROVE  count >= 1
  <1> USE DEF Inv
  <1>1. guard = r
    BY DEF GuardExclusion, InSection, Threads
  <1>2. Posted = {}
    BY <1>1, ThreadAssumption DEF GuardExclusion, InSection, Threads, Posted
  <1>3. Cardinality(Posted) = 0
    BY <1>2, FS_EmptySet
  <1>4. Cardinality(HoldsToken) >= 1
    <2>1. r \in HoldsToken
      BY DEF HoldsToken
    <2>2. HoldsToken # {}
      BY <2>1
    <2> QED
      BY <2>2, CountedFinite, FS_EmptySet
  <1> QED
    BY <1>3, <1>4, CountedFinite DEF TokenAccounting, TypeOK

(* A copy takes the reader's token and a message out of the accounting.    *)
LEMMA ReadCopyStep ==
    ASSUME Inv, NEW r \in Readers, ReadCopy(r)
    PROVE  Inv'
  <1> USE DEF Inv
  <1>1. count >= 1
    BY CopyFindsMessage DEF ReadCopy
  <1>2. rpos' \in Slots /\ msg' \in [Threads -> Messages \cup {Zero}] /\ count' \in Nat
    BY <1>1, Next1Type DEF TypeOK, ReadCopy, Threads
  <1>3. TypeOK'
    BY <1>2, ThreadAssumption DEF TypeOK, ReadCopy, Goto, Threads, Pcs
  <1>4. GuardExclusion'
    BY ThreadAssumption DEF TypeOK, GuardExclusion, InSection, ReadCopy, Goto, Threads
  <1>5. Posted' = Posted /\ HoldsToken' = HoldsToken \ {r} /\ r \in HoldsToken
    BY ThreadAssumption DEF TypeOK, HoldsToken, Posted, ReadCopy, Goto, Threads
  <1>6. Cardinality(HoldsToken') = Cardinality(HoldsToken) - 1
    BY <1>5, CountedFinite, FS_RemoveElement
  <1>7. TokenAccounting'
    <2>1. sem' = sem /\ count' = count - 1
      BY DEF ReadCopy
    <2> QED
      BY <1>5, <1>6, <2>1, CountedFinite DEF TokenAccounting, TypeOK
  <1> QED
    BY <1>3, <1>4, <1>7

(* The invariant is inductive.                                             *)
LEMMA InvStep == Inv /\ [Next]_vars => Inv'
  <1> SUFFICES ASSUME Inv, [Next]_vars
               PROVE  Inv'
    OBVIOUS
  <1>1. CASE UNCHANGED vars
    BY <1>1, QuietStep
  <1>2. ASSUME NEW w \in Writers, WriteCall(w) \/ WriteFull(w)
        PROVE  Inv'
    BY <1>2, QuietStep
  <1>3. ASSUME NEW w \in Writers, WriteLock(w)
        PROVE  Inv'
    BY <1>3, LockStep DEF WriteLock, Threads
  <1>4. ASSUME NEW w \in Writers, WritePost(w)
        PROVE  Inv'
    BY <1>4, WritePostStep
  <1>5. ASSUME NEW w \in Writers, WriteStore(w)
        PROVE  Inv'
    BY <1>5, WriteStoreStep
  <1>6. ASSUME NEW w \in Writers, WriteReturn(w)
        PROVE  Inv'
    BY <1>6, UnlockStep DEF WriteReturn, Threads
  <1>7. ASSUME NEW r \in Readers, ReadCall(r) \/ ReadTimeout(r)
        PROVE  Inv'
    BY <1>7, QuietStep
  <1>8. ASSUME NEW r \in Readers, ReadTake(r)
        PROVE  Inv'
    BY <1>8, ReadTakeStep
  <1>9. ASSUME NEW r \in Readers, ReadLock(r)
        PROVE  Inv'
    BY <1>9, LockStep DEF ReadLock, Threads
  <1>10. ASSUME NEW r \in Readers, ReadCopy(r)
         PROVE  Inv'
    BY <1>10, ReadCopyStep
  <1>11. ASSUME NEW r \in Readers, ReadReturn(r)
         PROVE  Inv'
    BY <1>11, UnlockStep DEF ReadReturn, Threads
  <1>12. CASE Delete
    BY <1>12, QuietStep
  <1> QED
    BY <1>1, <1>2, <1>3, <1>4, <1>5, <1>6, <1>7, <1>8, <1>9, <1>10, <1>11, <1>12
       DEF Next, WriteStep, ReadStep

(* Hence the invariant holds in every reachable state.                     *)
LEMMA InvAlways == Spec => []Inv
  <1>1. Init => Inv
    BY InvInit
  <1>2. Inv /\ [Next]_vars => Inv'
    BY InvStep
  <1> QED
    BY <1>1, <1>2, PTL DEF Spec
-----------------------------------------------------------------------------
(* Every variable of the queue stays within its type; in particular count  *)
(* never goes below zero and the positions never leave the ring.           *)
THEOREM TypeCorrect == Spec => []TypeOK
  <1>1. Inv => TypeOK
    BY DEF Inv
  <1> QED
    BY <1>1, InvAlways, PTL

(* At most one thread, the guard's owner, is in the critical section.      *)
THEOREM MutualExclusion == Spec => []GuardExclusion
  <1>1. Inv => GuardExclusion
    BY DEF Inv
  <1> QED
    BY <1>1, InvAlways, PTL

(* count and the semaphore agree up to the calls under way.                *)
THEOREM TokensAccounted == Spec => []TokenAccounting
  <1>1. Inv => TokenAccounting
    BY DEF Inv
  <1> QED
    BY <1>1, InvAlways, PTL

(* The queue never holds more than MaxMsgs messages plus one for each      *)
(* reader between its token and the guard.                                 *)
THEOREM OverrunBounded == Spec => []OverrunBound
  <1>1. Inv => OverrunBound
    BY CountedFinite, SizeAssumption DEF Inv, TypeOK, TokenAccounting, OverrunBound
  <1> QED
    BY <1>1, InvAlways, PTL
-----------------------------------------------------------------------------
(* Remainders.                                                             *)

(* A number is a multiple of m and a remainder.                            *)
LEMMA DivMod ==
    ASSUME NEW m \in Nat \ {0}, NEW x \in Int
    PROVE  /\ x % m \in 0 .. m - 1
           /\ \E q \in Int : x = q * m + (x % m)
  <1>1. x % m \in 0 .. m - 1 /\ x \div m \in Int /\ x = (x \div m) * m + (x % m)
    OBVIOUS
  <1> QED
    BY <1>1

(* The remainder is the only one.                                          *)
LEMMA ModIs ==
    ASSUME NEW m \in Nat \ {0}, NEW q \in Int, NEW r \in 0 .. m - 1
    PROVE  (q * m + r) % m = r
  OBVIOUS

(* Multiples of m add up.                                                  *)
LEMMA Distr ==
    ASSUME NEW m \in Nat \ {0}, NEW p \in Int, NEW q \in Int
    PROVE  /\ (p + q) * m = p * m + q * m
           /\ (p - q) * m = p * m - q * m
           /\ p * m \in Int /\ q * m \in Int
  OBVIOUS

(* Taking the remainder first makes no difference to a sum.                *)
LEMMA ModAdd ==
    ASSUME NEW m \in Nat \ {0}, NEW x \in Int, NEW y \in Int
    PROVE  ((x % m) + y) % m = (x + y) % m
  <1>1. PICK r \in 0 .. m - 1, q \in Int : r = x % m /\ x = q * m + r
    BY DivMod
  <1>2. r + y \in Int
    OBVIOUS
  <1>3. PICK s \in 0 .. m - 1, p \in Int : s = (r + y) % m /\ r + y = p * m + s
    BY <1>2, DivMod
  <1>4. (p + q) * m = p * m + q * m /\ p * m \in Int /\ q * m \in Int
    BY Distr
  <1>5. x + y = (p + q) * m + s
    <2>1. x = q * m + r
      BY <1>1
    <2>2. r + y = p * m + s
      BY <1>3
    <2> QED
      BY <2>1, <2>2, <1>4
  <1>6. p + q \in Int
    OBVIOUS
  <1>7. (x + y) % m = s
    BY <1>5, <1>6, ModIs
  <1> QED
    BY <1>1, <1>3, <1>7

(* Two numbers have one remainder if their difference has none.            *)
LEMMA ModSame ==
    ASSUME NEW m \in Nat \ {0}, NEW x \in Int, NEW d \in Int
    PROVE  x % m = (x + d) % m <=> d % m = 0
  <1>1. PICK r \in 0 .. m - 1, q \in Int : r = x % m /\ x = q * m + r
    BY DivMod
  <1>2. x + d \in Int
    OBVIOUS
  <1>3. PICK s \in 0 .. m - 1, p \in Int : s = (x + d) % m /\ x + d = p * m + s
    BY <1>2, DivMod
  <1>4. PICK t \in 0 .. m - 1, k \in Int : t = d % m /\ d = k * m + t
    BY DivMod
  <1>5. ASSUME r = s PROVE t = 0
    <2>1. (p - q) * m = p * m - q * m /\ p * m \in Int /\ q * m \in Int
      BY Distr
    <2>2. d = (p - q) * m + 0
      BY <1>1, <1>3, <1>5, <2>1
    <2>3. p - q \in Int /\ 0 \in 0 .. m - 1
      OBVIOUS
    <2>4. d % m = 0
      BY <2>2, <2>3, ModIs
    <2> QED
      BY <1>4, <2>4
  <1>6. ASSUME t = 0 PROVE r = s
    <2>1. (q + k) * m = q * m + k * m /\ q * m \in Int /\ k * m \in Int
      BY Distr
    <2>2. x + d = (q + k) * m + r
      BY <1>1, <1>4, <1>6, <2>1
    <2>3. q + k \in Int
      OBVIOUS
    <2>4. (x + d) % m = r
      BY <2>2, <2>3, ModIs
    <2> QED
      BY <1>3, <2>4
  <1> QED
    BY <1>1, <1>3, <1>4, <1>5, <1>6
-----------------------------------------------------------------------------
(* The positions of the ring.                                              *)

(* A store moves wpos and count, a copy rpos and count, by one each.       *)
LEMMA GeometryStep == Inv /\ RingGeometry /\ [Next]_vars => RingGeometry'
  <1> SUFFICES ASSUME Inv, RingGeometry, [Next]_vars PROVE RingGeometry'
    OBVIOUS
  <1>0. /\ MaxMsgs \in Nat \ {0} /\ rpos \in Slots /\ wpos \in Slots /\ count \in Nat
    BY SizeAssumption DEF Inv, TypeOK
  <1>1. ASSUME NEW w \in Writers, WriteStore(w) PROVE RingGeometry'
    <2>1. wpos' = (((rpos + count) % MaxMsgs) + 1) % MaxMsgs /\ rpos' = rpos /\ count' = count + 1
      BY <1>1 DEF WriteStore, Next1, RingGeometry
    <2>2. rpos + count \in Int /\ 1 \in Int /\ (rpos + count) + 1 = rpos + (count + 1)
      BY <1>0 DEF Slots
    <2>3. (((rpos + count) % MaxMsgs) + 1) % MaxMsgs = ((rpos + count) + 1) % MaxMsgs
      BY <1>0, <2>2, ModAdd, Zenon
    <2> QED
      BY <2>1, <2>2, <2>3, Zenon DEF RingGeometry
  <1>2. ASSUME NEW r \in Readers, ReadCopy(r) PROVE RingGeometry'
    <2>1. wpos' = (rpos + count) % MaxMsgs /\ rpos' = (rpos + 1) % MaxMsgs /\ count' = count - 1
      BY <1>2 DEF ReadCopy, Next1, RingGeometry
    <2>2. rpos + 1 \in Int /\ count - 1 \in Int /\ (rpos + 1) + (count - 1) = rpos + count
      BY <1>0 DEF Slots
    <2>3. (((rpos + 1) % MaxMsgs) + (count - 1)) % MaxMsgs = ((rpos + 1) + (count - 1)) % MaxMsgs
      BY <1>0, <2>2, ModAdd, Zenon
    <2> QED
      BY <2>1, <2>2, <2>3, Zenon DEF RingGeometry
  <1>3. ASSUME UNCHANGED ring PROVE RingGeometry'
    BY <1>3 DEF ring, RingGeometry
  <1>4. CASE UNCHANGED vars \/ Delete
    BY <1>3, <1>4 DEF vars, Delete, ring
  <1>5. ASSUME NEW w \in Writers, WriteCall(w) \/ WriteLock(w) \/ WritePost(w) \/ WriteFull(w) \/ WriteReturn(w)
        PROVE RingGeometry'
    BY <1>3, <1>5 DEF WriteCall, WriteLock, WritePost, WriteFull, WriteReturn, Lock, Unlock
  <1>6. ASSUME NEW r \in Readers, ReadCall(r) \/ ReadTake(r) \/ ReadTimeout(r) \/ ReadLock(r) \/ ReadReturn(r)
        PROVE RingGeometry'
    BY <1>3, <1>6 DEF ReadCall, ReadTake, ReadTimeout, ReadLock, ReadReturn, Lock, Unlock
  <1> QED
    BY <1>1, <1>2, <1>4, <1>5, <1>6 DEF Next, WriteStep, ReadStep

(* wpos is always count places after rpos, also after the ring overran.    *)
THEOREM GeometryKept == Spec => []RingGeometry
  <1>1. Init => RingGeometry
    BY SizeAssumption DEF Init, RingGeometry
  <1> QED
    BY <1>1, GeometryStep, InvAlways, PTL DEF Spec
-----------------------------------------------------------------------------
(* The refinement of MsgQueue.                                             *)

(* What a writer carries is a message, not the zero of an empty slot.      *)
WriterHasMessage == \A w \in Writers : pc[w] # "idle" => msg[w] \in Messages

(* Its call gives a writer its message, and nothing takes it back.         *)
LEMMA WriterStep == TypeOK /\ WriterHasMessage /\ [Next]_vars => WriterHasMessage'
  <1> SUFFICES ASSUME TypeOK, WriterHasMessage, [Next]_vars PROVE WriterHasMessage'
    OBVIOUS
  <1> USE ThreadAssumption DEF TypeOK, WriterHasMessage, Threads
  <1>1. ASSUME NEW w \in Writers, WriteCall(w) PROVE WriterHasMessage'
    <2>1. calls + 1 \in Messages
      BY <1>1, SizeAssumption DEF WriteCall, Messages
    <2> QED
      BY <1>1, <2>1 DEF WriteCall, Goto
  <1>2. ASSUME NEW r \in Readers, ReadCopy(r) PROVE WriterHasMessage'
    BY <1>2 DEF ReadCopy, Goto
  <1>3. ASSUME NEW w \in Writers, WriteStep(w) PROVE WriterHasMessage'
    <2>1. UNCHANGED msg /\ pc[w] # "idle" /\ \A v \in Writers : v # w => pc'[v] = pc[v]
      BY <1>3 DEF WriteStep, WriteLock, WritePost, WriteFull, WriteStore, WriteReturn, Lock, Unlock, Goto
    <2> QED
      BY <2>1
  <1>4. ASSUME NEW r \in Readers, ReadCall(r) \/ ReadTake(r) \/ ReadTimeout(r) \/ ReadLock(r) \/ ReadReturn(r)
        PROVE WriterHasMessage'
    <2>1. UNCHANGED msg /\ \A v \in Writers : pc'[v] = pc[v]
      BY <1>4 DEF ReadCall, ReadTake, ReadTimeout, ReadLock, ReadReturn, Lock, Unlock, Goto
    <2> QED
      BY <2>1
  <1>5. CASE UNCHANGED vars \/ Delete
    BY <1>5 DEF vars, Delete
  <1> QED
    BY <1>1, <1>2, <1>3, <1>4, <1>5 DEF Next, ReadStep

(* What the readers of the abstract queue hold.                            *)
Got == [r \in Readers |-> msg[r]]

(* A store is a put: of the places of the box it changes the new one and,  *)
(* when the ring has wrapped, those a multiple of MaxMsgs before it.       *)
LEMMA StoreIsPut ==
    ASSUME Inv, OverrunBound', RingGeometry, WriterHasMessage, NEW w \in Writers, WriteStore(w)
    PROVE  Lossy!Put(msg[w])
  <1>0. /\ MaxMsgs \in Nat \ {0} /\ rpos \in Slots /\ wpos \in Slots /\ count \in Nat
        /\ slots \in [Slots -> Messages \cup {Zero}]
    BY SizeAssumption DEF Inv, TypeOK
  <1>1. /\ wpos = (rpos + count) % MaxMsgs
        /\ slots' = [slots EXCEPT ![wpos] = msg[w]] /\ count' = count + 1 /\ rpos' = rpos
        /\ msg' = msg
    BY DEF RingGeometry, WriteStore
  <1>2. Len(Box) = count
    BY <1>0 DEF Box
  <1>3. Len(Box) < MaxMsgs + Cardinality(Readers)
    <2>1. count' <= MaxMsgs + Cardinality(HoldsToken')
      BY DEF OverrunBound
    <2>2. HoldsToken' \subseteq Readers
      BY DEF HoldsToken
    <2>3. Cardinality(HoldsToken') <= Cardinality(Readers) /\ Cardinality(HoldsToken') \in Nat
          /\ Cardinality(Readers) \in Nat
      BY <2>2, FS_Subset, FS_CardinalityType, ThreadAssumption
    <2> QED
      BY <1>0, <1>1, <1>2, <2>1, <2>3
  <1>4. Box' = [i \in 1 .. Len(Box) + 1 |->
                  IF (Len(Box) + 1 - i) % MaxMsgs = 0 THEN msg[w] ELSE Box[i]]
    <2>1. ASSUME NEW i \in 1 .. count + 1
          PROVE  slots'[(rpos + i - 1) % MaxMsgs] =
                 IF (count + 1 - i) % MaxMsgs = 0 THEN msg[w] ELSE Box[i]
      <3>1. /\ rpos + i - 1 \in Int /\ count + 1 - i \in Int
            /\ (rpos + i - 1) + (count + 1 - i) = rpos + count
        BY <1>0 DEF Slots
      <3>2. (rpos + i - 1) % MaxMsgs = ((rpos + i - 1) + (count + 1 - i)) % MaxMsgs
              <=> (count + 1 - i) % MaxMsgs = 0
        BY <1>0, <3>1, ModSame, Zenon
      <3>3. (rpos + i - 1) % MaxMsgs = wpos <=> (count + 1 - i) % MaxMsgs = 0
        BY <1>1, <3>1, <3>2, Zenon
      <3>4. (rpos + i - 1) % MaxMsgs \in Slots
        BY <1>0, <3>1, DivMod, Zenon DEF Slots
      <3>5. slots'[(rpos + i - 1) % MaxMsgs] =
               IF (rpos + i - 1) % MaxMsgs = wpos THEN msg[w] ELSE slots[(rpos + i - 1) % MaxMsgs]
        BY <1>0, <1>1, <3>4, Zenon
      <3>6. CASE i = count + 1
        <4>1. count + 1 - i = 0 /\ rpos + i - 1 = rpos + count
          BY <1>0, <3>6 DEF Slots
        <4>2. 0 % MaxMsgs = 0
          BY <1>0
        <4> QED
          BY <3>3, <3>5, <4>1, <4>2, Zenon
      <3>7. CASE i # count + 1
        <4>1. i \in 1 .. count
          BY <1>0, <3>7
        <4>2. Box[i] = slots[(rpos + i - 1) % MaxMsgs]
          BY <4>1, Zenon DEF Box
        <4> QED
          BY <3>3, <3>5, <4>2, Zenon
      <3> QED
        BY <3>6, <3>7
    <2>2. Box' = [i \in 1 .. count + 1 |-> slots'[(rpos + i - 1) % MaxMsgs]]
      <3>1. count' = count + 1 /\ rpos' = rpos
        BY <1>1
      <3> QED
        BY <3>1, Zenon DEF Box
    <2> QED
      BY <1>2, <2>1, <2>2, Zenon
  <1>5. Got' = Got
    BY <1>1 DEF Got
  <1> QED
    BY <1>3, <1>4, <1>5 DEF Lossy!Put, Got

(* The elements of a tail.                                                 *)
LEMMA TailIs ==
    ASSUME NEW S, NEW s \in Seq(S), s # << >>
    PROVE  Tail(s) = [i \in 1 .. Len(s) - 1 |-> s[i + 1]]
  <1> DEFINE t == [i \in 1 .. Len(s) - 1 |-> s[i + 1]]
  <1>1. Len(s) \in Nat /\ Len(s) > 0 /\ \A i \in 1 .. Len(s) : s[i] \in S
    OBVIOUS
  <1>2. t \in Seq(S) /\ Len(t) = Len(s) - 1
    BY <1>1
  <1>3. /\ Tail(s) \in Seq(S) /\ Len(Tail(s)) = Len(s) - 1
        /\ \A i \in 1 .. Len(s) - 1 : Tail(s)[i] = s[i + 1]
    BY HeadTailProperties
  <1>4. \A i \in 1 .. Len(s) - 1 : t[i] = s[i + 1]
    OBVIOUS
  <1> HIDE DEF t
  <1>5. Tail(s) = t
    BY <1>2, <1>3, <1>4, SeqEqual
  <1> QED
    BY <1>5 DEF t

(* The box is a sequence of count messages (or zeros, in the types' view). *)
LEMMA BoxType ==
    ASSUME Inv
    PROVE  Box \in Seq(Messages \cup {Zero}) /\ Len(Box) = count
  <1>0. /\ MaxMsgs \in Nat \ {0} /\ rpos \in Slots /\ count \in Nat
        /\ slots \in [Slots -> Messages \cup {Zero}]
    BY SizeAssumption DEF Inv, TypeOK
  <1>1. ASSUME NEW i \in 1 .. count PROVE slots[(rpos + i - 1) % MaxMsgs] \in Messages \cup {Zero}
    <2>1. rpos + i - 1 \in Int
      BY <1>0 DEF Slots
    <2>2. (rpos + i - 1) % MaxMsgs \in Slots
      BY <1>0, <2>1, DivMod, Zenon DEF Slots
    <2> QED
      BY <1>0, <2>2, Zenon
  <1> DEFINE S == Messages \cup {Zero}
  <1>2. Box \in [1 .. count -> S]
    BY <1>1, Zenon DEF Box
  <1> HIDE DEF S
  <1>3. Box \in Seq(S) /\ Len(Box) = count
    BY <1>0, <1>2
  <1> QED
    BY <1>3 DEF S

(* A copy is a get.                                                        *)
LEMMA CopyIsGet ==
    ASSUME Inv, NEW r \in Readers, ReadCopy(r)
    PROVE  Lossy!Get(r)
  <1>0. /\ MaxMsgs \in Nat \ {0} /\ rpos \in Slots /\ count \in Nat
        /\ slots \in [Slots -> Messages \cup {Zero}] /\ msg \in [Threads -> Messages \cup {Zero}]
    BY SizeAssumption DEF Inv, TypeOK
  <1>1. /\ slots' = slots /\ count' = count - 1 /\ rpos' = (rpos + 1) % MaxMsgs
        /\ msg' = [msg EXCEPT ![r] = slots[rpos]]
    BY DEF ReadCopy, Next1
  <1>2. count >= 1
    BY CopyFindsMessage DEF ReadCopy
  <1>3. Box \in Seq(Messages \cup {Zero}) /\ Len(Box) = count /\ Box # << >>
    <2>1. Box \in Seq(Messages \cup {Zero}) /\ Len(Box) = count
      BY BoxType
    <2> QED
      BY <1>0, <1>2, <2>1
  <1>4. Head(Box) = slots[rpos]
    <2>1. Head(Box) = Box[1] /\ 1 \in 1 .. count
      BY <1>0, <1>2, <1>3
    <2>2. rpos + 1 - 1 = rpos /\ rpos % MaxMsgs = rpos
      BY <1>0 DEF Slots
    <2> QED
      BY <2>1, <2>2, Zenon DEF Box
  <1>5. Tail(Box) = [i \in 1 .. count - 1 |-> Box[i + 1]]
    BY <1>3, TailIs
  <1>6. Box' = Tail(Box)
    <2>1. Box' = [i \in 1 .. count - 1 |-> slots[(((rpos + 1) % MaxMsgs) + i - 1) % MaxMsgs]]
      BY <1>1, Zenon DEF Box
    <2>2. ASSUME NEW i \in 1 .. count - 1
          PROVE  slots[(((rpos + 1) % MaxMsgs) + i - 1) % MaxMsgs] = Box[i + 1]
      <3>1. i + 1 \in 1 .. count
        BY <1>0
      <3>2. /\ rpos + 1 \in Int /\ i - 1 \in Int
            /\ (rpos + 1) + (i - 1) = rpos + (i + 1) - 1
        BY <1>0 DEF Slots
      <3>3. (((rpos + 1) % MaxMsgs) + (i - 1)) % MaxMsgs = ((rpos + 1) + (i - 1)) % MaxMsgs
        BY <1>0, <3>2, ModAdd, Zenon
      <3>4. ((rpos + 1) % MaxMsgs) + i - 1 = ((rpos + 1) % MaxMsgs) + (i - 1)
        <4>1. (rpos + 1) % MaxMsgs \in Int
          BY <1>0 DEF Slots
        <4> QED
          BY <4>1
      <3>5. Box[i + 1] = slots[(rpos + (i + 1) - 1) % MaxMsgs]
        BY <3>1, Zenon DEF Box
      <3> QED
        BY <3>2, <3>3, <3>4, <3>5, Zenon
    <2> QED
      BY <1>5, <2>1, <2>2, Zenon
  <1>7. Got' = [Got EXCEPT ![r] = Head(Box)]
    BY <1>0, <1>1, <1>4 DEF Got, Threads
  <1> QED
    BY <1>3, <1>6, <1>7 DEF Lossy!Get, Got

(* Every step is a step of the box or leaves it alone.                     *)
LEMMA StepRefines ==
    ASSUME Inv, OverrunBound', RingGeometry, WriterHasMessage, [Next]_vars
    PROVE  [Lossy!Next]_<<Box, Got>>
  <1>1. ASSUME NEW w \in Writers, WriteStore(w) PROVE Lossy!Next
    <2>1. msg[w] \in Messages
      BY <1>1 DEF WriterHasMessage, WriteStore
    <2>2. Lossy!Put(msg[w])
      BY <1>1, StoreIsPut
    <2> QED
      BY <2>1, <2>2 DEF Lossy!Next
  <1>2. ASSUME NEW r \in Readers, ReadCopy(r) PROVE Lossy!Next
    <2>1. Lossy!Get(r)
      BY <1>2, CopyIsGet
    <2> QED
      BY <2>1 DEF Lossy!Next
  <1>3. ASSUME UNCHANGED ring, \A r \in Readers : msg'[r] = msg[r]
        PROVE UNCHANGED <<Box, Got>>
    <2>1. UNCHANGED <<count, rpos, slots>>
      BY <1>3 DEF ring
    <2>2. Box' = Box
      BY <2>1, Zenon DEF Box
    <2>3. Got' = Got
      BY <1>3, Zenon DEF Got
    <2> QED
      BY <2>2, <2>3
  <1>4. CASE UNCHANGED vars \/ Delete
    BY <1>3, <1>4 DEF vars, Delete, ring
  <1>5. ASSUME NEW w \in Writers, WriteCall(w) \/ WriteLock(w) \/ WritePost(w) \/ WriteFull(w) \/ WriteReturn(w)
        PROVE UNCHANGED <<Box, Got>>
    <2>1. UNCHANGED ring
      BY <1>5 DEF WriteCall, WriteLock, WritePost, WriteFull, WriteReturn, Lock, Unlock
    <2>2. \A r \in Readers : msg'[r] = msg[r]
      BY <1>5, ThreadAssumption DEF WriteCall, WriteLock, WritePost, WriteFull, WriteReturn, Lock, Unlock,
               Inv, TypeOK, Threads
    <2> QED
      BY <1>3, <2>1, <2>2
  <1>6. ASSUME NEW r \in Readers, ReadCall(r) \/ ReadTake(r) \/ ReadTimeout(r) \/ ReadLock(r) \/ ReadReturn(r)
        PROVE UNCHANGED <<Box, Got>>
    BY <1>3, <1>6 DEF ReadCall, ReadTake, ReadTimeout, ReadLock, ReadReturn, Lock, Unlock
  <1> QED
    BY <1>1, <1>2, <1>4, <1>5, <1>6 DEF Next, WriteStep, ReadStep

(* A new queue is an empty box.                                            *)
LEMMA InitRefines == Init => Lossy!Init
  <1> SUFFICES ASSUME Init PROVE Lossy!Init
    OBVIOUS
  <1>1. count = 0
    BY DEF Init
  <1>2. Box = << >>
    BY <1>1 DEF Box
  <1> QED
    BY <1>2 DEF Init, Lossy!Init, Threads

(* The ring, its two positions, the guard and the semaphore implement the  *)
(* bounded box of MsgQueue, for any threads and any size: a store is one   *)
(* atomic put, a copy one atomic get, messages leave in the order in which *)
(* they were stored, and the box is exceeded by at most one message for    *)
(* each reader.                                                            *)
THEOREM Refinement == Spec => ImplementsLossyBox
  <1>1. Init => RingGeometry /\ WriterHasMessage
    BY SizeAssumption DEF Init, RingGeometry, WriterHasMessage, Threads
  <1>2. Inv /\ Inv' /\ RingGeometry /\ WriterHasMessage /\ [Next]_vars => (RingGeometry /\ WriterHasMessage)'
    BY GeometryStep, WriterStep DEF Inv
  <1>3. Inv /\ OverrunBound' /\ RingGeometry /\ WriterHasMessage /\ [Next]_vars => [Lossy!Next]_(Lossy!mqvars)
    BY StepRefines DEF Lossy!mqvars, Got
  <1> QED
    BY <1>1, <1>2, <1>3, InitRefines, InvAlways, OverrunBounded, PTL DEF Spec, ImplementsLossyBox, Lossy!Spec
-----------------------------------------------------------------------------
(* What the liveness properties rest on.                                   *)

(* No wakeup is lost: while WaitForSingleObject(q->queue) keeps readers    *)
(* asleep, every message in the ring is already promised to a reader that  *)
(* took its token before, and with no call between its token and its       *)
(* message the semaphore counts the messages exactly.                      *)
NoLostWakeup ==
    /\ sem = 0 => count <= Cardinality(HoldsToken)
    /\ HoldsToken = {} /\ Posted = {} => count = sem

(* No reader of the Windows port sleeps beside a message that no one else  *)
(* is about to read, whatever was overrun before.                          *)
THEOREM NoReaderForgotten == Spec => []NoLostWakeup
  <1>1. Inv => NoLostWakeup
    <2> SUFFICES ASSUME Inv PROVE NoLostWakeup
      OBVIOUS
    <2>1. /\ count \in Nat /\ sem \in Nat
          /\ count + Cardinality(Posted) = sem + Cardinality(HoldsToken)
      BY SizeAssumption DEF Inv, TypeOK, TokenAccounting
    <2>2. HoldsToken = {} /\ Posted = {} => Cardinality(HoldsToken) = 0 /\ Cardinality(Posted) = 0
      BY FS_EmptySet
    <2> QED
      BY <2>1, <2>2, CountedFinite DEF NoLostWakeup
  <1> QED
    BY <1>1, InvAlways, PTL

(* The guard of the step a thread in a call takes next: a free mutex at    *)
(* the two locks, a token or a timeout at the semaphore, nothing elsewhere.*)
CanRun(t) ==
    \/ pc[t] \in {"wlock", "rlock"} /\ guard = NoOne
    \/ t \in InSection
    \/ pc[t] = "rwait" /\ alive /\ sem > 0
    \/ pc[t] = "rwait" /\ wait[t] = "finite" /\ sem = 0

(* No deadlock: as long as some call is under way that is not suspended on *)
(* the empty queue, some thread can run.  The two things a call waits for, *)
(* the semaphore and the mutex, are never waited for in a circle, and      *)
(* iotk_msgq_delete leaves no call behind that it would have to end.       *)
SomeoneRuns ==
    (\E t \in Threads : InCall(t) /\ ~ (t \in Readers /\ Suspended(t)))
        => \E t \in Threads : CanRun(t)

(* After a delete every thread is idle or suspended.                       *)
DeletedQuiet ==
    ~alive => \A t \in Threads : pc[t] = "idle" \/ (t \in Readers /\ Suspended(t))

(* A deleted queue takes no call and no post, so it stays quiet.           *)
LEMMA DeletedStep == TypeOK /\ DeletedQuiet /\ [Next]_vars => DeletedQuiet'
  <1> SUFFICES ASSUME TypeOK, DeletedQuiet, [Next]_vars PROVE DeletedQuiet'
    OBVIOUS
  <1>1. CASE Delete
    BY <1>1 DEF Delete, DeletedQuiet, Suspended
  <1>2. CASE UNCHANGED vars
    BY <1>2 DEF vars, DeletedQuiet, Suspended
  <1>3. CASE alive /\ ~Delete
    <2>1. alive' = alive
      BY <1>3 DEF Next, WriteStep, ReadStep, WriteCall, WriteLock, WritePost, WriteFull, WriteStore,
         WriteReturn, ReadCall, ReadTake, ReadTimeout, ReadLock, ReadCopy, ReadReturn, Lock, Unlock, vars
    <2> QED
      BY <1>3, <2>1 DEF DeletedQuiet
  <1>4. CASE ~alive /\ ~Delete /\ ~ UNCHANGED vars
    <2>1. \A t \in Threads : pc[t] \in {"idle", "rwait"}
      BY <1>4 DEF DeletedQuiet, Suspended
    <2>2. PICK r \in Readers : ReadTimeout(r)
      BY <1>4, <2>1 DEF Next, WriteStep, ReadStep, WriteCall, WriteLock, WritePost, WriteFull, WriteStore,
         WriteReturn, ReadCall, ReadTake, ReadLock, ReadCopy, ReadReturn, Lock, Unlock, Threads
    <2>3. /\ sem' = sem /\ alive' = alive
          /\ \A t \in Threads : pc'[t] = pc[t] \/ pc'[t] = "idle"
      BY <2>2 DEF ReadTimeout, Goto, TypeOK, Threads
    <2> QED
      BY <1>4, <2>3 DEF DeletedQuiet, Suspended
  <1> QED
    BY <1>1, <1>2, <1>3, <1>4

(* If the mutex is taken its owner is inside the section, where nothing is *)
(* waited for; if it is free, every thread that is not suspended can run.  *)
LEMMA InvRuns == Inv /\ DeletedQuiet => SomeoneRuns
  <1> SUFFICES ASSUME Inv, DeletedQuiet,
                      NEW t \in Threads, InCall(t), ~ (t \in Readers /\ Suspended(t))
               PROVE  \E u \in Threads : CanRun(u)
    BY DEF SomeoneRuns
  <1>1. CASE guard # NoOne
    <2>1. guard \in Threads /\ guard \in InSection
      BY <1>1 DEF Inv, TypeOK, GuardExclusion
    <2> QED
      BY <2>1 DEF CanRun
  <1>2. CASE guard = NoOne
    <2>1. t \in Writers \/ t \in Readers
      BY DEF Threads
    <2>2. pc[t] \in Pcs(t) /\ sem \in Nat
      BY SizeAssumption DEF Inv, TypeOK
    <2>3. pc[t] # "rwait" => pc[t] \in {"wlock", "rlock"} \/ t \in InSection
      BY <2>1, <2>2, ThreadAssumption DEF Pcs, InSection, InCall
    <2>4. pc[t] = "rwait" => t \in Readers
      BY <2>1, <2>2, ThreadAssumption DEF Pcs
    <2>5. pc[t] = "rwait" => sem > 0 /\ alive
      BY <2>2, <2>4 DEF Suspended, DeletedQuiet
    <2>6. CanRun(t)
      BY <1>2, <2>3, <2>5 DEF CanRun
    <2> QED
      BY <2>6
  <1> QED
    BY <1>1, <1>2

(* The semaphore and the mutex of iotk_os_windows.c cannot deadlock, for   *)
(* any numbers of readers and writers.                                     *)
THEOREM DeadlockFree == Spec => []SomeoneRuns
  <1>1. Init => DeletedQuiet
    BY DEF Init, DeletedQuiet
  <1>2. Inv /\ DeletedQuiet /\ [Next]_vars => DeletedQuiet'
    BY DeletedStep DEF Inv
  <1> QED
    BY <1>1, <1>2, InvRuns, InvAlways, PTL DEF Spec
-----------------------------------------------------------------------------
(* What a store may destroy.                                               *)

(* A store into a ring with room appends its message and destroys none; a  *)
(* store finds the ring full only while a reader is between its token and  *)
(* its copy, and then it destroys unread messages exactly a multiple of    *)
(* MaxMsgs places before the new one: those of the slot it overwrites.     *)
StoreInto(w) ==
    /\ count < MaxMsgs => Box' = Append(Box, msg[w])
    /\ count >= MaxMsgs => HoldsToken # {}
    /\ \A i \in 1 .. count : (count + 1 - i) % MaxMsgs # 0 => Box'[i] = Box[i]

StoresIntoRoom == [][\A w \in Writers : WriteStore(w) => StoreInto(w)]_vars

(* What the refinement says of a store, read in the ring's own terms.      *)
LEMMA StoreIsAppend ==
    ASSUME Inv, OverrunBound', RingGeometry, WriterHasMessage, NEW w \in Writers, WriteStore(w)
    PROVE  StoreInto(w)
  <1>0. MaxMsgs \in Nat \ {0} /\ count \in Nat /\ sem \in 0 .. MaxMsgs
    BY SizeAssumption DEF Inv, TypeOK
  <1>1. msg[w] \in Messages \cup {Zero}
    BY DEF Inv, TypeOK, Threads
  <1>3. Lossy!Put(msg[w])
    BY StoreIsPut
  <1>4. Box \in Seq(Messages \cup {Zero}) /\ Len(Box) = count
    BY BoxType
  <1>5. Box' = [i \in 1 .. count + 1 |-> IF (count + 1 - i) % MaxMsgs = 0 THEN msg[w] ELSE Box[i]]
    BY <1>3, <1>4 DEF Lossy!Put
  <1>6. ASSUME count < MaxMsgs PROVE Box' = Append(Box, msg[w])
    <2>1. \A i \in 1 .. count + 1 : (count + 1 - i) % MaxMsgs = 0 <=> i = count + 1
      <3> TAKE i \in 1 .. count + 1
      <3>1. count + 1 - i \in 0 .. MaxMsgs - 1
        BY <1>0, <1>6
      <3>2. (count + 1 - i) % MaxMsgs = count + 1 - i
        BY <1>0, <3>1
      <3> QED
        BY <1>0, <3>2
    <2> DEFINE app == Append(Box, msg[w])
               S == Messages \cup {Zero}
    <2>2. Box' = [i \in 1 .. count + 1 |-> IF i = count + 1 THEN msg[w] ELSE Box[i]]
      BY <1>5, <2>1, Zenon
    <2>3. /\ app \in Seq(S) /\ Len(app) = count + 1
          /\ \A i \in 1 .. count : app[i] = Box[i]
          /\ app[count + 1] = msg[w]
      <3>1. Box \in Seq(S) /\ msg[w] \in S /\ Len(Box) = count
        BY <1>1, <1>4
      <3> HIDE DEF S
      <3>2. /\ app \in Seq(S) /\ Len(app) = Len(Box) + 1
            /\ \A i \in 1 .. Len(Box) : app[i] = Box[i]
            /\ app[Len(Box) + 1] = msg[w]
        BY <3>1, AppendProperties
      <3> QED
        BY <3>1, <3>2, Zenon
    <2> HIDE DEF app, S
    <2>4. app = [i \in 1 .. count + 1 |-> app[i]]
      <3>1. app = [i \in 1 .. Len(app) |-> app[i]]
        BY <2>3
      <3> QED
        BY <2>3, <3>1, Zenon
    <2>5. \A i \in 1 .. count + 1 : app[i] = IF i = count + 1 THEN msg[w] ELSE Box[i]
      BY <2>3, <1>0
    <2>6. Box' = app
      BY <2>2, <2>4, <2>5, Zenon
    <2> QED
      BY <2>6 DEF app
  <1>7. ASSUME count >= MaxMsgs PROVE HoldsToken # {}
    <2>1. w \in Posted
      BY DEF WriteStore, Posted
    <2>2. Posted # {} /\ Cardinality(Posted) >= 1
      BY <2>1, CountedFinite, FS_EmptySet
    <2>3. count + Cardinality(Posted) = sem + Cardinality(HoldsToken)
      BY DEF Inv, TokenAccounting
    <2>4. Cardinality(HoldsToken) # 0
      BY <1>0, <1>7, <2>2, <2>3, CountedFinite
    <2> QED
      BY <2>4, FS_EmptySet
  <1>8. ASSUME NEW i \in 1 .. count, (count + 1 - i) % MaxMsgs # 0 PROVE Box'[i] = Box[i]
    <2>1. i \in 1 .. count + 1
      BY <1>0
    <2> QED
      BY <1>5, <1>8, <2>1
  <1> QED
    BY <1>6, <1>7, <1>8 DEF StoreInto

(* So the Windows queue loses a message only by the overrun: a writer that *)
(* stores while every token taken has been turned into a message loses     *)
(* nothing.                                                                *)
THEOREM StoresLoseOnlyByOverrun == Spec => StoresIntoRoom
  <1>1. Init => RingGeometry /\ WriterHasMessage
    BY SizeAssumption DEF Init, RingGeometry, WriterHasMessage, Threads
  <1>2. Inv /\ RingGeometry /\ WriterHasMessage /\ [Next]_vars => (RingGeometry /\ WriterHasMessage)'
    BY GeometryStep, WriterStep DEF Inv
  <1>3. Inv /\ OverrunBound' /\ RingGeometry /\ WriterHasMessage /\ [Next]_vars
           => [\A w \in Writers : WriteStore(w) => StoreInto(w)]_vars
    BY StoreIsAppend
  <1> QED
    BY <1>1, <1>2, <1>3, InvAlways, OverrunBounded, PTL DEF Spec, StoresIntoRoom
=============================================================================
