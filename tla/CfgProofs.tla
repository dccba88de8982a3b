----------------------------- MODULE CfgProofs -----------------------------
(***************************************************************************)
(* Theorems about Cfg, for any table of up to 256 values, of any sizes,    *)
(* and any strings.                                                        *)
(*                                                                         *)
(* Where a node lies is a sum over the nodes before it, so the facts about *)
(* addresses are proved by induction over the table (TableInduction, from  *)
(* the well-foundedness of the natural numbers): the sums exist            *)
(* (NodeDefined), and values lie between their own node and the next       *)
(* (NodesApart).                                                           *)
(*                                                                         *)
(* The inductive invariant, CfgInv, says of every byte that matters what   *)
(* it is: ids stand at the nodes, each value begins with the string last   *)
(* set, and is zero behind the longest one.  That it is not zero before    *)
(* that end (NoGaps) says how long the string is that a caller reads       *)
(* through the bare pointer.                                               *)
(***************************************************************************)
EXTENDS Cfg, SequenceTheorems, WellFoundedInduction, TLAPS

(* Every set of numbers has a least one.                                   *)
LEMMA LeastNumber ==
    ASSUME NEW T, T \subseteq Nat, T # {}
    PROVE  \E x \in T : \A y \in T : x <= y
  <1> DEFINE R == OpToRel(<, Nat)
  <1>1. IsWellFoundedOn(R, Nat)
    BY NatLessThanWellFounded
  <1>2. PICK x \in T : \A y \in T : ~(<<y, x>> \in R)
    <2> HIDE DEF R
    <2> QED
      BY <1>1, WFMin
  <1>3. \A y \in T : ~(<<y, x>> \in {ss \in Nat \X Nat : ss[1] < ss[2]})
    BY <1>2 DEF OpToRel
  <1>4. ASSUME NEW y \in T PROVE x <= y
    <2>1. ~(y < x)
      BY <1>3, <1>4
    <2> QED
      BY <2>1
  <1> QED
    BY <1>4

(* What is true of the first node, and of the next whenever it is true of  *)
(* one, is true of all and of the end.                                     *)
LEMMA TableInduction ==
    ASSUME NEW T, 0 \in T, \A n \in Ids : n \in T => n + 1 \in T
    PROVE  \A n \in 0 .. N : n \in T
  <1> SUFFICES ASSUME NEW n \in 0 .. N, n \notin T PROVE FALSE
    OBVIOUS
  <1> DEFINE F == {m \in 0 .. N : m \notin T}
  <1>1. N \in Nat
    BY TableAssumption
  <1>2. F \subseteq Nat /\ F # {}
    BY <1>1
  <1>3. PICK x \in F : \A y \in F : x <= y
    <2> HIDE DEF F
    <2> QED
      BY <1>2, LeastNumber
  <1>4. x # 0 /\ x - 1 \in Ids /\ (x - 1) + 1 = x
    BY <1>1, <1>3 DEF Ids
  <1>5. x - 1 \in T
    BY <1>1, <1>3, <1>4 DEF Ids
  <1> QED
    BY <1>3, <1>4, <1>5

(* The table is not empty, and its sizes are positive.                     *)
LEMMA Sizes ==
    /\ N \in 1 .. 256 /\ Header \in Nat /\ Header > 1
    /\ \A i \in Ids : CfgLen(i) \in Nat /\ CfgLen(i) > 0
  <1>1. N \in 1 .. 256 /\ Header \in Nat /\ Header > 1 /\ Size \in Seq(Nat \ {0})
    BY TableAssumption
  <1>2. ASSUME NEW i \in Ids PROVE CfgLen(i) \in Nat /\ CfgLen(i) > 0
    <2>1. i + 1 \in 1 .. Len(Size)
      BY <1>1 DEF Ids, N
    <2>2. Size[i + 1] \in Nat \ {0}
      BY <1>1, <2>1
    <2> QED
      BY <2>2 DEF CfgLen
  <1> QED
    BY <1>1, <1>2
-----------------------------------------------------------------------------
(* Addresses.                                                              *)

(* There are sums of any number of nodes.                                  *)
LEMMA SumsExist ==
    \A n \in 0 .. N : \E f \in [0 .. n -> Nat] :
        /\ f[0] = 0
        /\ \A i \in 1 .. n : f[i] = f[i - 1] + Header + CfgLen(i - 1)
  <1> DEFINE Sums(f, n) == /\ f[0] = 0
                           /\ \A i \in 1 .. n : f[i] = f[i - 1] + Header + CfgLen(i - 1)
             T == {n \in 0 .. N : \E f \in [0 .. n -> Nat] : Sums(f, n)}
  <1>1. 0 \in T
    <2> DEFINE f == [i \in 0 .. 0 |-> 0]
    <2>1. f \in [0 .. 0 -> Nat] /\ Sums(f, 0)
      OBVIOUS
    <2>2. 0 \in 0 .. N
      BY Sizes
    <2> QED
      BY <2>1, <2>2
  <1>2. ASSUME NEW n \in Ids, n \in T PROVE n + 1 \in T
    <2>1. PICK f \in [0 .. n -> Nat] : Sums(f, n)
      BY <1>2
    <2>2. n \in Nat /\ n + 1 \in 0 .. N /\ N \in Nat
      BY Sizes DEF Ids
    <2>3. f[n] + Header + CfgLen(n) \in Nat
      BY <2>1, <2>2, Sizes
    <2> DEFINE g == [i \in 0 .. n + 1 |-> IF i <= n THEN f[i] ELSE f[n] + Header + CfgLen(n)]
    <2>4. g \in [0 .. n + 1 -> Nat]
      BY <2>1, <2>2, <2>3
    <2>5. g[0] = 0
      BY <2>1, <2>2
    <2>6. ASSUME NEW i \in 1 .. n + 1 PROVE g[i] = g[i - 1] + Header + CfgLen(i - 1)
      <3>1. CASE i <= n
        <4>1. i \in 1 .. n /\ i - 1 \in 0 .. n /\ i \in 0 .. n + 1 /\ i - 1 \in 0 .. n + 1 /\ i - 1 <= n
          BY <2>2, <3>1
        <4>2. g[i] = f[i] /\ g[i - 1] = f[i - 1]
          BY <4>1, <3>1
        <4> QED
          BY <2>1, <4>1, <4>2
      <3>2. CASE i = n + 1
        <4>1. i \in 0 .. n + 1 /\ ~(i <= n) /\ i - 1 = n /\ n \in 0 .. n + 1 /\ n <= n
          BY <2>2, <3>2
        <4>2. g[i] = f[n] + Header + CfgLen(n) /\ g[n] = f[n]
          BY <4>1
        <4> QED
          BY <4>1, <4>2
      <3> QED
        BY <2>2, <3>1, <3>2
    <2>7. Sums(g, n + 1)
      BY <2>5, <2>6
    <2> HIDE DEF g
    <2> QED
      BY <2>2, <2>4, <2>7
  <1>3. \A n \in 0 .. N : n \in T
    <2> HIDE DEF T
    <2> QED
      BY <1>1, <1>2, TableInduction
  <1> QED
    BY <1>3

(* Node is such a sum: a node begins where the value before it ends.       *)
LEMMA NodeDefined ==
    /\ Node = [i \in 0 .. N |-> IF i = 0 THEN 0 ELSE Node[i - 1] + Header + CfgLen(i - 1)]
    /\ Node \in [0 .. N -> Nat]
    /\ Node[0] = 0
    /\ \A i \in Ids : Node[i + 1] = Node[i] + Header + CfgLen(i)
  <1> DEFINE Is(f) == f = [i \in 0 .. N |-> IF i = 0 THEN 0 ELSE f[i - 1] + Header + CfgLen(i - 1)]
  <1>1. N \in Nat /\ N \in 0 .. N
    BY Sizes
  <1>2. PICK f \in [0 .. N -> Nat] :
          /\ f[0] = 0
          /\ \A i \in 1 .. N : f[i] = f[i - 1] + Header + CfgLen(i - 1)
    BY <1>1, SumsExist
  <1>3. Is(f)
    BY <1>1, <1>2
  <1>4. Node = CHOOSE g : Is(g)
    BY DEF Node
  <1>5. Is(Node)
    <2> HIDE DEF Is
    <2> QED
      BY <1>3, <1>4
  <1>6. ASSUME NEW i \in 0 .. N
        PROVE  Node[i] = IF i = 0 THEN 0 ELSE Node[i - 1] + Header + CfgLen(i - 1)
    BY <1>5
  <1>7. Node[0] = 0
    BY <1>1, <1>6
  <1>8. ASSUME NEW i \in Ids PROVE Node[i + 1] = Node[i] + Header + CfgLen(i)
    <2>1. i + 1 \in 0 .. N /\ i + 1 # 0 /\ (i + 1) - 1 = i
      BY <1>1 DEF Ids
    <2> QED
      BY <1>6, <2>1
  <1> DEFINE T == {i \in 0 .. N : Node[i] \in Nat}
  <1>9. 0 \in T
    BY <1>1, <1>7
  <1>10. ASSUME NEW n \in Ids, n \in T PROVE n + 1 \in T
    <2>1. n + 1 \in 0 .. N
      BY <1>1 DEF Ids
    <2>2. Node[n] + Header + CfgLen(n) \in Nat
      BY <1>10, Sizes
    <2> QED
      BY <1>8, <2>1, <2>2
  <1>11. \A n \in 0 .. N : Node[n] \in Nat
    <2>1. \A n \in 0 .. N : n \in T
      <3> HIDE DEF T
      <3> QED
        BY <1>9, <1>10, TableInduction
    <2> QED
      BY <2>1
  <1>12. DOMAIN Node = 0 .. N /\ Node = [i \in 0 .. N |-> Node[i]]
    BY <1>5
  <1> QED
    BY <1>5, <1>7, <1>8, <1>11, <1>12

(* A value, with its header, ends before every later node.                 *)
LEMMA NodesApart ==
    \A i \in Ids : \A j \in 0 .. N : i < j => Node[i] + Header + CfgLen(i) <= Node[j]
  <1> SUFFICES ASSUME NEW i \in Ids
               PROVE  \A j \in 0 .. N : i < j => Node[i] + Header + CfgLen(i) <= Node[j]
    OBVIOUS
  <1> DEFINE T == {j \in 0 .. N : i < j => Node[i] + Header + CfgLen(i) <= Node[j]}
  <1>1. N \in Nat /\ i \in 0 .. N /\ CfgLen(i) \in Nat /\ Header \in Nat
    BY Sizes DEF Ids
  <1>2. 0 \in T
    BY <1>1
  <1>3. ASSUME NEW n \in Ids, n \in T PROVE n + 1 \in T
    <2>1. n \in 0 .. N /\ n + 1 \in 0 .. N /\ CfgLen(n) \in Nat
      BY <1>1, Sizes DEF Ids
    <2>2. Node[n + 1] = Node[n] + Header + CfgLen(n) /\ Node[n] \in Nat /\ Node[i] \in Nat
      BY <1>1, <2>1, NodeDefined
    <2>3. CASE i < n
      <3>1. Node[i] + Header + CfgLen(i) <= Node[n]
        BY <1>3, <2>3
      <3> QED
        BY <1>1, <2>1, <2>2, <3>1
    <2>4. CASE i = n
      BY <1>1, <2>1, <2>2, <2>4
    <2>5. CASE i > n
      BY <1>1, <2>1, <2>5
    <2> QED
      BY <1>1, <2>1, <2>3, <2>4, <2>5
  <1>4. \A n \in 0 .. N : n \in T
    <2> HIDE DEF T
    <2> QED
      BY <1>2, <1>3, TableInduction
  <1> QED
    BY <1>4

(* The nodes and the places of the values are in the memory, and all       *)
(* different.                                                              *)
LEMMA Layout ==
    /\ \A i \in 0 .. N : Node[i] \in Ram
    /\ \A i \in 0 .. N : \A j \in 0 .. N : Node[i] = Node[j] => i = j
    /\ \A i \in Ids : \A k \in 1 .. CfgLen(i) :
         /\ Value(i) + k - 1 \in Ram
         /\ \A j \in 0 .. N : Value(i) + k - 1 # Node[j]
    /\ \A i \in Ids : \A j \in Ids : \A k \in 1 .. CfgLen(i) : \A l \in 1 .. CfgLen(j) :
         Value(i) + k - 1 = Value(j) + l - 1 => i = j /\ k = l
  <1>1. N \in Nat /\ Header \in Nat /\ Header > 1 /\ Ids \subseteq 0 .. N /\ N \in 0 .. N
    BY Sizes DEF Ids
  <1>2. \A i \in 0 .. N : Node[i] \in Nat
    BY NodeDefined
  <1>3. ASSUME NEW i \in 0 .. N, i # N PROVE i \in Ids
    BY <1>1, <1>3 DEF Ids
  <1>4. ASSUME NEW i \in 0 .. N, NEW j \in 0 .. N, i < j
        PROVE  /\ i \in Ids /\ CfgLen(i) \in Nat
               /\ Node[i] + Header + CfgLen(i) <= Node[j]
               /\ Node[i] < Node[j]
    <2>1. i \in Ids
      BY <1>1, <1>4 DEF Ids
    <2>2. CfgLen(i) \in Nat /\ Node[i] + Header + CfgLen(i) <= Node[j]
      BY <1>4, <2>1, NodesApart, Sizes
    <2> QED
      BY <1>1, <1>2, <2>1, <2>2
  <1>5. ASSUME NEW i \in 0 .. N PROVE Node[i] \in Ram
    <2>1. CASE i = N
      BY <1>1, <1>2, <2>1 DEF Ram
    <2>2. CASE i < N
      BY <1>1, <1>2, <1>4, <2>2 DEF Ram
    <2> QED
      BY <1>1, <2>1, <2>2
  <1>6. ASSUME NEW i \in 0 .. N, NEW j \in 0 .. N, Node[i] = Node[j] PROVE i = j
    <2>1. ~(Node[i] < Node[j]) /\ ~(Node[j] < Node[i])
      BY <1>2, <1>6
    <2>2. ~(i < j) /\ ~(j < i)
      BY <1>4, <2>1
    <2> QED
      BY <1>1, <2>2
  <1>7. ASSUME NEW i \in Ids, NEW k \in 1 .. CfgLen(i)
        PROVE  /\ Value(i) + k - 1 \in Nat
               /\ Node[i] < Value(i) + k - 1 /\ Value(i) + k - 1 < Node[N]
               /\ \A j \in 0 .. N : i < j => Value(i) + k - 1 < Node[j]
    <2>1. i \in 0 .. N /\ i < N /\ CfgLen(i) \in Nat
      BY <1>1, Sizes DEF Ids
    <2>2. ASSUME NEW j \in 0 .. N, i < j PROVE Value(i) + k - 1 < Node[j]
      BY <1>1, <1>2, <1>4, <2>1, <2>2 DEF Value
    <2>3. Value(i) + k - 1 \in Nat /\ Node[i] < Value(i) + k - 1
      BY <1>1, <1>2, <2>1 DEF Value
    <2> QED
      BY <1>1, <2>1, <2>2, <2>3
  <1>8. ASSUME NEW i \in Ids, NEW k \in 1 .. CfgLen(i)
        PROVE  /\ Value(i) + k - 1 \in Ram
               /\ \A j \in 0 .. N : Value(i) + k - 1 # Node[j]
    <2>1. Value(i) + k - 1 \in Ram
      BY <1>1, <1>2, <1>7 DEF Ram
    <2>2. ASSUME NEW j \in 0 .. N, Value(i) + k - 1 = Node[j] PROVE FALSE
      <3>1. i \in 0 .. N /\ Node[i] \in Nat /\ Node[j] \in Nat
        BY <1>1, <1>2
      <3>2. Node[i] < Node[j]
        BY <1>7, <2>2
      <3>3. ~(i < j)
        BY <1>7, <2>2, <3>1
      <3>4. ~(j < i) /\ i # j
        BY <1>4, <3>1, <3>2
      <3> QED
        BY <1>1, <3>1, <3>3, <3>4
    <2> QED
      BY <2>1, <2>2
  <1>9. ASSUME NEW i \in Ids, NEW j \in Ids, NEW k \in 1 .. CfgLen(i), NEW l \in 1 .. CfgLen(j),
               Value(i) + k - 1 = Value(j) + l - 1
        PROVE  i = j /\ k = l
    <2>1. i \in 0 .. N /\ j \in 0 .. N /\ CfgLen(i) \in Nat /\ Node[i] \in Nat /\ Node[j] \in Nat
      BY <1>1, <1>2, Sizes
    <2>2. ~(i < j)
      <3> SUFFICES ASSUME i < j PROVE FALSE
        OBVIOUS
      <3>1. Value(i) + k - 1 < Node[j]
        BY <1>7, <2>1
      <3> QED
        BY <1>7, <1>9, <2>1, <3>1
    <2>3. ~(j < i)
      <3> SUFFICES ASSUME j < i PROVE FALSE
        OBVIOUS
      <3>1. Value(j) + l - 1 < Node[i]
        BY <1>7, <2>1
      <3> QED
        BY <1>7, <1>9, <2>1, <3>1
    <2>4. i = j
      BY <1>1, <2>1, <2>2, <2>3
    <2> QED
      BY <1>1, <1>9, <2>1, <2>4 DEF Value
  <1> QED
    BY <1>5, <1>6, <1>8, <1>9
-----------------------------------------------------------------------------
(* The invariant.                                                          *)

(* The bytes are numbers, and no string holds a zero.                      *)
CfgTypes ==
    /\ mem \in [Ram -> Nat]
    /\ latest \in [Ids -> Seq(Nat \ {0})]
    /\ longest \in [Ids -> Nat]

(* Each id stands at its node; the byte behind the last value is zero.     *)
IdsStand ==
    /\ \A i \in Ids : mem[Node[i]] = i
    /\ mem[Node[N]] = 0

(* A value begins with the string last set, as far as it had room, and is  *)
(* zero behind the longest.                                                *)
ValuesHold == \A i \in Ids :
    /\ Len(latest[i]) <= longest[i]
    /\ \A k \in 1 .. CfgLen(i) :
         /\ k <= Len(latest[i]) => mem[Value(i) + k - 1] = latest[i][k]
         /\ k > longest[i] => mem[Value(i) + k - 1] = 0

CfgInv == CfgTypes /\ IdsStand /\ ValuesHold

(* cfg_init builds such a memory.                                          *)
LEMMA CfgInit == Init => CfgInv
  <1> SUFFICES ASSUME Init PROVE CfgInv
    OBVIOUS
  <1>1. mem = [a \in Ram |-> IF \E i \in Ids : a = Node[i] THEN CHOOSE i \in Ids : a = Node[i] ELSE 0]
    BY DEF Init
  <1>2. Ids \subseteq 0 .. N /\ Ids \subseteq Nat /\ N \notin Ids /\ N \in 0 .. N
    BY Sizes DEF Ids
  <1>3. \A a \in Ram : (\E i \in Ids : a = Node[i]) => (CHOOSE i \in Ids : a = Node[i]) \in Ids
    OBVIOUS
  <1>4. \A i \in Ids : latest[i] = << >> /\ longest[i] = 0
    BY DEF Init
  <1>5. CfgTypes
    <2>1. mem \in [Ram -> Nat]
      BY <1>1, <1>2, <1>3
    <2> QED
      BY <2>1, EmptySeq DEF Init, CfgTypes
  <1>6. IdsStand
    <2>1. ASSUME NEW i \in Ids PROVE mem[Node[i]] = i
      <3>1. Node[i] \in Ram /\ \A j \in Ids : Node[i] = Node[j] => j = i
        BY <1>2, Layout
      <3>2. (CHOOSE j \in Ids : Node[i] = Node[j]) = i
        BY <3>1
      <3> QED
        BY <1>1, <3>1, <3>2
    <2>2. Node[N] \in Ram /\ ~\E i \in Ids : Node[N] = Node[i]
      BY <1>2, Layout
    <2>3. mem[Node[N]] = 0
      BY <1>1, <2>2
    <2> QED
      BY <2>1, <2>3 DEF IdsStand
  <1>7. ValuesHold
    <2>1. ASSUME NEW i \in Ids, NEW k \in 1 .. CfgLen(i) PROVE mem[Value(i) + k - 1] = 0
      <3>1. Value(i) + k - 1 \in Ram /\ ~\E j \in Ids : Value(i) + k - 1 = Node[j]
        BY <1>2, Layout
      <3> QED
        BY <1>1, <3>1
    <2>2. \A i \in Ids : Len(latest[i]) = 0
      BY <1>4
    <2>3. \A i \in Ids : \A k \in 1 .. CfgLen(i) : ~(k <= 0)
      BY Sizes
    <2> QED
      BY <1>4, <2>1, <2>2, <2>3 DEF ValuesHold
  <1> QED
    BY <1>5, <1>6, <1>7 DEF CfgInv

(* A walk finds an id of the table, at its own node and nowhere else, and  *)
(* no other.                                                               *)
LEMMA WalkFinds ==
    ASSUME IdsStand
    PROVE  /\ \A i \in Ids : Matches(i) = {i} /\ Found(i) = i
           /\ \A id \in 0 .. N : Matches(id) # {} => id \in Ids
  <1>1. ASSUME NEW i \in Ids PROVE Matches(i) = {i} /\ Found(i) = i
    <2>1. Matches(i) = {i}
      BY DEF Matches, IdsStand
    <2>2. i <= i
      BY Sizes DEF Ids
    <2>3. (CHOOSE j \in {i} : \A l \in {i} : j <= l) = i
      BY <2>2
    <2> QED
      BY <2>1, <2>3 DEF Found
  <1> QED
    BY <1>1 DEF Matches, IdsStand

(* A set changes the beginning of its own value, and no other byte.        *)
LEMMA SetChanges ==
    ASSUME CfgInv, NEW id \in Ids, NEW val \in Data, CfgSet(id, val)
    PROVE  /\ val \in Seq(Nat \ {0}) /\ Len(val) \in Nat
           /\ mem' \in [Ram -> Nat]
           /\ \A i \in 0 .. N : mem'[Node[i]] = mem[Node[i]]
           /\ \A i \in Ids : \A k \in 1 .. CfgLen(i) :
                mem'[Value(i) + k - 1] = IF i = id /\ k <= Len(val) THEN val[k]
                                         ELSE mem[Value(i) + k - 1]
           /\ latest' = [latest EXCEPT ![id] = val]
           /\ longest' = [longest EXCEPT ![id] = IF Len(val) > @ THEN Len(val) ELSE @]
  <1> DEFINE n == Clip(id, Len(val))
             a == Value(id)
  <1>1. Found(id) = id
    BY WalkFinds DEF CfgInv
  <1>2. /\ mem' = [b \in Ram |-> IF b \in a .. a + n - 1 THEN val[b - a + 1] ELSE mem[b]]
        /\ latest' = [latest EXCEPT ![id] = val]
        /\ longest' = [longest EXCEPT ![id] = IF Len(val) > @ THEN Len(val) ELSE @]
    BY <1>1 DEF CfgSet
  <1>3. val \in Seq(Nat \ {0})
    BY TableAssumption
  <1>4. Len(val) \in Nat /\ \A k \in 1 .. Len(val) : val[k] \in Nat
    BY <1>3
  <1>5. /\ CfgLen(id) \in Nat /\ n \in Nat /\ n <= CfgLen(id) /\ n <= Len(val)
        /\ \A k \in 1 .. CfgLen(id) : k <= n <=> k <= Len(val)
    BY <1>4, Sizes DEF Clip, Min2
  <1>6. a \in Nat
    <2>1. Node[id] \in Nat
      BY NodeDefined, Sizes DEF Ids
    <2> QED
      BY <2>1, Sizes DEF Value
  <1> HIDE DEF n, a
  <1>7. mem' \in [Ram -> Nat]
    <2>1. ASSUME NEW b \in Ram, b \in a .. a + n - 1 PROVE val[b - a + 1] \in Nat
      <3>1. b - a + 1 \in 1 .. n
        BY <1>5, <1>6, <2>1
      <3> QED
        BY <1>4, <1>5, <3>1
    <2>2. \A b \in Ram : mem[b] \in Nat
      BY DEF CfgInv, CfgTypes
    <2> QED
      BY <1>2, <2>1, <2>2
  <1>8. ASSUME NEW b \in a .. a + n - 1
        PROVE  b - a + 1 \in 1 .. CfgLen(id) /\ b = Value(id) + (b - a + 1) - 1
    BY <1>5, <1>6 DEF a
  <1>9. ASSUME NEW i \in 0 .. N PROVE mem'[Node[i]] = mem[Node[i]]
    <2>1. Node[i] \in Ram /\ Node[i] \notin a .. a + n - 1
      BY <1>8, Layout
    <2> QED
      BY <1>2, <2>1
  <1>10. ASSUME NEW i \in Ids, NEW k \in 1 .. CfgLen(i)
         PROVE  mem'[Value(i) + k - 1] = IF i = id /\ k <= Len(val) THEN val[k]
                                         ELSE mem[Value(i) + k - 1]
    <2>1. PICK b \in Ram : b = Value(i) + k - 1
      BY Layout
    <2>2. mem'[b] = IF b \in a .. a + n - 1 THEN val[b - a + 1] ELSE mem[b]
      BY <1>2
    <2>3. CASE i = id /\ k <= Len(val)
      <3>1. b = a + k - 1 /\ k \in Nat /\ k >= 1 /\ k <= n
        BY <1>5, <2>1, <2>3 DEF a
      <3>2. b \in a .. a + n - 1 /\ b - a + 1 = k
        BY <1>5, <1>6, <3>1
      <3>3. mem'[b] = val[k]
        BY <2>2, <3>2
      <3> QED
        BY <2>1, <2>3, <3>3
    <2>4. CASE ~(i = id /\ k <= Len(val))
      <3>1. ASSUME b \in a .. a + n - 1 PROVE FALSE
        <4>1. PICK l \in 1 .. CfgLen(id) : l = b - a + 1 /\ b = Value(id) + l - 1
          BY <1>8, <3>1
        <4>2. i = id /\ k = l
          BY <2>1, <4>1, Layout
        <4>3. l <= n
          BY <1>5, <1>6, <3>1, <4>1
        <4> QED
          BY <1>5, <2>4, <4>2, <4>3
      <3> QED
        BY <2>1, <2>2, <2>4, <3>1
    <2> QED
      BY <2>3, <2>4
  <1> QED
    BY <1>2, <1>3, <1>4, <1>7, <1>9, <1>10

(* Every step keeps the invariant.                                         *)
LEMMA CfgStep == CfgInv /\ [Next]_vars => CfgInv'
  <1> SUFFICES ASSUME CfgInv, [Next]_vars PROVE CfgInv'
    OBVIOUS
  <1>1. ASSUME NEW id \in Ids, NEW val \in Data, CfgSet(id, val)
        PROVE  CfgInv'
    <2>1. /\ val \in Seq(Nat \ {0}) /\ Len(val) \in Nat
          /\ mem' \in [Ram -> Nat]
          /\ \A i \in 0 .. N : mem'[Node[i]] = mem[Node[i]]
          /\ \A i \in Ids : \A k \in 1 .. CfgLen(i) :
               mem'[Value(i) + k - 1] = IF i = id /\ k <= Len(val) THEN val[k]
                                        ELSE mem[Value(i) + k - 1]
          /\ latest' = [latest EXCEPT ![id] = val]
          /\ longest' = [longest EXCEPT ![id] = IF Len(val) > @ THEN Len(val) ELSE @]
      BY <1>1, SetChanges
    <2>2. CfgTypes /\ IdsStand /\ ValuesHold
      BY DEF CfgInv
    <2>3. CfgTypes'
      BY <2>1, <2>2 DEF CfgTypes
    <2>4. IdsStand'
      <3>1. Ids \subseteq 0 .. N /\ N \in 0 .. N
        BY Sizes DEF Ids
      <3> QED
        BY <2>1, <2>2, <3>1 DEF IdsStand
    <2>5. ASSUME NEW i \in Ids
          PROVE  /\ Len(latest'[i]) <= longest'[i]
                 /\ \A k \in 1 .. CfgLen(i) :
                      /\ k <= Len(latest'[i]) => mem'[Value(i) + k - 1] = latest'[i][k]
                      /\ k > longest'[i] => mem'[Value(i) + k - 1] = 0
      <3>1. /\ longest[i] \in Nat /\ CfgLen(i) \in Nat
            /\ Len(latest[i]) <= longest[i]
            /\ \A k \in 1 .. CfgLen(i) :
                 /\ k <= Len(latest[i]) => mem[Value(i) + k - 1] = latest[i][k]
                 /\ k > longest[i] => mem[Value(i) + k - 1] = 0
        BY <2>2, Sizes DEF CfgTypes, ValuesHold
      <3>2. CASE i = id
        <4>1. latest'[i] = val /\ longest'[i] = IF Len(val) > longest[i] THEN Len(val) ELSE longest[i]
          BY <2>1, <2>2, <3>2 DEF CfgTypes
        <4>2. \A k \in 1 .. CfgLen(i) :
                mem'[Value(i) + k - 1] = IF k <= Len(val) THEN val[k] ELSE mem[Value(i) + k - 1]
          BY <2>1, <3>2
        <4>3. \A k \in 1 .. CfgLen(i) : k > longest'[i] => k > longest[i] /\ ~(k <= Len(val))
          BY <2>1, <3>1, <4>1
        <4>4. Len(val) <= longest'[i]
          BY <2>1, <3>1, <4>1
        <4> QED
          BY <3>1, <4>1, <4>2, <4>3, <4>4
      <3>3. CASE i # id
        <4>1. latest'[i] = latest[i] /\ longest'[i] = longest[i]
          BY <2>1, <2>2, <3>3 DEF CfgTypes
        <4>2. \A k \in 1 .. CfgLen(i) : mem'[Value(i) + k - 1] = mem[Value(i) + k - 1]
          BY <2>1, <3>3
        <4> QED
          BY <3>1, <4>1, <4>2
      <3> QED
        BY <3>2, <3>3
    <2>6. ValuesHold'
      BY <2>5 DEF ValuesHold
    <2> QED
      BY <2>3, <2>4, <2>6 DEF CfgInv
  <1>2. CASE UNCHANGED <<mem, latest, longest>>
    BY <1>2 DEF CfgInv, CfgTypes, IdsStand, ValuesHold
  <1> QED
    BY <1>1, <1>2 DEF Next, CfgSetUnknown, vars

(* The invariant holds always.                                             *)
LEMMA CfgAlways == Spec => []CfgInv
  BY CfgInit, CfgStep, PTL DEF Spec

(* Whatever is set, however long, every id is found at its own node and    *)
(* nowhere else: no value runs over into the node behind it, on which      *)
(* every later walk depends.                                               *)
THEOREM NodesStay == Spec => []NodesStand
  <1>1. CfgInv => NodesStand
    BY WalkFinds DEF CfgInv, CfgTypes, IdsStand, NodesStand
  <1> QED
    BY <1>1, CfgAlways, PTL
-----------------------------------------------------------------------------
(* Reading back.                                                           *)

(* The C string at a value ends where the string last set did, when that   *)
(* was the longest and leaves room for a zero.                             *)
LEMMA StringEnds ==
    ASSUME CfgInv, NEW i \in Ids, Len(latest[i]) = longest[i], longest[i] < CfgLen(i)
    PROVE  EndOfString(Value(i)) = Value(i) + Len(latest[i])
  <1> DEFINE L == Len(latest[i])
             a == Value(i)
             Ends(e) == e >= a /\ mem[e] = 0 /\ \A b \in a .. e - 1 : mem[b] # 0
  <1>1. latest[i] \in Seq(Nat \ {0}) /\ L \in Nat /\ \A k \in 1 .. L : latest[i][k] # 0
    BY DEF CfgInv, CfgTypes
  <1>2. CfgLen(i) \in Nat /\ a \in Nat
    <2>1. Node[i] \in Nat
      BY NodeDefined, Sizes DEF Ids
    <2> QED
      BY <2>1, Sizes DEF Value
  <1>3. \A k \in 1 .. CfgLen(i) :
          /\ k <= L => mem[a + k - 1] = latest[i][k]
          /\ k > L => mem[a + k - 1] = 0
    BY DEF CfgInv, ValuesHold
  <1>4. a + L \in Ram /\ mem[a + L] = 0
    <2>1. L + 1 \in 1 .. CfgLen(i) /\ a + (L + 1) - 1 = a + L /\ L + 1 > L
      BY <1>1, <1>2
    <2>2. a + (L + 1) - 1 \in Ram /\ mem[a + (L + 1) - 1] = 0
      BY <1>3, <2>1, Layout
    <2> QED
      BY <2>1, <2>2
  <1>5. ASSUME NEW b \in a .. a + L - 1 PROVE mem[b] # 0
    <2>1. b - a + 1 \in 1 .. CfgLen(i) /\ b - a + 1 \in 1 .. L /\ a + (b - a + 1) - 1 = b
      BY <1>1, <1>2, SMTT(30)
    <2> QED
      BY <1>1, <1>3, <2>1
  <1>6. Ends(a + L)
    BY <1>1, <1>2, <1>4, <1>5
  <1>7. ASSUME NEW e \in Ram, Ends(e) PROVE e = a + L
    <2>1. e \in Int
      BY <1>7 DEF Ram
    <2>2. ~(e < a + L)
      <3> SUFFICES ASSUME e < a + L PROVE FALSE
        OBVIOUS
      <3>1. e \in a .. a + L - 1
        BY <1>1, <1>2, <1>7, <2>1
      <3> QED
        BY <1>5, <1>7, <3>1
    <2>3. ~(e > a + L)
      <3> SUFFICES ASSUME e > a + L PROVE FALSE
        OBVIOUS
      <3>1. a + L \in a .. e - 1
        BY <1>1, <1>2, <2>1
      <3> QED
        BY <1>4, <1>7, <3>1
    <2> QED
      BY <1>1, <1>2, <2>1, <2>2, <2>3
  <1>8. EndOfString(a) = CHOOSE e \in Ram : Ends(e)
    BY DEF EndOfString
  <1> HIDE DEF Ends, L, a
  <1>9. EndOfString(a) = a + L
    BY <1>4, <1>6, <1>7, <1>8
  <1> QED
    BY <1>9 DEF L, a

(* A string reads back through the bare pointer as it was set, unless it   *)
(* filled its place or was shorter than one before it.                     *)
THEOREM StringsReadBack == Spec => []StringReadsBack
  <1>1. ASSUME CfgInv PROVE StringReadsBack
    <2> SUFFICES ASSUME NEW i \in Ids, latest[i] # << >>, Len(latest[i]) = longest[i],
                        longest[i] < CfgLen(i)
                 PROVE  CfgGetPtr(i) = latest[i]
      BY DEF StringReadsBack
    <2> DEFINE L == Len(latest[i])
               a == Value(i)
    <2>1. latest[i] \in Seq(Nat \ {0}) /\ L \in Nat /\ CfgLen(i) \in Nat
      BY <1>1, Sizes DEF CfgInv, CfgTypes
    <2>2. a \in Nat
      <3>1. Node[i] \in Nat
        BY NodeDefined, Sizes DEF Ids
      <3> QED
        BY <3>1, Sizes DEF Value
    <2>3. Matches(i) # {} /\ Found(i) = i
      BY <1>1, WalkFinds DEF CfgInv
    <2>4. CfgGetPtr(i) = [k \in 1 .. EndOfString(a) - a |-> mem[a + k - 1]]
      BY <2>3 DEF CfgGetPtr
    <2>5. EndOfString(a) - a = L
      <3>1. EndOfString(a) = a + L
        BY <1>1, StringEnds
      <3> QED
        BY <2>1, <2>2, <3>1
    <2>6. ASSUME NEW k \in 1 .. L PROVE mem[a + k - 1] = latest[i][k]
      <3>1. k \in 1 .. CfgLen(i) /\ k <= Len(latest[i])
        BY <2>1
      <3> QED
        BY <1>1, <3>1 DEF CfgInv, ValuesHold
    <2>7. latest[i] = [k \in 1 .. L |-> latest[i][k]]
      BY <2>1
    <2> HIDE DEF L, a
    <2> QED
      BY <2>4, <2>5, <2>6, <2>7
  <1> QED
    BY <1>1, CfgAlways, PTL
(* The C string at a value ends somewhere in the memory: the byte behind   *)
(* the last value is zero.                                                 *)
LEMMA StringHasEnd ==
    ASSUME CfgInv, NEW i \in Ids
    PROVE  LET e == EndOfString(Value(i))
           IN  /\ e \in Ram /\ e >= Value(i) /\ mem[e] = 0
               /\ \A b \in Value(i) .. e - 1 : mem[b] # 0
  <1> DEFINE a == Value(i)
             Zeros == {e \in Ram : e >= a /\ mem[e] = 0}
             Ends(e) == e >= a /\ mem[e] = 0 /\ \A b \in a .. e - 1 : mem[b] # 0
  <1>1. a \in Nat /\ Node[N] \in Nat /\ a <= Node[N]
    <2>1. i \in 0 .. N /\ N \in 0 .. N /\ i < N
      BY Sizes DEF Ids
    <2>2. Node[i] \in Nat /\ Node[N] \in Nat /\ CfgLen(i) \in Nat /\ Header \in Nat
      BY <2>1, NodeDefined, Sizes
    <2>3. Node[i] + Header + CfgLen(i) <= Node[N]
      BY <2>1, NodesApart
    <2> QED
      BY <2>2, <2>3 DEF Value
  <1>2. Node[N] \in Zeros
    BY <1>1 DEF CfgInv, IdsStand, Ram
  <1>3. Zeros \subseteq Nat /\ Zeros # {}
    BY <1>1, <1>2 DEF Ram
  <1>4. PICK x \in Zeros : \A y \in Zeros : x <= y
    <2> HIDE DEF Zeros
    <2> QED
      BY <1>3, LeastNumber
  <1>5. x \in Ram /\ x >= a /\ mem[x] = 0 /\ x \in Nat
    BY <1>3, <1>4
  <1>6. ASSUME NEW b \in a .. x - 1 PROVE mem[b] # 0
    <2>1. b \in Ram /\ b >= a /\ ~(x <= b)
      BY <1>1, <1>5 DEF Ram
    <2> QED
      BY <1>4, <2>1
  <1>7. Ends(x)
    BY <1>5, <1>6
  <1>8. EndOfString(a) = CHOOSE e \in Ram : Ends(e)
    BY DEF EndOfString
  <1>9. EndOfString(a) \in Ram /\ Ends(EndOfString(a))
    <2> HIDE DEF Ends, a
    <2> QED
      BY <1>5, <1>7, <1>8
  <1> QED
    BY <1>9

(* The bytes of a value, as far as any string set reached, are not zero:   *)
(* what a shorter string does not overlay is left of a longer one.         *)
NoGaps == \A i \in Ids : \A k \in 1 .. CfgLen(i) : k <= longest[i] => mem[Value(i) + k - 1] # 0

(* No set makes a gap.                                                     *)
LEMMA GapsStep == CfgInv /\ NoGaps /\ [Next]_vars => NoGaps'
  <1> SUFFICES ASSUME CfgInv, NoGaps, [Next]_vars PROVE NoGaps'
    OBVIOUS
  <1>1. ASSUME NEW id \in Ids, NEW val \in Data, CfgSet(id, val),
               NEW i \in Ids, NEW k \in 1 .. CfgLen(i), k <= longest'[i]
        PROVE  mem'[Value(i) + k - 1] # 0
    <2>1. /\ val \in Seq(Nat \ {0}) /\ Len(val) \in Nat
          /\ mem'[Value(i) + k - 1] = IF i = id /\ k <= Len(val) THEN val[k]
                                      ELSE mem[Value(i) + k - 1]
          /\ longest' = [longest EXCEPT ![id] = IF Len(val) > @ THEN Len(val) ELSE @]
      BY <1>1, SetChanges
    <2>2. longest \in [Ids -> Nat] /\ CfgLen(i) \in Nat
      BY Sizes DEF CfgInv, CfgTypes
    <2>3. CASE i = id /\ k <= Len(val)
      <3>1. val[k] # 0
        BY <2>1, <2>2, <2>3
      <3> QED
        BY <2>1, <2>3, <3>1
    <2>4. CASE ~(i = id /\ k <= Len(val))
      <3>1. k <= longest[i]
        BY <1>1, <2>1, <2>2, <2>4
      <3> QED
        BY <2>1, <2>4, <3>1 DEF NoGaps
    <2> QED
      BY <2>3, <2>4
  <1>2. ASSUME NEW id \in Ids, NEW val \in Data, CfgSet(id, val) PROVE NoGaps'
    BY <1>1, <1>2 DEF NoGaps
  <1>3. CASE UNCHANGED <<mem, latest, longest>>
    BY <1>3 DEF NoGaps
  <1> QED
    BY <1>2, <1>3 DEF Next, CfgSetUnknown, vars

(* What a caller of cfg_get_ptr has in hand, whatever was set before.  It  *)
(* begins with what was set last, cut at the size of the value, and is as  *)
(* long as the longest string that was ever set.  Once one was set that    *)
(* fills the value, it is read on into the header of the next one, whose   *)
(* id is not zero; only behind the last value does it end where it should. *)
PointerReads(i) ==
    LET s == CfgGetPtr(i)
        n == Min2(Len(latest[i]), CfgLen(i))
    IN  /\ Len(s) >= n /\ \A k \in 1 .. n : s[k] = latest[i][k]
        /\ IF longest[i] < CfgLen(i) THEN Len(s) = longest[i]
           ELSE IF i + 1 \in Ids THEN Len(s) > CfgLen(i) ELSE Len(s) = CfgLen(i)

(* Every value always reads so through its pointer: no zero byte is ever   *)
(* stored, so neither a shorter string nor any later one brings an end of  *)
(* the string back.                                                        *)
THEOREM PointersRead == Spec => [](\A i \in Ids : PointerReads(i))
  <1>1. ASSUME CfgInv, NoGaps, NEW i \in Ids PROVE PointerReads(i)
    <2> DEFINE a == Value(i)
               e == EndOfString(a)
               s == CfgGetPtr(i)
               L == Len(latest[i])
               C == CfgLen(i)
               n == Min2(L, C)
    <2>1. latest[i] \in Seq(Nat \ {0}) /\ L \in Nat /\ longest[i] \in Nat /\ L <= longest[i]
      BY <1>1 DEF CfgInv, CfgTypes, ValuesHold
    <2>2. a \in Nat /\ C \in Nat /\ C > 0 /\ Node[N] \in Nat
      <3>1. Node[i] \in Nat /\ Node[N] \in Nat
        BY NodeDefined, Sizes DEF Ids
      <3> QED
        BY <3>1, Sizes DEF Value
    <2>3. e \in Nat /\ e >= a /\ mem[e] = 0 /\ \A b \in a .. e - 1 : mem[b] # 0
      <3>1. e \in Ram /\ e >= a /\ mem[e] = 0 /\ \A b \in a .. e - 1 : mem[b] # 0
        BY <1>1, StringHasEnd
      <3> QED
        BY <2>2, <3>1 DEF Ram
    <2>4. Matches(i) # {} /\ Found(i) = i
      BY <1>1, WalkFinds DEF CfgInv
    <2>5. s = [k \in 1 .. e - a |-> mem[a + k - 1]]
      BY <2>4 DEF CfgGetPtr
    <2>6. \A k \in 1 .. C :
            /\ k <= L => mem[a + k - 1] = latest[i][k]
            /\ k <= longest[i] => mem[a + k - 1] # 0
            /\ k > longest[i] => mem[a + k - 1] = 0
      <3>1. \A k \in 1 .. C :
              /\ k <= L => mem[a + k - 1] = latest[i][k]
              /\ k > longest[i] => mem[a + k - 1] = 0
        BY <1>1 DEF CfgInv, ValuesHold
      <3>2. \A k \in 1 .. C : k <= longest[i] => mem[a + k - 1] # 0
        BY <1>1 DEF NoGaps
      <3> QED
        BY <3>1, <3>2
    <2> HIDE DEF a, e, L, C, s
    <2>7. Len(s) = e - a /\ \A k \in 1 .. e - a : s[k] = mem[a + k - 1]
      BY <2>2, <2>3, <2>5
    <2>8. n \in Nat /\ n <= L /\ n <= C
      BY <2>1, <2>2 DEF Min2
    <2> HIDE DEF n
    <2>9. ASSUME NEW m \in Nat, m <= C, m <= longest[i] PROVE e - a >= m
      <3> SUFFICES ASSUME e - a < m PROVE FALSE
        BY <2>2, <2>3
      <3>1. e - a + 1 \in 1 .. C /\ e - a + 1 <= longest[i] /\ a + (e - a + 1) - 1 = e
        BY <2>1, <2>2, <2>3, <2>9
      <3> QED
        BY <2>3, <2>6, <3>1
    <2>10. e - a >= n /\ (longest[i] >= C => e - a >= C)
      BY <2>1, <2>2, <2>8, <2>9
    <2>11. \A k \in 1 .. n : s[k] = latest[i][k]
      <3> SUFFICES ASSUME NEW k \in 1 .. n PROVE s[k] = latest[i][k]
        OBVIOUS
      <3>1. k \in 1 .. C /\ k <= L /\ k \in 1 .. e - a
        BY <2>1, <2>2, <2>3, <2>8, <2>10
      <3> QED
        BY <2>6, <2>7, <3>1
    <2>12. ASSUME longest[i] < C PROVE e - a = longest[i]
      <3> SUFFICES ASSUME e - a > longest[i] PROVE FALSE
        BY <2>1, <2>2, <2>3, <2>9, <2>12
      <3>1. longest[i] + 1 \in 1 .. C /\ longest[i] + 1 > longest[i]
        BY <2>1, <2>2, <2>12
      <3>2. a + (longest[i] + 1) - 1 \in a .. e - 1
        BY <2>1, <2>2, <2>3
      <3> QED
        BY <2>3, <2>6, <3>1, <3>2
    <2>13. ASSUME ~(longest[i] < C), i + 1 \in Ids PROVE e - a > C
      <3>1. Node[i + 1] = a + C /\ mem[Node[i + 1]] = i + 1 /\ i + 1 # 0
        <4>1. Node[i + 1] = Node[i] + Header + CfgLen(i)
          BY NodeDefined
        <4>2. mem[Node[i + 1]] = i + 1
          BY <1>1, <2>13 DEF CfgInv, IdsStand
        <4> QED
          BY <4>1, <4>2, Sizes DEF a, C, Value, Ids
      <3>2. e # a + C
        BY <2>3, <3>1
      <3> QED
        BY <2>1, <2>2, <2>3, <2>10, <2>13, <3>2
    <2>14. ASSUME ~(longest[i] < C), i + 1 \notin Ids PROVE e - a = C
      <3>1. i + 1 = N
        BY <2>14, Sizes DEF Ids
      <3>2. Node[N] = a + C
        <4>1. Node[i + 1] = Node[i] + Header + CfgLen(i)
          BY NodeDefined
        <4> QED
          BY <3>1, <4>1 DEF a, C, Value
      <3>3. e <= Node[N]
        <4>1. e \in Ram
          BY <1>1, StringHasEnd DEF e, a
        <4> QED
          BY <2>2, <4>1 DEF Ram
      <3> QED
        BY <2>1, <2>2, <2>3, <2>10, <2>14, <3>2, <3>3
    <2>15. /\ Len(s) >= n /\ \A k \in 1 .. n : s[k] = latest[i][k]
           /\ IF longest[i] < C THEN Len(s) = longest[i]
              ELSE IF i + 1 \in Ids THEN Len(s) > C ELSE Len(s) = C
      BY <2>7, <2>11, <2>12, <2>13, <2>14, <2>10
    <2> QED
      BY <2>15 DEF PointerReads, s, n, L, C
  <1>2. CfgInv /\ NoGaps => \A i \in Ids : PointerReads(i)
    BY <1>1
  <1>3. Init => NoGaps
    BY Sizes DEF Init, NoGaps
  <1> QED
    BY <1>2, <1>3, GapsStep, CfgInit, CfgStep, PTL DEF Spec
-----------------------------------------------------------------------------
(* The refinement of CfgStore.                                             *)

(* What cfg_get returns of an id is the bytes of its own value.            *)
LEMMA GetReads ==
    CfgInv => \A i \in Ids : CfgGet(i, CfgLen(i)) = [k \in 1 .. CfgLen(i) |-> mem[Value(i) + k - 1]]
  <1> SUFFICES ASSUME CfgInv, NEW i \in Ids
               PROVE  CfgGet(i, CfgLen(i)) = [k \in 1 .. CfgLen(i) |-> mem[Value(i) + k - 1]]
    OBVIOUS
  <1>1. Matches(i) # {} /\ Found(i) = i
    BY WalkFinds DEF CfgInv
  <1>2. Min2(CfgLen(i), CfgLen(i)) = CfgLen(i)
    BY Sizes DEF Min2
  <1> QED
    BY <1>1, <1>2 DEF CfgGet

(* An empty store returns zeros.                                           *)
LEMMA StoreInit == Init => Store!Init
  <1> SUFFICES ASSUME Init PROVE Store!Init
    OBVIOUS
  <1>1. CfgInv
    BY CfgInit
  <1>2. ASSUME NEW i \in Ids
        PROVE  CfgGet(i, CfgLen(i)) = [k \in 1 .. CfgLen(i) |-> 0]
    <2>1. longest[i] = 0
      BY DEF Init
    <2>2. \A k \in 1 .. CfgLen(i) : mem[Value(i) + k - 1] = 0
      BY <1>1, <2>1, Sizes DEF CfgInv, ValuesHold
    <2>3. CfgGet(i, CfgLen(i)) = [k \in 1 .. CfgLen(i) |-> mem[Value(i) + k - 1]]
      BY <1>1, GetReads
    <2> QED
      BY <2>2, <2>3
  <1> QED
    BY <1>2 DEF Store!Init

(* A set is a set of the store.                                            *)
LEMMA StoreSet ==
    ASSUME CfgInv, CfgInv', NEW id \in Ids, NEW val \in Data, CfgSet(id, val)
    PROVE  Store!Set(id, val)
  <1> DEFINE Old == [i \in Ids |-> CfgGet(i, CfgLen(i))]
             Bytes(i) == [k \in 1 .. CfgLen(i) |-> mem[Value(i) + k - 1]]
  <1>1. \A i \in Ids : Old[i] = Bytes(i)
    BY GetReads
  <1>2. (CfgInv => \A i \in Ids :
           CfgGet(i, CfgLen(i)) = [k \in 1 .. CfgLen(i) |-> mem[Value(i) + k - 1]])'
    BY GetReads, PTL
  <1>3. \A i \in Ids :
           CfgGet(i, CfgLen(i))' = [k \in 1 .. CfgLen(i) |-> mem'[Value(i) + k - 1]]
    BY <1>2
  <1>4. /\ Len(val) \in Nat
        /\ \A i \in Ids : \A k \in 1 .. CfgLen(i) :
             mem'[Value(i) + k - 1] = IF i = id /\ k <= Len(val) THEN val[k]
                                      ELSE mem[Value(i) + k - 1]
    BY SetChanges
  <1>5. ASSUME NEW i \in Ids, i # id PROVE CfgGet(i, CfgLen(i))' = Old[i]
    <2>1. \A k \in 1 .. CfgLen(i) : mem'[Value(i) + k - 1] = mem[Value(i) + k - 1]
      BY <1>4, <1>5
    <2>2. [k \in 1 .. CfgLen(i) |-> mem'[Value(i) + k - 1]] = Bytes(i)
      BY <2>1
    <2>3. Old[i] = Bytes(i)
      BY <1>1
    <2>4. CfgGet(i, CfgLen(i))' = [k \in 1 .. CfgLen(i) |-> mem'[Value(i) + k - 1]]
      BY <1>3
    <2> HIDE DEF Old, Bytes
    <2> QED
      BY <2>2, <2>3, <2>4
  <1>6. CfgGet(id, CfgLen(id))' = [k \in 1 .. CfgLen(id) |-> IF k <= Len(val) THEN val[k] ELSE Bytes(id)[k]]
    BY <1>3, <1>4
  <1>7. Len(Bytes(id)) = CfgLen(id)
    BY Sizes
  <1>8. CfgGet(id, CfgLen(id))' = [k \in 1 .. Len(Old[id]) |-> IF k <= Len(val) THEN val[k] ELSE Old[id][k]]
    BY <1>1, <1>6, <1>7
  <1>9. CfgGet(id, CfgLen(id))' = Store!Overlay(Old[id], val)
    BY <1>8 DEF Store!Overlay
  <1>10. [i \in Ids |-> CfgGet(i, CfgLen(i))'] = [Old EXCEPT ![id] = Store!Overlay(Old[id], val)]
    BY <1>5, <1>9
  <1> QED
    BY <1>10 DEF Store!Set

(* Every step is a step of the store or leaves it as it is.                *)
LEMMA StoreStep ==
    CfgInv /\ CfgInv' /\ [Next]_vars => [Store!Next]_([i \in Ids |-> CfgGet(i, CfgLen(i))])
  <1> SUFFICES ASSUME CfgInv, CfgInv', [Next]_vars
               PROVE  [Store!Next]_([i \in Ids |-> CfgGet(i, CfgLen(i))])
    OBVIOUS
  <1>1. ASSUME NEW id \in Ids, NEW val \in Data, CfgSet(id, val)
        PROVE  Store!Next
    <2>1. Store!Set(id, val)
      BY <1>1, StoreSet
    <2> QED
      BY <2>1 DEF Store!Next
  <1>2. CASE UNCHANGED <<mem, latest, longest>>
    <2>1. \A i \in Ids : CfgGet(i, CfgLen(i))' = CfgGet(i, CfgLen(i))
      BY <1>2 DEF CfgGet, Matches, Found
    <2> QED
      BY <2>1
  <1> QED
    BY <1>1, <1>2 DEF Next, CfgSetUnknown, vars

(* The memory that is walked through implements the table of values: a set *)
(* overlays the beginning of the value of its own id and changes no other  *)
(* value.                                                                  *)
THEOREM StoreKept == Spec => ImplementsStore
  <1>1. Spec => []CfgInv
    BY CfgAlways
  <1> QED
    BY <1>1, StoreInit, StoreStep, PTL DEF Spec, ImplementsStore, Store!Spec
=============================================================================
