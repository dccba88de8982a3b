-------------------------- MODULE SlProfilesProofs --------------------------
(***************************************************************************)
(* Theorems about SlProfiles, for whichever deletions the NWP may refuse   *)
(* and any keys, with the seven places the NWP has: with fewer the two     *)
(* properties are false, for the last shift of the loop that builds a set  *)
(* puts place i at bit MaxProfiles - i.                                    *)
(*                                                                         *)
(* Both rest on what the two loops make of a byte: a set is built as the   *)
(* sum of its places' bits (BuildIsSum), and a byte that is the sum of     *)
(* some bits asks for their places (AskedOfSum) and has them as members    *)
(* (MembersOfSum).  Every byte is such a sum (EveryByteIsSum), so whatever *)
(* a client passes to remove_set is read by the convention.                *)
(***************************************************************************)
EXTENDS SlProfiles, FiniteSetTheorems, TLAPS

(* SL_WLAN_MAX_PROFILES, sl.c:17.                                          *)
Seven == MaxProfiles = 7

(* The sum of the bits of eight places, of which the last has no profile.  *)
Sum8(c) == 128 * c[0] + 64 * c[1] + 32 * c[2] + 16 * c[3]
           + 8 * c[4] + 4 * c[5] + 2 * c[6] + c[7]

(* The bits of the places of a set.                                        *)
BitsOf(S) == [i \in 0 .. 7 |-> IF i \in S /\ i # 7 THEN 1 ELSE 0]

(* A turn of the loop that builds a set doubles the byte and the bit it    *)
(* sets, while there is room.                                              *)
LEMMA Turn ==
    ASSUME NEW x \in Nat, x % 2 = 0, x < 128, NEW S, NEW i
    PROVE  LET y == Shift(IF i \in S THEN Or1(x) ELSE x)
           IN  y = 2 * x + IF i \in S THEN 2 ELSE 0
  <1>1. Or1(x) = x + 1
    BY DEF Or1
  <1>2. \A z \in 0 .. 127 : Shift(z) = 2 * z
    BY DEF Shift
  <1>3. CASE i \in S
    <2>1. x + 1 \in 0 .. 127
      OBVIOUS
    <2> QED
      BY <1>1, <1>2, <1>3, <2>1
  <1>4. CASE i \notin S
    BY <1>2, <1>4
  <1> QED
    BY <1>3, <1>4
(* The loop that builds a set adds up the bits of its places.              *)
LEMMA BuildIsSum ==
    ASSUME Seven, NEW S
    PROVE  Build(S) = Sum8(BitsOf(S))
  <1> DEFINE Is(f) == f = [i \in 0 .. MaxProfiles |->
                             IF i = 0 THEN 0
                             ELSE Shift(IF i - 1 \in S THEN Or1(f[i - 1]) ELSE f[i - 1])]
             Bit(i) == IF i \in S THEN 1 ELSE 0
             v1 == 2 * Bit(0)
             v2 == 2 * v1 + 2 * Bit(1)
             v3 == 2 * v2 + 2 * Bit(2)
             v4 == 2 * v3 + 2 * Bit(3)
             v5 == 2 * v4 + 2 * Bit(4)
             v6 == 2 * v5 + 2 * Bit(5)
             v7 == 2 * v6 + 2 * Bit(6)
             After(x, i) == Shift(IF i \in S THEN Or1(x) ELSE x)
  <1>1. ASSUME NEW x \in Nat, x % 2 = 0, x < 128, NEW i
        PROVE  After(x, i) = 2 * x + 2 * Bit(i)
    <2>1. After(x, i) = 2 * x + IF i \in S THEN 2 ELSE 0
      BY <1>1, Turn
    <2> QED
      BY <2>1
  <1>2. \A i \in 0 .. 6 : Bit(i) \in {0, 1}
    OBVIOUS
  <1> HIDE DEF Bit, After
  <1>3. /\ v1 \in 0 .. 2 /\ v2 \in 0 .. 6 /\ v3 \in 0 .. 14 /\ v4 \in 0 .. 30
        /\ v5 \in 0 .. 62 /\ v6 \in 0 .. 126
    BY <1>2
  <1>4. /\ v1 % 2 = 0 /\ v2 % 2 = 0 /\ v3 % 2 = 0 /\ v4 % 2 = 0
        /\ v5 % 2 = 0 /\ v6 % 2 = 0
    BY <1>2
  <1>5. /\ After(0, 0) = v1 /\ After(v1, 1) = v2 /\ After(v2, 2) = v3 /\ After(v3, 3) = v4
        /\ After(v4, 4) = v5 /\ After(v5, 5) = v6 /\ After(v6, 6) = v7
    <2> HIDE DEF v1, v2, v3, v4, v5, v6
    <2>1. /\ After(v1, 1) = 2 * v1 + 2 * Bit(1) /\ After(v2, 2) = 2 * v2 + 2 * Bit(2)
          /\ After(v3, 3) = 2 * v3 + 2 * Bit(3) /\ After(v4, 4) = 2 * v4 + 2 * Bit(4)
          /\ After(v5, 5) = 2 * v5 + 2 * Bit(5) /\ After(v6, 6) = 2 * v6 + 2 * Bit(6)
      BY <1>1, <1>3, <1>4
    <2>2. After(0, 0) = 2 * Bit(0)
      <3>1. After(0, 0) = 2 * 0 + 2 * Bit(0)
        BY <1>1
      <3> QED
        BY <1>2, <3>1
    <2> QED
      BY <2>1, <2>2 DEF v1, v2, v3, v4, v5, v6
  <1>6. v7 = Sum8(BitsOf(S))
    BY <1>2 DEF Sum8, BitsOf, Bit
  <1> HIDE DEF v1, v2, v3, v4, v5, v6, v7
  <1>7. \E f : Is(f)
    <2> DEFINE f == [i \in 0 .. MaxProfiles |->
                       IF i = 0 THEN 0 ELSE IF i = 1 THEN v1 ELSE IF i = 2 THEN v2
                       ELSE IF i = 3 THEN v3 ELSE IF i = 4 THEN v4 ELSE IF i = 5 THEN v5
                       ELSE IF i = 6 THEN v6 ELSE v7]
    <2>1. /\ f[0] = 0 /\ f[1] = v1 /\ f[2] = v2 /\ f[3] = v3 /\ f[4] = v4 /\ f[5] = v5
          /\ f[6] = v6 /\ f[7] = v7
      BY DEF Seven
    <2>2. DOMAIN f = 0 .. 7
      BY DEF Seven
    <2> HIDE DEF f
    <2>3. ASSUME NEW i \in 1 .. 7 PROVE f[i] = After(f[i - 1], i - 1)
      <3>1. i = 1 \/ i = 2 \/ i = 3 \/ i = 4 \/ i = 5 \/ i = 6 \/ i = 7
        OBVIOUS
      <3>2. f[1] = After(f[0], 0) /\ f[2] = After(f[1], 1) /\ f[3] = After(f[2], 2)
            /\ f[4] = After(f[3], 3) /\ f[5] = After(f[4], 4) /\ f[6] = After(f[5], 5)
            /\ f[7] = After(f[6], 6)
        BY <1>5, <2>1
      <3> QED
        BY <3>1, <3>2
    <2>4. \A i \in 0 .. 7 : f[i] = IF i = 0 THEN 0 ELSE After(f[i - 1], i - 1)
      BY <2>1, <2>3
    <2>5. f = [i \in 0 .. 7 |-> f[i]]
      BY <2>2 DEF f
    <2>6. Is(f)
      BY <2>4, <2>5 DEF Seven, After
    <2> QED
      BY <2>6
  <1>8. PICK g : Is(g) /\ Build(S) = g[MaxProfiles]
    <2>1. Build(S) = (CHOOSE f : Is(f))[MaxProfiles]
      BY DEF Build
    <2>2. Is(CHOOSE f : Is(f))
      <3> HIDE DEF Is
      <3> QED
        BY <1>7
    <2> QED
      BY <2>1, <2>2
  <1>9. g[0] = 0 /\ \A i \in 1 .. 7 : g[i] = After(g[i - 1], i - 1)
    <2>1. \A i \in 0 .. 7 : g[i] = IF i = 0 THEN 0 ELSE After(g[i - 1], i - 1)
      BY <1>8 DEF Seven, After
    <2> QED
      BY <2>1
  <1>10. g[1] = After(g[0], 0) /\ g[2] = After(g[1], 1) /\ g[3] = After(g[2], 2)
         /\ g[4] = After(g[3], 3) /\ g[5] = After(g[4], 4) /\ g[6] = After(g[5], 5)
         /\ g[7] = After(g[6], 6)
    BY <1>9
  <1>11. g[7] = v7
    BY <1>5, <1>9, <1>10
  <1> QED
    BY <1>6, <1>8, <1>11 DEF Seven
(* The loop that takes a byte apart finds the places of its bits.          *)
LEMMA AskedOfSum ==
    ASSUME Seven, NEW c \in [0 .. 7 -> {0, 1}]
    PROVE  Asked(Sum8(c)) = {i \in Places : c[i] = 1}
  <1> DEFINE Is(f) == f = [i \in 0 .. MaxProfiles |-> IF i = 0 THEN Sum8(c) ELSE Shift(f[i - 1])]
             y6 == 128 * c[6] + 64 * c[7]
             y5 == 128 * c[5] + 64 * c[6] + 32 * c[7]
             y4 == 128 * c[4] + 64 * c[5] + 32 * c[6] + 16 * c[7]
             y3 == 128 * c[3] + 64 * c[4] + 32 * c[5] + 16 * c[6] + 8 * c[7]
             y2 == 128 * c[2] + 64 * c[3] + 32 * c[4] + 16 * c[5] + 8 * c[6] + 4 * c[7]
             y1 == 128 * c[1] + 64 * c[2] + 32 * c[3] + 16 * c[4] + 8 * c[5] + 4 * c[6] + 2 * c[7]
             y0 == Sum8(c)
             y7 == 128 * c[7]
  <1>1. \A i \in 0 .. 7 : c[i] \in {0, 1}
    OBVIOUS
  <1>2. ASSUME NEW b \in {0, 1}, NEW x \in 0 .. 127 PROVE Shift(128 * b + x) = 2 * x
    BY DEF Shift
  <1>3. /\ Shift(y0) = y1 /\ Shift(y1) = y2 /\ Shift(y2) = y3 /\ Shift(y3) = y4
        /\ Shift(y4) = y5 /\ Shift(y5) = y6 /\ Shift(y6) = y7
    <2>1. c[0] \in {0, 1} /\ c[1] \in {0, 1} /\ c[2] \in {0, 1} /\ c[3] \in {0, 1}
          /\ c[4] \in {0, 1} /\ c[5] \in {0, 1} /\ c[6] \in {0, 1} /\ c[7] \in {0, 1}
      BY <1>1
    <2>2. Shift(y6) = y7
      <3>1. 64 * c[7] \in 0 .. 127
        BY <2>1
      <3>2. Shift(y6) = 2 * (64 * c[7])
        BY <1>2, <2>1, <3>1
      <3> QED
        BY <2>1, <3>2
    <2>3. Shift(y5) = y6
      <3> DEFINE x == 64 * c[6] + 32 * c[7]
      <3>1. x \in 0 .. 127 /\ y5 = 128 * c[5] + x /\ 2 * x = y6
        BY <2>1
      <3> HIDE DEF x, y5, y6
      <3> QED
        BY <1>2, <2>1, <3>1
    <2>4. Shift(y4) = y5
      <3> DEFINE x == 64 * c[5] + 32 * c[6] + 16 * c[7]
      <3>1. x \in 0 .. 127 /\ y4 = 128 * c[4] + x /\ 2 * x = y5
        BY <2>1
      <3> HIDE DEF x, y4, y5
      <3> QED
        BY <1>2, <2>1, <3>1
    <2>5. Shift(y3) = y4
      <3> DEFINE x == 64 * c[4] + 32 * c[5] + 16 * c[6] + 8 * c[7]
      <3>1. x \in 0 .. 127 /\ y3 = 128 * c[3] + x /\ 2 * x = y4
        BY <2>1
      <3> HIDE DEF x, y3, y4
      <3> QED
        BY <1>2, <2>1, <3>1
    <2>6. Shift(y2) = y3
      <3> DEFINE x == 64 * c[3] + 32 * c[4] + 16 * c[5] + 8 * c[6] + 4 * c[7]
      <3>1. x \in 0 .. 127 /\ y2 = 128 * c[2] + x /\ 2 * x = y3
        BY <2>1
      <3> HIDE DEF x, y2, y3
      <3> QED
        BY <1>2, <2>1, <3>1
    <2>7. Shift(y1) = y2
      <3> DEFINE x == 64 * c[2] + 32 * c[3] + 16 * c[4] + 8 * c[5] + 4 * c[6] + 2 * c[7]
      <3>1. x \in 0 .. 127 /\ y1 = 128 * c[1] + x /\ 2 * x = y2
        BY <2>1
      <3> HIDE DEF x, y1, y2
      <3> QED
        BY <1>2, <2>1, <3>1
    <2>8. Shift(y0) = y1
      <3> DEFINE x == 64 * c[1] + 32 * c[2] + 16 * c[3] + 8 * c[4] + 4 * c[5] + 2 * c[6] + c[7]
      <3>1. x \in 0 .. 127 /\ y0 = 128 * c[0] + x /\ 2 * x = y1
        BY <2>1 DEF Sum8
      <3> HIDE DEF x, y0, y1
      <3> QED
        BY <1>2, <2>1, <3>1
    <2> QED
      BY <2>2, <2>3, <2>4, <2>5, <2>6, <2>7, <2>8
  <1>4. /\ y0 >= 128 <=> c[0] = 1
        /\ y1 >= 128 <=> c[1] = 1
        /\ y2 >= 128 <=> c[2] = 1
        /\ y3 >= 128 <=> c[3] = 1
        /\ y4 >= 128 <=> c[4] = 1
        /\ y5 >= 128 <=> c[5] = 1
        /\ y6 >= 128 <=> c[6] = 1
    <2>1. c[0] \in {0, 1} /\ c[1] \in {0, 1} /\ c[2] \in {0, 1} /\ c[3] \in {0, 1}
          /\ c[4] \in {0, 1} /\ c[5] \in {0, 1} /\ c[6] \in {0, 1} /\ c[7] \in {0, 1}
      BY <1>1
    <2> QED
      BY <2>1 DEF Sum8
  <1> HIDE DEF y0, y1, y2, y3, y4, y5, y6, y7
  <1>5. \E f : Is(f)
    <2> DEFINE f == [i \in 0 .. MaxProfiles |->
                       IF i = 0 THEN y0 ELSE IF i = 1 THEN y1 ELSE IF i = 2 THEN y2
                       ELSE IF i = 3 THEN y3 ELSE IF i = 4 THEN y4 ELSE IF i = 5 THEN y5
                       ELSE IF i = 6 THEN y6 ELSE y7]
    <2>1. /\ f[0] = y0 /\ f[1] = y1 /\ f[2] = y2 /\ f[3] = y3 /\ f[4] = y4 /\ f[5] = y5
          /\ f[6] = y6 /\ f[7] = y7
      BY DEF Seven
    <2>2. f = [i \in 0 .. 7 |-> f[i]]
      BY DEF Seven
    <2> HIDE DEF f
    <2>3. ASSUME NEW i \in 1 .. 7 PROVE f[i] = Shift(f[i - 1])
      <3>1. i = 1 \/ i = 2 \/ i = 3 \/ i = 4 \/ i = 5 \/ i = 6 \/ i = 7
        OBVIOUS
      <3>2. f[1] = Shift(f[0]) /\ f[2] = Shift(f[1]) /\ f[3] = Shift(f[2])
            /\ f[4] = Shift(f[3]) /\ f[5] = Shift(f[4]) /\ f[6] = Shift(f[5])
            /\ f[7] = Shift(f[6])
        BY <1>3, <2>1
      <3> QED
        BY <3>1, <3>2
    <2>4. \A i \in 0 .. 7 : f[i] = IF i = 0 THEN y0 ELSE Shift(f[i - 1])
      BY <2>1, <2>3
    <2>5. Is(f)
      BY <2>2, <2>4 DEF Seven, y0
    <2> QED
      BY <2>5
  <1>6. PICK g : Is(g) /\ Asked(Sum8(c)) = {i \in Places : g[i] >= 128}
    <2>1. Asked(Sum8(c)) = {i \in Places : (CHOOSE f : Is(f))[i] >= 128}
      BY DEF Asked
    <2>2. Is(CHOOSE f : Is(f))
      <3> HIDE DEF Is
      <3> QED
        BY <1>5
    <2> HIDE DEF Is
    <2> QED
      BY <2>1, <2>2
  <1>7. g[0] = y0 /\ \A i \in 1 .. 7 : g[i] = Shift(g[i - 1])
    <2>1. \A i \in 0 .. 7 : g[i] = IF i = 0 THEN y0 ELSE Shift(g[i - 1])
      BY <1>6 DEF Seven, y0
    <2> QED
      BY <2>1
  <1>8. g[1] = Shift(g[0]) /\ g[2] = Shift(g[1]) /\ g[3] = Shift(g[2])
        /\ g[4] = Shift(g[3]) /\ g[5] = Shift(g[4]) /\ g[6] = Shift(g[5])
    BY <1>7
  <1>9. g[0] = y0 /\ g[1] = y1 /\ g[2] = y2 /\ g[3] = y3 /\ g[4] = y4 /\ g[5] = y5 /\ g[6] = y6
    BY <1>3, <1>7, <1>8
  <1>10. ASSUME NEW i \in Places PROVE g[i] >= 128 <=> c[i] = 1
    <2>1. i = 0 \/ i = 1 \/ i = 2 \/ i = 3 \/ i = 4 \/ i = 5 \/ i = 6
      BY DEF Places, Seven
    <2> QED
      BY <1>4, <1>9, <2>1
  <1> QED
    BY <1>6, <1>10

(* By the reference too, a byte has the places of its bits.                *)
LEMMA MembersOfSum ==
    ASSUME Seven, NEW c \in [0 .. 7 -> {0, 1}]
    PROVE  Members(Sum8(c)) = {i \in Places : c[i] = 1}
  <1> DEFINE b == Sum8(c)
  <1>1. c[0] \in {0, 1} /\ c[1] \in {0, 1} /\ c[2] \in {0, 1} /\ c[3] \in {0, 1}
        /\ c[4] \in {0, 1} /\ c[5] \in {0, 1} /\ c[6] \in {0, 1} /\ c[7] \in {0, 1}
    OBVIOUS
  <1>2. /\ (b \div 128) % 2 = c[0] /\ (b \div 64) % 2 = c[1] /\ (b \div 32) % 2 = c[2]
        /\ (b \div 16) % 2 = c[3] /\ (b \div 8) % 2 = c[4] /\ (b \div 4) % 2 = c[5]
        /\ (b \div 2) % 2 = c[6]
    BY <1>1 DEF Sum8
  <1>3. ASSUME NEW i \in Places PROVE (b \div 2 ^ (7 - i)) % 2 = c[i]
    <2> HIDE DEF b
    <2>1. CASE i = 0
      <3>1. 2 ^ (7 - i) = 128
        BY <2>1
      <3> QED
        BY <1>2, <2>1, <3>1
    <2>2. CASE i = 1
      <3>1. 2 ^ (7 - i) = 64
        BY <2>2
      <3> QED
        BY <1>2, <2>2, <3>1
    <2>3. CASE i = 2
      <3>1. 2 ^ (7 - i) = 32
        BY <2>3
      <3> QED
        BY <1>2, <2>3, <3>1
    <2>4. CASE i = 3
      <3>1. 2 ^ (7 - i) = 16
        BY <2>4
      <3> QED
        BY <1>2, <2>4, <3>1
    <2>5. CASE i = 4
      <3>1. 2 ^ (7 - i) = 8
        BY <2>5
      <3> QED
        BY <1>2, <2>5, <3>1
    <2>6. CASE i = 5
      <3>1. 2 ^ (7 - i) = 4
        BY <2>6
      <3> QED
        BY <1>2, <2>6, <3>1
    <2>7. CASE i = 6
      <3>1. 2 ^ (7 - i) = 2
        BY <2>7
      <3> QED
        BY <1>2, <2>7, <3>1
    <2> QED
      BY <2>1, <2>2, <2>3, <2>4, <2>5, <2>6, <2>7 DEF Places, Seven
  <1> QED
    BY <1>3 DEF Members
(* A set that was built is asked for, and has as members, just its places; *)
(* and it is a byte.                                                       *)
LEMMA BuiltSet ==
    ASSUME Seven, NEW S \in SUBSET Places
    PROVE  Build(S) \in Bytes /\ Asked(Build(S)) = S /\ Members(Build(S)) = S
  <1> DEFINE c == BitsOf(S)
  <1>1. c \in [0 .. 7 -> {0, 1}]
    BY DEF BitsOf
  <1>2. {i \in Places : c[i] = 1} = S
    <2>1. Places = 0 .. 6
      BY DEF Places, Seven
    <2>2. \A i \in Places : c[i] = 1 <=> i \in S
      BY <2>1 DEF BitsOf
    <2> QED
      BY <2>2
  <1>3. Build(S) = Sum8(c)
    BY BuildIsSum
  <1> HIDE DEF c
  <1>4. Sum8(c) \in Bytes
    <2>1. c[0] \in {0, 1} /\ c[1] \in {0, 1} /\ c[2] \in {0, 1} /\ c[3] \in {0, 1}
          /\ c[4] \in {0, 1} /\ c[5] \in {0, 1} /\ c[6] \in {0, 1} /\ c[7] \in {0, 1}
      BY <1>1
    <2> QED
      BY <2>1 DEF Sum8, Bytes
  <1> QED
    BY <1>1, <1>2, <1>3, <1>4, AskedOfSum, MembersOfSum
-----------------------------------------------------------------------------
(* The profiles stored are in places the NWP has, every answer is a byte,  *)
(* and the answer of count is the set of what is still stored.             *)
ProfileInv ==
    /\ stored \subseteq Places /\ ret \in Bytes
    /\ op = "count" => ret = Build(stored)

(* What a byte asks for are places.                                        *)
LEMMA AskedPlaces == \A b : Asked(b) \subseteq Places
  BY DEF Asked

(* The invariant holds initially.                                          *)
LEMMA ProfileInit == PrInit => ProfileInv
  BY DEF PrInit, ProfileInv, Bytes

(* Every step keeps it.                                                    *)
LEMMA ProfileStep ==
    ASSUME Seven, ProfileInv, [PrNext]_prVars
    PROVE  ProfileInv'
  <1> USE DEF ProfileInv
  <1>1. ASSUME NEW b \in Bytes, RemoveSet(b) PROVE ProfileInv'
    <2>1. PICK no \in SUBSET (Asked(b) \cap Stubborn) :
            /\ stored' = stored \ (Asked(b) \ no)
            /\ ret' = Build(Asked(b) \ no)
      BY <1>1 DEF RemoveSet
    <2>2. Asked(b) \ no \in SUBSET Places
      BY AskedPlaces
    <2>3. ret' \in Bytes
      BY <2>1, <2>2, BuiltSet
    <2>4. op' = "remove_set"
      BY <1>1 DEF RemoveSet
    <2> QED
      BY <2>1, <2>3, <2>4
  <1>2. ASSUME NEW idx \in Places \cup {RemoveAll}, Remove(idx) PROVE ProfileInv'
    BY <1>2 DEF Remove, Bytes
  <1>3. CASE Count
    BY <1>3, BuiltSet DEF Count
  <1>4. ASSUME NEW len \in KeyLens, Add(len) PROVE ProfileInv'
    <2>1. PICK new \in SUBSET (Places \ stored) :
            /\ Cardinality(new) <= Types(len)
            /\ stored' = stored \cup new
            /\ ret' = Cardinality(new)
      BY <1>4 DEF Add
    <2>2. Types(len) \in 0 .. 2
      BY DEF Types
    <2>3. Cardinality(new) \in Nat
      <3>1. IsFiniteSet(Places)
        <4>1. Places = 0 .. 6
          BY DEF Places, Seven
        <4>2. 0 \in Int /\ 6 \in Int
          OBVIOUS
        <4>3. IsFiniteSet(0 .. 6)
          BY <4>2, FS_Interval, Zenon
        <4> QED
          BY <4>1, <4>3
      <3>2. IsFiniteSet(new)
        BY <2>1, <3>1, FS_Subset
      <3> QED
        BY <3>2, FS_CardinalityType
    <2>4. ret' \in Bytes
      BY <2>1, <2>2, <2>3 DEF Bytes
    <2>5. op' = "add"
      BY <1>4 DEF Add
    <2> QED
      BY <2>1, <2>4, <2>5
  <1>5. CASE UNCHANGED prVars
    BY <1>5 DEF prVars
  <1> QED
    BY <1>1, <1>2, <1>3, <1>4, <1>5 DEF PrNext

(* The invariant holds always.                                             *)
LEMMA ProfileAlways ==
    ASSUME Seven
    PROVE  PrSpec => []ProfileInv
  <1>1. ProfileInv /\ [PrNext]_prVars => ProfileInv'
    BY ProfileStep
  <1> QED
    BY <1>1, ProfileInit, PTL DEF PrSpec

(* A client may pass what count returned to remove_set: it asks for all    *)
(* the profiles and for nothing else.                                      *)
THEOREM CountsForRemoval ==
    ASSUME Seven
    PROVE  PrSpec => []CountIsARemoveSet
  <1>1. ProfileInv => CountIsARemoveSet
    BY BuiltSet DEF ProfileInv, CountIsARemoveSet
  <1> QED
    BY <1>1, ProfileAlways, PTL

(* What remove_set returns holds every profile that went and none that is  *)
(* still there, whichever deletions the NWP refuses.                       *)
THEOREM RemovalsReported ==
    ASSUME Seven
    PROVE  PrSpec => RemoveSetReports
  <1>1. ASSUME ProfileInv, [PrNext]_prVars
        PROVE  [op' = "remove_set" => /\ stored \ stored' \subseteq Members(ret')
                                      /\ stored' \cap Members(ret') = {}]_prVars
    <2>1. ASSUME NEW b \in Bytes, RemoveSet(b)
          PROVE  stored \ stored' \subseteq Members(ret') /\ stored' \cap Members(ret') = {}
      <3>1. PICK no \in SUBSET (Asked(b) \cap Stubborn) :
              /\ stored' = stored \ (Asked(b) \ no)
              /\ ret' = Build(Asked(b) \ no)
        BY <2>1 DEF RemoveSet
      <3>2. Asked(b) \ no \in SUBSET Places
        BY AskedPlaces
      <3>3. Members(ret') = Asked(b) \ no
        BY <3>1, <3>2, BuiltSet
      <3> QED
        BY <3>1, <3>3
    <2> QED
      BY <1>1, <2>1 DEF PrNext, Remove, Count, Add
  <1>2. ProfileInv /\ [PrNext]_prVars =>
          [op' = "remove_set" => /\ stored \ stored' \subseteq Members(ret')
                                 /\ stored' \cap Members(ret') = {}]_prVars
    BY <1>1
  <1> QED
    BY <1>2, ProfileAlways, PTL DEF PrSpec, RemoveSetReports
-----------------------------------------------------------------------------
(* What is asked for.                                                      *)

(* A number is twice its half, and its lowest bit.                         *)
LEMMA Halved == \A x \in Nat : x \div 2 \in Nat /\ x % 2 \in {0, 1} /\ x = 2 * (x \div 2) + (x % 2)
  OBVIOUS

(* Every byte is the sum of the bits of some places.                       *)
LEMMA EveryByteIsSum == \A b \in Bytes : \E c \in [0 .. 7 -> {0, 1}] : b = Sum8(c)
  <1> SUFFICES ASSUME NEW b \in Bytes PROVE \E c \in [0 .. 7 -> {0, 1}] : b = Sum8(c)
    OBVIOUS
  <1>1. b \in Nat /\ b < 256
    BY DEF Bytes
  <1>2. PICK q1 \in Nat, r7 \in {0, 1} : b = 2 * q1 + r7
    BY <1>1, Halved
  <1>3. PICK q2 \in Nat, r6 \in {0, 1} : q1 = 2 * q2 + r6
    BY Halved
  <1>4. PICK q3 \in Nat, r5 \in {0, 1} : q2 = 2 * q3 + r5
    BY Halved
  <1>5. PICK q4 \in Nat, r4 \in {0, 1} : q3 = 2 * q4 + r4
    BY Halved
  <1>6. PICK q5 \in Nat, r3 \in {0, 1} : q4 = 2 * q5 + r3
    BY Halved
  <1>7. PICK q6 \in Nat, r2 \in {0, 1} : q5 = 2 * q6 + r2
    BY Halved
  <1>8. PICK r0 \in Nat, r1 \in {0, 1} : q6 = 2 * r0 + r1
    BY Halved
  <1>9. b = 128 * r0 + 64 * r1 + 32 * r2 + 16 * r3 + 8 * r4 + 4 * r5 + 2 * r6 + r7
    BY <1>2, <1>3, <1>4, <1>5, <1>6, <1>7, <1>8
  <1>10. r0 \in {0, 1}
    BY <1>1, <1>9
  <1> DEFINE c == [i \in 0 .. 7 |->
                     CASE i = 0 -> r0 [] i = 1 -> r1 [] i = 2 -> r2 [] i = 3 -> r3
                       [] i = 4 -> r4 [] i = 5 -> r5 [] i = 6 -> r6 [] OTHER -> r7]
  <1>11. /\ c[0] = r0 /\ c[1] = r1 /\ c[2] = r2 /\ c[3] = r3
         /\ c[4] = r4 /\ c[5] = r5 /\ c[6] = r6 /\ c[7] = r7
    OBVIOUS
  <1>12. c \in [0 .. 7 -> {0, 1}]
    BY <1>10
  <1> HIDE DEF c
  <1>13. b = Sum8(c)
    BY <1>9, <1>11 DEF Sum8
  <1> QED
    BY <1>12, <1>13

(* The loop of remove_set finds in a byte the places that are its members. *)
LEMMA AskedIsMembers ==
    ASSUME Seven
    PROVE  \A b \in Bytes : Asked(b) = Members(b)
  BY EveryByteIsSum, AskedOfSum, MembersOfSum

(* remove_set, given any byte, removes no profile that is not in it and    *)
(* leaves of those in it only what the NWP refused; given what count has   *)
(* just returned it leaves nothing else at all.                            *)
THEOREM RemovesWhatIsAsked ==
    ASSUME Seven
    PROVE  PrSpec => [][\A b \in Bytes : RemoveSet(b) =>
                        /\ stored \ Members(b) \subseteq stored'
                        /\ stored' \cap Members(b) \subseteq Stubborn
                        /\ op = "count" /\ ret = b => stored' \subseteq Stubborn]_prVars
  <1> DEFINE Good(b) == /\ stored \ Members(b) \subseteq stored'
                        /\ stored' \cap Members(b) \subseteq Stubborn
                        /\ op = "count" /\ ret = b => stored' \subseteq Stubborn
  <1>1. ASSUME ProfileInv, NEW b \in Bytes, RemoveSet(b)
        PROVE  Good(b)
    <2>1. PICK no \in SUBSET (Members(b) \cap Stubborn) : stored' = stored \ (Members(b) \ no)
      BY <1>1, AskedIsMembers DEF RemoveSet
    <2>2. op = "count" /\ ret = b => Members(b) = stored
      BY <1>1, BuiltSet DEF ProfileInv
    <2> QED
      BY <2>1, <2>2
  <1>2. ProfileInv => [\A b \in Bytes : RemoveSet(b) => Good(b)]_prVars
    <2> HIDE DEF Good
    <2> QED
      BY <1>1
  <1> QED
    BY <1>2, ProfileAlways, PTL DEF PrSpec
=============================================================================
