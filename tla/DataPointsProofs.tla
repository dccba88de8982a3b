--------------------------- MODULE DataPointsProofs ---------------------------
(***************************************************************************)
(* Theorems about DataPoints, for any strings, numbers and complex data a  *)
(* data point may hold, any results and any count: what the handlers log   *)
(* of plain values is what the server meant, they read no object behind a  *)
(* whole answer of plain values, they log no value that did not arrive,    *)
(* and every read brings them closer to their end (Closer).                *)
(***************************************************************************)
EXTENDS DataPoints, SequenceTheorems, WellFoundedInduction, TLAPS

(* Objects of a stream, and entries of the log.                            *)
Texts == DpTexts \cup {DpJunk}
Streamed == [is : {"array", "unsigned"}, v : Nat] \cup [is : {"string"}, v : DpTexts]
Objects == Streamed \cup [is : {"string"}, v : Texts] \cup {Nil}
Entries == ({"dp"} \X Nat) \cup ({"value"} \X Texts) \cup ({"result"} \X Nat \X Nat)

(* Elements of a concatenation, counted from its start and from the seam.  *)
LEMMA ConcatAt ==
    ASSUME NEW S, NEW a \in Seq(S), NEW b \in Seq(S)
    PROVE  /\ a \o b \in Seq(S) /\ Len(a \o b) = Len(a) + Len(b)
           /\ \A i \in 1 .. Len(a) : (a \o b)[i] = a[i]
           /\ \A i \in 1 .. Len(b) : (a \o b)[Len(a) + i] = b[i]
  <1>1. Len(a) \in Nat /\ Len(b) \in Nat
    BY LenProperties
  <1>2. /\ a \o b \in Seq(S) /\ Len(a \o b) = Len(a) + Len(b)
        /\ \A i \in 1 .. Len(a) + Len(b) : (a \o b)[i] = IF i <= Len(a) THEN a[i] ELSE b[i - Len(a)]
    BY ConcatProperties
  <1>3. ASSUME NEW i \in 1 .. Len(a) PROVE (a \o b)[i] = a[i]
    BY <1>1, <1>2
  <1>4. ASSUME NEW i \in 1 .. Len(b) PROVE (a \o b)[Len(a) + i] = b[i]
    BY <1>1, <1>2
  <1> QED
    BY <1>2, <1>3, <1>4

(* The three kinds of objects an answer is made of.                        *)
LEMMA ObjectsMade ==
    /\ \A n \in Nat : Arr(n) \in Streamed /\ Uns(n) \in Streamed
    /\ \A s \in DpTexts : Str(s) \in Streamed
    /\ \A s \in Texts : Str(s) \in Objects
    /\ \A n \in Nat : ArrayLength(Arr(n)) = n /\ Unsigned(Uns(n)) = n
    /\ \A n \in Nat : Arr(n).is = "array" /\ Uns(n).is = "unsigned"
    /\ \A s \in Texts : Str(s).is = "string" /\ Str(s).v = s
  BY DEF Arr, Uns, Str, ArrayLength, Unsigned, Streamed, Objects

(* What the handlers take out of an object is a number.                    *)
LEMMA NumbersTaken ==
    ASSUME NEW o \in Objects
    PROVE  ArrayLength(o) \in Nat /\ Unsigned(o) \in Nat
  BY DEF Objects, Streamed, Nil, ArrayLength, Unsigned

(* A string is the server's, or the one that is not.                       *)
LEMMA TextsTaken ==
    ASSUME NEW o \in Objects, o.is = "string"
    PROVE  o.v \in Texts
  <1>1. CASE o \in Streamed
    BY <1>1 DEF Streamed, Texts
  <1>2. CASE o \in [is : {"string"}, v : Texts]
    BY <1>2
  <1>3. o # Nil
    BY DEF Nil
  <1> QED
    BY <1>1, <1>2, <1>3 DEF Objects

(* The ids and their positions in the requests.                            *)
LEMMA IdsAsked ==
    /\ Len(DpAsked) = 2 /\ DpAsked[1] = SwVersion /\ DpAsked[2] = SysVersion
    /\ SwVersion \in Nat /\ SysVersion \in Nat
    /\ Requested(GetDpWriter, 1) = SwVersion /\ Requested(GetDpWriter, 2) = SysVersion
    /\ Requested(SetDpWriter, 1) = SwVersion /\ Requested(SetDpWriter, 2) = SysVersion
  <1>1. Len(DpAsked) = 2 /\ DpAsked[1] = SwVersion /\ DpAsked[2] = SysVersion
    BY DEF DpAsked
  <1>2. SwVersion \in Nat /\ SysVersion \in Nat
    BY DEF SwVersion, SysVersion
  <1>3. Requested(GetDpWriter, 1) = SwVersion /\ Requested(GetDpWriter, 2) = SysVersion
    BY DEF Requested, GetDpWriter, Arr, Uns
  <1>4. Requested(SetDpWriter, 1) = SwVersion /\ Requested(SetDpWriter, 2) = SysVersion
    <2>1. \A t, u : LET req == <<Arr(3), Uns(SwVersion), Uns(0), t, Arr(3), Uns(SysVersion), Uns(0), u>>
                    IN  req[1].v = 3 /\ req[2].v = SwVersion /\ req[6].v = SysVersion
      BY DEF Arr, Uns
    <2>2. SetDpWriter[1].v = 3 /\ SetDpWriter[2].v = SwVersion /\ SetDpWriter[6].v = SysVersion
      BY <2>1, Zenon DEF SetDpWriter
    <2> QED
      BY <2>2 DEF Requested
  <1> QED
    BY <1>1, <1>2, <1>3, <1>4

(* A plain value is nothing, a string or a number.                         *)
LEMMA PlainShape ==
    ASSUME NEW v \in Plain
    PROVE  /\ v \in Values /\ v \in Seq(Streamed) /\ Len(v) \in {0, 1} /\ (Len(v) = 0 <=> v = << >>)
           /\ Len(v) = 1 => v = <<v[1]>> /\ v[1] \in Streamed /\ v[1].is # "array"
           /\ HasText(v) => v[1].v \in DpTexts
  <1>1. CASE v = << >>
    BY <1>1 DEF HasText, Values
  <1>2. ASSUME NEW s \in DpTexts, v = <<Str(s)>>
        PROVE  /\ v \in Seq(Streamed) /\ Len(v) = 1 /\ v = <<v[1]>> /\ v[1] \in Streamed
               /\ v[1].is # "array" /\ v[1].v \in DpTexts
    BY <1>2, ObjectsMade DEF Texts
  <1>3. ASSUME NEW n \in DpNumbers, v = <<Uns(n)>>
        PROVE  /\ v \in Seq(Streamed) /\ Len(v) = 1 /\ v = <<v[1]>> /\ v[1] \in Streamed
               /\ v[1].is # "array" /\ ~HasText(v)
    BY <1>3, ObjectsMade, DpAssumption DEF HasText
  <1> QED
    BY <1>1, <1>2, <1>3 DEF Plain, Values, HasText

(* Any value is a sequence of objects, and a string is the server's.       *)
LEMMA ValueShape ==
    ASSUME NEW v \in Values
    PROVE  v \in Seq(Streamed) /\ (HasText(v) => v[1].v \in DpTexts)
  <1>1. CASE v \in DpComplex
    BY <1>1, DpAssumption DEF Streamed, HasText
  <1>2. CASE v \in Plain
    BY <1>2, PlainShape
  <1> QED
    BY <1>1, <1>2 DEF Values

(* The objects of a data point in the answer to the first request.         *)
LEMMA GetEntryShape ==
    ASSUME NEW id \in Nat, NEW v \in Values
    PROVE  /\ GetEntry(id, v) \in Seq(Streamed) /\ Len(GetEntry(id, v)) >= 2
           /\ v \in Plain =>
                /\ Len(GetEntry(id, v)) = IF v = << >> THEN 2 ELSE 5
                /\ GetEntry(id, v)[1] = Uns(id) /\ GetEntry(id, v)[2] = Arr(Len(v))
                /\ v # << >> => /\ GetEntry(id, v)[3] = Arr(2)
                                /\ GetEntry(id, v)[4] = Uns(1)
                                /\ GetEntry(id, v)[5] = v[1]
  <1>1. /\ Uns(id) \in Streamed /\ Uns(1) \in Streamed
        /\ Arr(0) \in Streamed /\ Arr(1) \in Streamed /\ Arr(2) \in Streamed
    BY ObjectsMade
  <1>2. CASE v = << >>
    <2> DEFINE e == <<Uns(id), Arr(0)>>
    <2>1. GetEntry(id, v) = e /\ Len(v) = 0
      BY <1>2 DEF GetEntry
    <2>2. e \in Seq(Streamed) /\ Len(e) = 2 /\ e[1] = Uns(id) /\ e[2] = Arr(0)
      BY <1>1
    <2> HIDE DEF e
    <2>3. Arr(Len(v)) = Arr(0)
      BY <2>1
    <2> QED
      BY <1>2, <2>1, <2>2, <2>3
  <1>3. CASE v # << >>
    <2> DEFINE h == <<Uns(id), Arr(1), Arr(2), Uns(1)>>
               e == h \o v
    <2>1. GetEntry(id, v) = e
      BY <1>3 DEF GetEntry
    <2>2. /\ h \in Seq(Streamed) /\ Len(h) = 4
          /\ h[1] = Uns(id) /\ h[2] = Arr(1) /\ h[3] = Arr(2) /\ h[4] = Uns(1)
      BY <1>1
    <2>3. v \in Seq(Streamed) /\ Len(v) \in Nat
      BY ValueShape, LenProperties
    <2> HIDE DEF h
    <2>4. /\ h \o v \in Seq(Streamed) /\ Len(h \o v) = Len(h) + Len(v)
          /\ \A i \in 1 .. Len(h) : (h \o v)[i] = h[i]
          /\ \A i \in 1 .. Len(v) : (h \o v)[Len(h) + i] = v[i]
      <3>1. h \in Seq(Streamed) /\ v \in Seq(Streamed)
        BY <2>2, <2>3
      <3> QED
        BY <3>1, ConcatAt
    <2>5. e[1] = h[1] /\ e[2] = h[2] /\ e[3] = h[3] /\ e[4] = h[4] /\ Len(e) = 4 + Len(v)
      BY <2>2, <2>4
    <2>6. ASSUME v \in Plain
          PROVE  Len(v) = 1 /\ e[5] = v[1]
      <3>1. Len(v) = 1
        BY <1>3, <2>6, PlainShape
      <3> QED
        BY <2>2, <2>4, <3>1
    <2>7. e \in Seq(Streamed)
      BY <2>4
    <2> HIDE DEF e
    <2>8. Len(e) >= 2
      BY <2>3, <2>5
    <2>9. ASSUME v \in Plain
          PROVE  Len(e) = 5 /\ Arr(Len(v)) = Arr(1)
      <3>1. Len(v) = 1
        BY <2>6, <2>9
      <3>2. Len(e) = 5
        BY <2>5, <3>1
      <3> QED
        BY <3>1, <3>2
    <2>10. e[1] = Uns(id) /\ e[2] = Arr(1) /\ e[3] = Arr(2) /\ e[4] = Uns(1)
      BY <2>2, <2>5
    <2>11. v \in Plain =>
              /\ Len(e) = 5 /\ e[1] = Uns(id) /\ e[2] = Arr(Len(v))
              /\ e[3] = Arr(2) /\ e[4] = Uns(1) /\ e[5] = v[1]
      <3> SUFFICES ASSUME v \in Plain
                   PROVE  /\ Len(e) = 5 /\ e[1] = Uns(id) /\ e[2] = Arr(Len(v))
                          /\ e[3] = Arr(2) /\ e[4] = Uns(1) /\ e[5] = v[1]
        OBVIOUS
      <3>1. Len(e) = 5 /\ Arr(Len(v)) = Arr(1) /\ e[5] = v[1]
        BY <2>6, <2>9
      <3> QED
        BY <2>10, <3>1
    <2> QED
      BY <1>3, <2>1, <2>7, <2>8, <2>11
  <1> QED
    BY <1>2, <1>3

(* What it means.                                                          *)
LEMMA MeaningShape ==
    ASSUME NEW id \in Nat, NEW v \in Values
    PROVE  /\ Meaning(id, v) \in Seq(Entries)
           /\ Len(Meaning(id, v)) = IF HasText(v) THEN 2 ELSE 1
           /\ Meaning(id, v)[1] = <<"dp", id>>
           /\ HasText(v) => Meaning(id, v)[2] = <<"value", v[1].v>>
  <1> DEFINE a == << <<"dp", id>> >>
             b == << <<"value", v[1].v>> >>
  <1>1. a \in Seq(Entries) /\ Len(a) = 1 /\ a[1] = <<"dp", id>>
    BY DEF Entries
  <1>2. CASE HasText(v)
    <2>1. v[1].v \in Texts
      BY <1>2, ValueShape DEF Texts
    <2>2. b \in Seq(Entries) /\ Len(b) = 1 /\ b[1] = <<"value", v[1].v>>
      BY <2>1 DEF Entries
    <2>3. Meaning(id, v) = a \o b
      BY <1>2 DEF Meaning
    <2> HIDE DEF a, b
    <2>4. a \o b \in Seq(Entries) /\ Len(a \o b) = 2 /\ (a \o b)[1] = a[1] /\ (a \o b)[2] = b[1]
      BY <1>1, <2>2, ConcatProperties
    <2> QED
      BY <1>1, <1>2, <2>2, <2>3, <2>4
  <1>3. CASE ~HasText(v)
    <2>1. Meaning(id, v) = a
      BY <1>1, <1>3, ConcatEmptySeq DEF Meaning
    <2> QED
      BY <1>1, <1>3, <2>1
  <1> QED
    BY <1>2, <1>3

(* The objects of a data point in the answer to the second request.        *)
LEMMA SetEntryShape ==
    ASSUME NEW id \in Nat, NEW res \in Results
    PROVE  /\ SetEntry(id, res) \in Seq(Streamed)
           /\ res = Refused => Len(SetEntry(id, res)) = 2 /\ SetEntry(id, res)[1] = Arr(1)
           /\ res # Refused => /\ Len(SetEntry(id, res)) = 4 /\ res \in Nat
                              /\ SetEntry(id, res)[1] = Arr(3) /\ SetEntry(id, res)[2] = Uns(id)
                              /\ SetEntry(id, res)[3] = Uns(1) /\ SetEntry(id, res)[4] = Uns(res)
  <1>1. CASE res = Refused
    <2>1. Arr(1) \in Streamed /\ Uns(id) \in Streamed
      BY ObjectsMade
    <2> QED
      BY <1>1, <2>1 DEF SetEntry
  <1>2. CASE res # Refused
    <2>1. res \in Nat
      BY <1>2, DpAssumption DEF Results
    <2>2. Arr(3) \in Streamed /\ Uns(id) \in Streamed /\ Uns(1) \in Streamed /\ Uns(res) \in Streamed
      BY <2>1, ObjectsMade
    <2> QED
      BY <1>2, <2>1, <2>2 DEF SetEntry
  <1> QED
    BY <1>1, <1>2

(* What it means.                                                          *)
LEMMA SetMeaningShape ==
    ASSUME NEW c \in Nat, NEW r \in Results, NEW s \in Results
    PROVE  /\ SetMeaning(c, <<r, s>>) \in Seq(Entries)
           /\ Len(SetMeaning(c, <<r, s>>)) =
                IF c = 0 \/ r = Refused THEN 0 ELSE IF c = 1 \/ s = Refused THEN 1 ELSE 2
           /\ c # 0 /\ r # Refused => SetMeaning(c, <<r, s>>)[1] = <<"result", SwVersion, r>>
           /\ c \notin {0, 1} /\ r # Refused /\ s # Refused =>
                SetMeaning(c, <<r, s>>)[2] = <<"result", SysVersion, s>>
  <1> DEFINE n == IF c = 0 \/ r = Refused THEN 0 ELSE IF c = 1 \/ s = Refused THEN 1 ELSE 2
             e(k) == <<"result", DpAsked[k], <<r, s>>[k]>>
  <1>1. SetMeaning(c, <<r, s>>) = [k \in 1 .. n |-> e(k)]
    BY DEF SetMeaning
  <1>2. n \in Nat
    OBVIOUS
  <1>3. e(1) = <<"result", SwVersion, r>> /\ e(2) = <<"result", SysVersion, s>>
    BY IdsAsked
  <1>4. (r # Refused => r \in Nat) /\ (s # Refused => s \in Nat)
    BY DpAssumption DEF Results
  <1>5. (r # Refused => e(1) \in Entries) /\ (s # Refused => e(2) \in Entries)
    BY <1>3, <1>4, IdsAsked DEF Entries
  <1>6. \A k \in 1 .. n : e(k) \in Entries
    <2>1. n \in {0, 1, 2} /\ (n > 0 => r # Refused) /\ (n = 2 => s # Refused)
      OBVIOUS
    <2> HIDE DEF e, n
    <2>2. \A k \in 1 .. n : (k = 1 /\ r # Refused) \/ (k = 2 /\ s # Refused)
      BY <2>1
    <2> QED
      BY <1>5, <2>2
  <1> HIDE DEF e
  <1>7. [k \in 1 .. n |-> e(k)] \in Seq(Entries) /\ Len([k \in 1 .. n |-> e(k)]) = n
    BY <1>2, <1>6
  <1>8. /\ n >= 1 => [k \in 1 .. n |-> e(k)][1] = e(1)
        /\ n >= 2 => [k \in 1 .. n |-> e(k)][2] = e(2)
    BY <1>2
  <1> QED
    BY <1>1, <1>3, <1>7, <1>8

(* The answers.                                                            *)
GetAnswer(v, w) == GetEntry(SwVersion, v) \o GetEntry(SysVersion, w)
SetAnswer(r, s) == SetEntry(SwVersion, r) \o SetEntry(SysVersion, s)

(* They are streams, and not empty.                                        *)
LEMMA AnswersTyped ==
    /\ \A v, w \in Values : GetAnswer(v, w) \in Seq(Streamed) /\ GetAnswer(v, w) # << >>
    /\ \A r, s \in Results : SetAnswer(r, s) \in Seq(Streamed) /\ SetAnswer(r, s) # << >>
  <1>1. ASSUME NEW a \in Seq(Streamed), NEW b \in Seq(Streamed), Len(a) >= 2
        PROVE  a \o b \in Seq(Streamed) /\ a \o b # << >>
    <2>1. a \o b \in Seq(Streamed) /\ Len(a \o b) = Len(a) + Len(b) /\ Len(a) \in Nat /\ Len(b) \in Nat
      BY ConcatProperties, LenProperties
    <2>2. Len(a \o b) # 0
      BY <1>1, <2>1
    <2> QED
      BY <2>1, <2>2, EmptySeq
  <1>2. ASSUME NEW v \in Values, NEW w \in Values
        PROVE  GetAnswer(v, w) \in Seq(Streamed) /\ GetAnswer(v, w) # << >>
    <2>1. GetEntry(SwVersion, v) \in Seq(Streamed) /\ Len(GetEntry(SwVersion, v)) >= 2
      BY IdsAsked, GetEntryShape
    <2>2. GetEntry(SysVersion, w) \in Seq(Streamed)
      BY IdsAsked, GetEntryShape
    <2> QED
      BY <1>1, <2>1, <2>2 DEF GetAnswer
  <1>3. ASSUME NEW r \in Results, NEW s \in Results
        PROVE  SetAnswer(r, s) \in Seq(Streamed) /\ SetAnswer(r, s) # << >>
    <2>1. SetEntry(SwVersion, r) \in Seq(Streamed) /\ Len(SetEntry(SwVersion, r)) >= 2
      <3> DEFINE a == SetEntry(SwVersion, r)
      <3>1. SwVersion \in Nat
        BY IdsAsked
      <3>2. a \in Seq(Streamed) /\ (r = Refused => Len(a) = 2) /\ (r # Refused => Len(a) = 4)
        BY <3>1, SetEntryShape
      <3> HIDE DEF a
      <3>3. Len(a) >= 2
        BY <3>2
      <3> QED
        BY <3>2, <3>3 DEF a
    <2>2. SetEntry(SysVersion, s) \in Seq(Streamed)
      BY IdsAsked, SetEntryShape
    <2> QED
      BY <1>1, <2>1, <2>2 DEF SetAnswer
  <1> QED
    BY <1>2, <1>3

(* Behind how many objects and entries the data point begins that is read  *)
(* when done of them are done with.                                        *)
GetBehind(done, v) == IF done = 0 THEN 0 ELSE IF v = << >> THEN 2 ELSE 5
MeantBehind(done, v) == IF done = 0 THEN 0 ELSE IF HasText(v) THEN 2 ELSE 1
SetBehind(done) == IF done = 0 THEN 0 ELSE 4
Current(done, v, w) == IF done = 0 THEN v ELSE w

(* The objects of the data point being read, in the answer to a get.       *)
LEMMA GetAnswerShape ==
    ASSUME NEW v \in Plain, NEW w \in Plain, NEW done \in {0, 1}
    PROVE  /\ GetAnswer(v, w) \in Seq(Streamed) /\ GetBehind(done, v) \in Nat
           /\ Current(done, v, w) \in Plain
           /\ Len(GetAnswer(v, w)) = GetBehind(1, v) + GetBehind(1, w)
           /\ GetAnswer(v, w)[GetBehind(done, v) + 1] = Uns(DpAsked[done + 1])
           /\ GetAnswer(v, w)[GetBehind(done, v) + 2] = Arr(Len(Current(done, v, w)))
           /\ Current(done, v, w) # << >> =>
                /\ GetAnswer(v, w)[GetBehind(done, v) + 3] = Arr(2)
                /\ GetAnswer(v, w)[GetBehind(done, v) + 4] = Uns(1)
                /\ GetAnswer(v, w)[GetBehind(done, v) + 5] = Current(done, v, w)[1]
  <1> DEFINE a == GetEntry(SwVersion, v)
             b == GetEntry(SysVersion, w)
  <1>1. /\ a \in Seq(Streamed) /\ Len(a) = (IF v = << >> THEN 2 ELSE 5)
        /\ a[1] = Uns(SwVersion) /\ a[2] = Arr(Len(v))
        /\ v # << >> => a[3] = Arr(2) /\ a[4] = Uns(1) /\ a[5] = v[1]
    BY IdsAsked, PlainShape, GetEntryShape
  <1>2. /\ b \in Seq(Streamed) /\ Len(b) = (IF w = << >> THEN 2 ELSE 5)
        /\ b[1] = Uns(SysVersion) /\ b[2] = Arr(Len(w))
        /\ w # << >> => b[3] = Arr(2) /\ b[4] = Uns(1) /\ b[5] = w[1]
    BY IdsAsked, PlainShape, GetEntryShape
  <1>3. GetAnswer(v, w) = a \o b
    BY DEF GetAnswer
  <1> HIDE DEF a, b
  <1> DEFINE c == a \o b
  <1>7. a \in Seq(Streamed) /\ b \in Seq(Streamed)
    BY <1>1, <1>2
  <1>4. /\ c \in Seq(Streamed) /\ Len(c) = Len(a) + Len(b)
        /\ \A i \in 1 .. Len(a) : c[i] = a[i]
        /\ \A i \in 1 .. Len(b) : c[Len(a) + i] = b[i]
    BY <1>7, ConcatAt
  <1>0. a \o b = c
    BY DEF c
  <1> HIDE DEF c
  <1>8. /\ {1, 2} \subseteq 1 .. Len(a) /\ (v # << >> => {3, 4, 5} \subseteq 1 .. Len(a))
        /\ {1, 2} \subseteq 1 .. Len(b) /\ (w # << >> => {3, 4, 5} \subseteq 1 .. Len(b))
    BY <1>1, <1>2
  <1>5. CASE done = 0
    <2>1. c[1] = a[1] /\ c[2] = a[2] /\ (v # << >> => c[3] = a[3] /\ c[4] = a[4] /\ c[5] = a[5])
      BY <1>4, <1>8
    <2>2. /\ GetBehind(0, v) = 0 /\ Current(0, v, w) = v
          /\ GetBehind(1, v) = Len(a) /\ GetBehind(1, w) = Len(b)
      BY <1>1, <1>2 DEF GetBehind, Current
    <2>3. /\ GetBehind(done, v) \in Nat /\ Current(done, v, w) = v
          /\ GetBehind(done, v) + 1 = 1 /\ GetBehind(done, v) + 2 = 2 /\ GetBehind(done, v) + 3 = 3
          /\ GetBehind(done, v) + 4 = 4 /\ GetBehind(done, v) + 5 = 5
      BY <1>5, <2>2
    <2>4. DpAsked[done + 1] = SwVersion
      BY <1>5, IdsAsked
    <2>5. /\ c[1] = Uns(SwVersion) /\ c[2] = Arr(Len(v))
          /\ v # << >> => c[3] = Arr(2) /\ c[4] = Uns(1) /\ c[5] = v[1]
      BY <1>1, <2>1
    <2> QED
      BY <1>0, <1>3, <1>4, <2>2, <2>3, <2>4, <2>5
  <1>6. CASE done = 1
    <2>1. /\ c[Len(a) + 1] = b[1] /\ c[Len(a) + 2] = b[2]
          /\ w # << >> => c[Len(a) + 3] = b[3] /\ c[Len(a) + 4] = b[4] /\ c[Len(a) + 5] = b[5]
      BY <1>4, <1>8
    <2>2. GetBehind(1, v) = Len(a) /\ GetBehind(1, w) = Len(b) /\ Current(1, v, w) = w
      BY <1>1, <1>2 DEF GetBehind, Current
    <2>3. /\ GetBehind(done, v) = Len(a) /\ GetBehind(done, v) \in Nat /\ Current(done, v, w) = w
      BY <1>6, <1>7, <2>2, LenProperties
    <2>4. DpAsked[done + 1] = SysVersion
      BY <1>6, IdsAsked
    <2>5. /\ c[Len(a) + 1] = Uns(SysVersion) /\ c[Len(a) + 2] = Arr(Len(w))
          /\ w # << >> => c[Len(a) + 3] = Arr(2) /\ c[Len(a) + 4] = Uns(1) /\ c[Len(a) + 5] = w[1]
      BY <1>2, <2>1
    <2> QED
      BY <1>0, <1>3, <1>4, <2>2, <2>3, <2>4, <2>5
  <1> QED
    BY <1>5, <1>6

(* And the entries of what it means.                                       *)
LEMMA GetMeantShape ==
    ASSUME NEW c \in Nat, NEW v \in Values, NEW w \in Values
    PROVE  /\ GetMeaning(c, v, w) \in Seq(Entries)
           /\ Len(GetMeaning(c, v, w)) = IF c = 0 THEN 0 ELSE IF c = 1 THEN MeantBehind(1, v)
                                          ELSE MeantBehind(1, v) + MeantBehind(1, w)
  <1> DEFINE a == Meaning(SwVersion, v)
             b == Meaning(SysVersion, w)
  <1>1. a \in Seq(Entries) /\ Len(a) = (IF HasText(v) THEN 2 ELSE 1)
    BY IdsAsked, MeaningShape
  <1>2. b \in Seq(Entries) /\ Len(b) = (IF HasText(w) THEN 2 ELSE 1)
    BY IdsAsked, MeaningShape
  <1>3. GetMeaning(c, v, w) = IF c = 0 THEN << >> ELSE IF c = 1 THEN a ELSE a \o b
    BY DEF GetMeaning
  <1> HIDE DEF a, b
  <1>4. MeantBehind(1, v) = Len(a) /\ MeantBehind(1, w) = Len(b)
    BY <1>1, <1>2 DEF MeantBehind
  <1>5. a \o b \in Seq(Entries) /\ Len(a \o b) = Len(a) + Len(b)
    BY <1>1, <1>2, ConcatAt
  <1> QED
    BY <1>1, <1>3, <1>4, <1>5, EmptySeq

(* Those of one data point.                                                *)
LEMMA GetMeantAt ==
    ASSUME NEW c \in Nat, NEW v \in Values, NEW w \in Values, NEW done \in {0, 1}, done < c
    PROVE  /\ MeantBehind(done, v) \in Nat
           /\ GetMeaning(c, v, w)[MeantBehind(done, v) + 1] = <<"dp", DpAsked[done + 1]>>
           /\ HasText(Current(done, v, w)) =>
                GetMeaning(c, v, w)[MeantBehind(done, v) + 2] = <<"value", Current(done, v, w)[1].v>>
  <1> DEFINE a == Meaning(SwVersion, v)
             b == Meaning(SysVersion, w)
  <1>1. /\ a \in Seq(Entries) /\ Len(a) = (IF HasText(v) THEN 2 ELSE 1)
        /\ a[1] = <<"dp", SwVersion>> /\ (HasText(v) => a[2] = <<"value", v[1].v>>)
    BY IdsAsked, MeaningShape
  <1>2. /\ b \in Seq(Entries) /\ Len(b) = (IF HasText(w) THEN 2 ELSE 1)
        /\ b[1] = <<"dp", SysVersion>> /\ (HasText(w) => b[2] = <<"value", w[1].v>>)
    BY IdsAsked, MeaningShape
  <1>3. GetMeaning(c, v, w) = IF c = 1 THEN a ELSE a \o b
    BY DEF GetMeaning
  <1> HIDE DEF a, b
  <1>4. /\ MeantBehind(0, v) = 0 /\ Current(0, v, w) = v /\ DpAsked[0 + 1] = SwVersion
        /\ MeantBehind(1, v) = Len(a) /\ Current(1, v, w) = w /\ DpAsked[1 + 1] = SysVersion
    BY <1>1, IdsAsked DEF MeantBehind, Current
  <1> DEFINE e == a \o b
  <1>5. /\ \A i \in 1 .. Len(a) : e[i] = a[i]
        /\ \A i \in 1 .. Len(b) : e[Len(a) + i] = b[i]
    BY <1>1, <1>2, ConcatAt
  <1> HIDE DEF e
  <1>6. /\ e[1] = <<"dp", SwVersion>> /\ (HasText(v) => e[2] = <<"value", v[1].v>>)
        /\ e[Len(a) + 1] = <<"dp", SysVersion>> /\ (HasText(w) => e[Len(a) + 2] = <<"value", w[1].v>>)
    <2>1. /\ 1 \in 1 .. Len(a) /\ (HasText(v) => 2 \in 1 .. Len(a))
          /\ 1 \in 1 .. Len(b) /\ (HasText(w) => 2 \in 1 .. Len(b))
      BY <1>1, <1>2
    <2> QED
      BY <1>1, <1>2, <1>5, <2>1
  <1>7. CASE done = 0
    <2>1. MeantBehind(done, v) = 0 /\ 0 + 1 = 1 /\ 0 + 2 = 2 /\ 0 \in Nat
      BY <1>4, <1>7
    <2>2. GetMeaning(c, v, w) \in {a, e}
      BY <1>3 DEF e
    <2>3. CASE GetMeaning(c, v, w) = a
      BY <1>1, <1>4, <1>7, <2>1, <2>3, Zenon
    <2>4. CASE GetMeaning(c, v, w) = e
      BY <1>4, <1>6, <1>7, <2>1, <2>4, Zenon
    <2> QED
      BY <2>2, <2>3, <2>4
  <1>8. CASE done = 1
    <2>1. GetMeaning(c, v, w) = e
      BY <1>3, <1>8 DEF e
    <2>2. Len(a) \in Nat
      BY <1>1
    <2> QED
      BY <1>4, <1>6, <1>8, <2>1, <2>2, Zenon
  <1> QED
    BY <1>7, <1>8

(* The objects of the data point being read, in the answer to a set; there *)
(* is none behind a refused one.                                           *)
LEMMA SetAnswerShape ==
    ASSUME NEW r \in Results, NEW s \in Results, NEW done \in {0, 1}, done = 1 => r # Refused
    PROVE  /\ SetAnswer(r, s) \in Seq(Streamed) /\ SetBehind(done) \in Nat
           /\ SetBehind(done) + 1 <= Len(SetAnswer(r, s))
           /\ Current(done, r, s) = Refused => SetAnswer(r, s)[SetBehind(done) + 1] = Arr(1)
           /\ Current(done, r, s) # Refused =>
                /\ SetBehind(done) + 4 <= Len(SetAnswer(r, s))
                /\ SetAnswer(r, s)[SetBehind(done) + 1] = Arr(3)
                /\ SetAnswer(r, s)[SetBehind(done) + 2] = Uns(DpAsked[done + 1])
                /\ SetAnswer(r, s)[SetBehind(done) + 3] = Uns(1)
                /\ SetAnswer(r, s)[SetBehind(done) + 4] = Uns(Current(done, r, s))
                /\ Current(done, r, s) \in Nat
  <1> DEFINE a == SetEntry(SwVersion, r)
             b == SetEntry(SysVersion, s)
  <1>1. /\ a \in Seq(Streamed) /\ (r = Refused => Len(a) = 2 /\ a[1] = Arr(1))
        /\ r # Refused => /\ Len(a) = 4 /\ a[1] = Arr(3) /\ a[2] = Uns(SwVersion)
                          /\ a[3] = Uns(1) /\ a[4] = Uns(r) /\ r \in Nat
    BY IdsAsked, SetEntryShape
  <1>2. /\ b \in Seq(Streamed) /\ (s = Refused => Len(b) = 2 /\ b[1] = Arr(1))
        /\ s # Refused => /\ Len(b) = 4 /\ b[1] = Arr(3) /\ b[2] = Uns(SysVersion)
                          /\ b[3] = Uns(1) /\ b[4] = Uns(s) /\ s \in Nat
    BY IdsAsked, SetEntryShape
  <1>3. SetAnswer(r, s) = a \o b
    BY DEF SetAnswer
  <1> HIDE DEF a, b
  <1> DEFINE c == a \o b
  <1>7. a \in Seq(Streamed) /\ b \in Seq(Streamed)
    BY <1>1, <1>2
  <1>4. /\ c \in Seq(Streamed) /\ Len(c) = Len(a) + Len(b)
        /\ \A i \in 1 .. Len(a) : c[i] = a[i]
        /\ \A i \in 1 .. Len(b) : c[Len(a) + i] = b[i]
    BY <1>7, ConcatAt
  <1>0. a \o b = c
    BY DEF c
  <1> HIDE DEF c
  <1>8. /\ 1 \in 1 .. Len(a) /\ (r # Refused => {2, 3, 4} \subseteq 1 .. Len(a))
        /\ 1 \in 1 .. Len(b) /\ (s # Refused => {2, 3, 4} \subseteq 1 .. Len(b))
    BY <1>1, <1>2
  <1>5. CASE done = 0
    <2>1. c[1] = a[1] /\ (r # Refused => c[2] = a[2] /\ c[3] = a[3] /\ c[4] = a[4])
      BY <1>4, <1>8
    <2>2. SetBehind(0) = 0 /\ Current(0, r, s) = r
      BY DEF SetBehind, Current
    <2>3. /\ SetBehind(done) \in Nat /\ Current(done, r, s) = r
          /\ SetBehind(done) + 1 = 1 /\ SetBehind(done) + 2 = 2 /\ SetBehind(done) + 3 = 3
          /\ SetBehind(done) + 4 = 4
      BY <1>5, <2>2
    <2>4. DpAsked[done + 1] = SwVersion /\ Len(b) \in Nat
      BY <1>5, <1>7, IdsAsked, LenProperties
    <2>5. /\ r = Refused => c[1] = Arr(1) /\ Len(c) >= 1
          /\ r # Refused => /\ c[1] = Arr(3) /\ c[2] = Uns(SwVersion) /\ c[3] = Uns(1) /\ c[4] = Uns(r)
                            /\ Len(c) >= 4 /\ r \in Nat
      BY <1>1, <1>4, <2>1, <2>4
    <2> QED
      BY <1>0, <1>3, <1>4, <2>2, <2>3, <2>4, <2>5, SMTT(30)
  <1>6. CASE done = 1
    <2>1. /\ c[Len(a) + 1] = b[1]
          /\ s # Refused => c[Len(a) + 2] = b[2] /\ c[Len(a) + 3] = b[3] /\ c[Len(a) + 4] = b[4]
      BY <1>4, <1>8
    <2>2. SetBehind(1) = Len(a) /\ Current(1, r, s) = s
      BY <1>1, <1>6 DEF SetBehind, Current
    <2>3. /\ SetBehind(done) = Len(a) /\ SetBehind(done) \in Nat /\ Current(done, r, s) = s
      BY <1>6, <1>7, <2>2, LenProperties
    <2>4. DpAsked[done + 1] = SysVersion /\ Len(a) \in Nat
      BY <1>6, <1>7, IdsAsked, LenProperties
    <2>5. /\ s = Refused => c[Len(a) + 1] = Arr(1) /\ Len(c) >= Len(a) + 1
          /\ s # Refused => /\ c[Len(a) + 1] = Arr(3) /\ c[Len(a) + 2] = Uns(SysVersion)
                            /\ c[Len(a) + 3] = Uns(1) /\ c[Len(a) + 4] = Uns(s)
                            /\ Len(c) >= Len(a) + 4 /\ s \in Nat
      BY <1>2, <1>4, <2>1, <2>4
    <2> QED
      BY <1>0, <1>3, <1>4, <2>2, <2>3, <2>4, <2>5
  <1> QED
    BY <1>5, <1>6
-----------------------------------------------------------------------------
(* Types.                                                                  *)

(* Where the handlers of the two answers are when they read.               *)
Getting == {"get_id", "get_items", "get_pair", "get_ts", "get_value"}
Setting == {"set_array", "set_id", "set_ts", "set_result"}

(* A handler that is reading has a data point to do, and one that reads    *)
(* values has a value to read: the counters do not wrap.                   *)
DpTypes ==
    /\ dpPc \in {"login", "idle"} \cup Getting \cup Setting
    /\ dpWire \subseteq {"get", "set"}
    /\ dpObj \in Objects /\ dpIn \in Seq(Streamed)
    /\ dpLog \in Seq(Entries) /\ dpSent \in Seq(Entries)
    /\ dpCount \in Nat /\ dpCount \in DpCounts \cup {0}
    /\ dpDone \in Nat /\ dpDone <= dpCount /\ dpItems \in Nat /\ dpId \in Nat
    /\ dpCut \in {"all", "some", "nothing"} /\ dpPlain \in BOOLEAN /\ dpStrings \subseteq DpTexts
    /\ dpPc \in Getting \cup Setting => dpDone < dpCount
    /\ dpPc \in {"get_pair", "get_ts", "get_value"} => dpItems > 0

(* It holds initially.                                                     *)
LEMMA TypesInit == DpInit => DpTypes
  <1> SUFFICES ASSUME DpInit PROVE DpTypes
    OBVIOUS
  <1>1. dpIn \in Seq(Streamed) /\ dpLog \in Seq(Entries) /\ dpSent \in Seq(Entries)
    BY EmptySeq DEF DpInit
  <1> QED
    BY <1>1 DEF DpInit, DpTypes, Objects, Getting, Setting

(* What an arrival puts before the handler.                                *)
LEMMA Arrived ==
    ASSUME NEW stream \in Seq(Streamed), stream # << >>, Arrives(stream)
    PROVE  /\ dpIn' \in Seq(Streamed) /\ dpObj' \in Objects
           /\ Len(dpIn') <= Len(stream)
           /\ \A i \in 1 .. Len(dpIn') : dpIn'[i] = stream[i]
           /\ dpCut' \in {"all", "some", "nothing"}
           /\ dpCut' = "all" => Len(dpIn') = Len(stream)
           /\ dpCut' # "nothing" => dpObj' = Nil
           /\ dpDone' = 0 /\ dpItems' = 0 /\ dpId' = 0 /\ dpLog' = << >>
           /\ dpCount' \in Nat /\ dpCount' \in DpCounts
           /\ dpStrings' \subseteq DpTexts
           /\ \A i \in 1 .. Len(dpIn') : dpIn'[i].is = "string" => dpIn'[i].v \in dpStrings'
  <1>1. PICK n \in 0 .. Len(stream) :
           /\ dpIn' = SubSeq(stream, 1, n)
           /\ dpCut' = IF n = Len(stream) THEN "all" ELSE IF n > 0 THEN "some" ELSE "nothing"
    BY DEF Arrives
  <1>2. Len(stream) \in Nat /\ Len(stream) # 0 /\ \A i \in 1 .. n : stream[i] \in Streamed
    BY EmptySeq, LenProperties
  <1>3. /\ dpIn' \in Seq(Streamed) /\ Len(dpIn') = n
        /\ \A i \in 1 .. n : dpIn'[i] = stream[i]
    BY <1>1, <1>2, SubSeqProperties
  <1>4. dpObj' \in IF dpIn' = << >> THEN Uninitialised ELSE {Nil}
    BY DEF Arrives
  <1>5. Uninitialised \cup {Nil} \subseteq Objects
    <2>1. Nil \in Objects /\ Str(DpJunk) \in Objects
      BY ObjectsMade DEF Objects, Texts
    <2>2. Uns(7) \in Objects /\ \A m \in DpLengths : Arr(m) \in Objects
      BY ObjectsMade, DpAssumption DEF Objects
    <2> QED
      BY <2>1, <2>2 DEF Uninitialised
  <1>6. dpCut' # "nothing" => dpIn' # << >>
    BY <1>1, <1>2, <1>3, EmptySeq
  <1>7. dpObj' \in Objects /\ (dpCut' # "nothing" => dpObj' = Nil)
    BY <1>4, <1>5, <1>6
  <1>8. /\ dpDone' = 0 /\ dpItems' = 0 /\ dpId' = 0 /\ dpLog' = << >>
        /\ dpCount' \in DpCounts
    BY DEF Arrives
  <1>9. dpCount' \in Nat
    BY <1>8, DpAssumption
  <1>10. dpStrings' = {dpIn'[k].v : k \in {j \in 1 .. Len(dpIn') : dpIn'[j].is = "string"}}
    BY DEF Arrives
  <1>11. dpStrings' \subseteq DpTexts
    <2>1. \A k \in 1 .. Len(dpIn') : dpIn'[k] \in Streamed
      BY <1>3, ElementOfSeq
    <2>2. \A o \in Streamed : o.is = "string" => o.v \in DpTexts
      BY DEF Streamed
    <2> QED
      BY <1>10, <2>1, <2>2
  <1>12. \A i \in 1 .. Len(dpIn') : dpIn'[i].is = "string" => dpIn'[i].v \in dpStrings'
    BY <1>10
  <1> QED
    BY <1>1, <1>2, <1>3, <1>7, <1>8, <1>9, <1>11, <1>12

(* The answer to the first request.                                        *)
LEMMA GetArrived ==
    ASSUME GetDpAck
    PROVE  /\ \E v, w \in Values :
                 /\ Arrives(GetAnswer(v, w)) /\ dpSent' = GetMeaning(dpCount', v, w)
                 /\ dpPlain' => v \in Plain /\ w \in Plain
           /\ dpPc' = (IF 0 < dpCount' THEN "get_id" ELSE "idle") /\ dpPlain' \in BOOLEAN
  <1>1. PICK v \in Values, w \in Values :
           /\ Arrives(GetAnswer(v, w)) /\ dpSent' = GetMeaning(dpCount', v, w)
           /\ dpPlain' = ({v, w} \subseteq Plain)
    BY IdsAsked DEF GetDpAck, GetAnswer
  <1>2. dpPlain' => v \in Plain /\ w \in Plain
    BY <1>1
  <1>3. dpPc' = (IF 0 < dpCount' THEN "get_id" ELSE "idle")
    BY DEF GetDpAck, AtDp
  <1>4. dpPlain' \in BOOLEAN
    BY <1>1
  <1> QED
    BY <1>1, <1>2, <1>3, <1>4

(* And to the second.                                                      *)
LEMMA SetArrived ==
    ASSUME SetDpAck
    PROVE  /\ \E r, s \in Results : Arrives(SetAnswer(r, s)) /\ dpSent' = SetMeaning(dpCount', <<r, s>>)
           /\ dpPc' = (IF 0 < dpCount' THEN "set_array" ELSE "idle") /\ dpPlain' \in BOOLEAN
  <1>1. PICK r \in Results, s \in Results :
           Arrives(SetAnswer(r, s)) /\ dpSent' = SetMeaning(dpCount', <<r, s>>)
    BY IdsAsked DEF SetDpAck, SetAnswer
  <1>2. dpPc' = (IF 0 < dpCount' THEN "set_array" ELSE "idle") /\ dpPlain' = TRUE
    BY DEF SetDpAck, AtDp
  <1> QED
    BY <1>1, <1>2

(* What is read is an object, of the stream while there is one.            *)
LEMMA ReadsOne ==
    ASSUME DpTypes, NEW l, Reads(l)
    PROVE  /\ dpPc = l /\ UNCHANGED <<dpWire, dpAnswer>>
           /\ dpObj' \in Objects /\ dpIn' \in Seq(Streamed)
           /\ Len(dpIn) > 0 => /\ dpObj' = dpIn[1] /\ Len(dpIn') = Len(dpIn) - 1
                               /\ \A i \in 1 .. Len(dpIn') : dpIn'[i] = dpIn[i + 1]
           /\ Len(dpIn) = 0 => dpObj' \in {dpObj, Nil} /\ dpIn' = dpIn
  <1>1. dpPc = l /\ UNCHANGED <<dpWire, dpAnswer>> /\ GetOne
    BY DEF Reads
  <1>2. dpIn \in Seq(Streamed) /\ dpObj \in Objects /\ Nil \in Objects /\ Streamed \subseteq Objects
    BY DEF DpTypes, Objects
  <1>3. CASE dpIn = << >>
    <2>1. dpObj' \in {dpObj, Nil} /\ dpIn' = dpIn
      BY <1>1, <1>3 DEF GetOne
    <2>2. Len(dpIn) = 0
      BY <1>3, EmptySeq
    <2> QED
      BY <1>1, <1>2, <2>1, <2>2
  <1>4. CASE dpIn # << >>
    <2>1. dpObj' = Head(dpIn) /\ dpIn' = Tail(dpIn)
      BY <1>1, <1>4 DEF GetOne
    <2>2. /\ Head(dpIn) \in Streamed /\ dpIn' \in Seq(Streamed) /\ Len(dpIn') = Len(dpIn) - 1
          /\ \A i \in 1 .. Len(dpIn') : dpIn'[i] = dpIn[i + 1]
      BY <1>2, <1>4, <2>1, HeadTailProperties
    <2>3. Len(dpIn) # 0 /\ Head(dpIn) = dpIn[1]
      BY <1>2, <1>4, EmptySeq
    <2> QED
      BY <1>1, <1>2, <2>1, <2>2, <2>3
  <1> QED
    BY <1>3, <1>4

(* Behind a data point: the next one, or the end.                          *)
LEMMA NextOne ==
    ASSUME DpTypes, dpDone < dpCount, NEW first, NextDp(first)
    PROVE  /\ dpDone' = dpDone + 1 /\ dpDone' \in Nat /\ dpDone' <= dpCount
           /\ dpDone' < dpCount => dpPc' = first
           /\ dpDone' = dpCount => dpPc' = "idle"
  BY DEF NextDp, AtDp, DpTypes

(* Every step keeps the types.                                             *)
LEMMA TypesStep == DpTypes /\ [DpNext]_dpVars => DpTypes'
  <1> SUFFICES ASSUME DpTypes, [DpNext]_dpVars PROVE DpTypes'
    OBVIOUS
  <1>1. CASE LoginAck \/ UNCHANGED dpVars
    <2>1. /\ UNCHANGED <<dpIn, dpObj, dpDone, dpItems, dpId, dpLog, dpAnswer>>
          /\ (dpPc' = dpPc /\ dpWire' = dpWire) \/ (dpPc' = "idle" /\ dpWire' \in {{"get", "set"}, {}})
      BY <1>1 DEF LoginAck, dpVars, dpReader
    <2> QED
      BY <2>1 DEF DpTypes, Getting, Setting, dpAnswer
  <1>2. CASE GetDpAck \/ SetDpAck
    <2>1. /\ \E stream \in Seq(Streamed) : stream # << >> /\ Arrives(stream)
          /\ dpSent' \in Seq(Entries)
      <3>1. CASE GetDpAck
        <4>1. PICK v \in Values, w \in Values :
                 Arrives(GetAnswer(v, w)) /\ dpSent' = GetMeaning(dpCount', v, w)
          BY <3>1, GetArrived
        <4>2. GetAnswer(v, w) \in Seq(Streamed) /\ GetAnswer(v, w) # << >>
          BY AnswersTyped
        <4>3. dpCount' \in Nat
          BY <4>1, <4>2, Arrived
        <4> QED
          BY <4>1, <4>2, <4>3, GetMeantShape
      <3>2. CASE SetDpAck
        <4>1. PICK r \in Results, t \in Results :
                 Arrives(SetAnswer(r, t)) /\ dpSent' = SetMeaning(dpCount', <<r, t>>)
          BY <3>2, SetArrived
        <4>2. SetAnswer(r, t) \in Seq(Streamed) /\ SetAnswer(r, t) # << >>
          BY AnswersTyped
        <4>3. dpCount' \in Nat
          BY <4>1, <4>2, Arrived
        <4> QED
          BY <4>1, <4>2, <4>3, SetMeaningShape
      <3> QED
        BY <1>2, <3>1, <3>2
    <2>2. /\ dpIn' \in Seq(Streamed) /\ dpObj' \in Objects /\ dpCut' \in {"all", "some", "nothing"}
          /\ dpDone' = 0 /\ dpItems' = 0 /\ dpId' = 0 /\ dpLog' = << >>
          /\ dpCount' \in Nat /\ dpCount' \in DpCounts /\ dpStrings' \subseteq DpTexts
      BY <2>1, Arrived
    <2>3. dpLog' \in Seq(Entries)
      BY <2>2, EmptySeq
    <2>4. /\ dpPc' \in {"get_id", "set_array", "idle"} /\ (dpPc' # "idle" => 0 < dpCount')
          /\ dpPlain' \in BOOLEAN
      <3>1. CASE GetDpAck
        BY <3>1, GetArrived
      <3>2. CASE SetDpAck
        BY <3>2, SetArrived
      <3> QED
        BY <1>2, <3>1, <3>2
    <2>5. dpWire' \subseteq {"get", "set"}
      BY <1>2 DEF GetDpAck, SetDpAck, DpTypes
    <2>6. dpPc' \in {"login", "idle"} \cup Getting \cup Setting
      BY <2>4 DEF Getting, Setting
    <2>7. (dpPc' \in Getting \cup Setting => 0 < dpCount') /\ dpPc' \notin {"get_pair", "get_ts", "get_value"}
      BY <2>4 DEF Getting, Setting
    <2> QED
      BY <2>1, <2>2, <2>3, <2>4, <2>5, <2>6, <2>7 DEF DpTypes
  <1>4. ASSUME NEW l \in Getting \cup Setting, Reads(l),
               dpPc' \in {"idle"} \cup Getting \cup Setting,
               dpLog' \in Seq(Entries), dpItems' \in Nat, dpId' \in Nat,
               \/ dpDone' = dpDone
               \/ dpDone' = dpDone + 1 /\ (dpDone' = dpCount => dpPc' = "idle"),
               dpPc' \in {"get_pair", "get_ts", "get_value"} => dpItems' > 0
        PROVE  DpTypes'
    <2>1. /\ dpPc = l /\ UNCHANGED <<dpWire, dpAnswer>> /\ dpObj' \in Objects
          /\ dpIn' \in Seq(Streamed)
      BY <1>4, ReadsOne
    <2>2. dpDone < dpCount /\ dpDone \in Nat /\ dpCount \in Nat
      BY <1>4, <2>1 DEF DpTypes
    <2>3. dpCount' = dpCount
      BY <2>1 DEF dpAnswer
    <2>4. /\ dpDone' \in Nat /\ dpDone' <= dpCount
          /\ dpPc' \in Getting \cup Setting => dpDone' < dpCount
      <3>1. CASE dpDone' = dpDone
        BY <2>2, <3>1
      <3>2. CASE dpDone' = dpDone + 1 /\ (dpDone' = dpCount => dpPc' = "idle")
        <4>1. dpDone' \in Nat /\ dpDone' <= dpCount /\ (dpDone' # dpCount => dpDone' < dpCount)
          BY <2>2, <3>2
        <4>2. dpPc' \in Getting \cup Setting => dpPc' # "idle"
          BY DEF Getting, Setting
        <4> QED
          BY <3>2, <4>1, <4>2
      <3> QED
        BY <1>4, <3>1, <3>2
    <2> QED
      BY <1>4, <2>1, <2>3, <2>4 DEF DpTypes, dpAnswer
  <1>5. CASE ReadId \/ ReadSetId
    <2>1. PICK l \in {"get_id", "set_id"} : Reads(l)
      BY <1>5 DEF ReadId, ReadSetId
    <2>2. dpObj' \in Objects
      BY <2>1, ReadsOne
    <2>3. dpId' \in Nat
      BY <1>5, <2>2, NumbersTaken DEF ReadId, ReadSetId
    <2>4. dpPc' \in {"get_items", "set_ts"} /\ UNCHANGED <<dpDone, dpItems, dpLog>>
      BY <1>5 DEF ReadId, ReadSetId
    <2> QED
      BY <1>4, <2>1, <2>3, <2>4 DEF DpTypes, Getting, Setting
  <1>6. CASE ReadPair \/ ReadTs \/ ReadSetArray \/ ReadSetTs
    <2>1. PICK l \in {"get_pair", "get_ts", "set_array", "set_ts"} :
             /\ Reads(l) /\ UNCHANGED <<dpDone, dpItems, dpId, dpLog>>
             /\ dpPc' \in {"get_ts", "get_value", "set_id", "set_result", "idle"}
             /\ dpPc' \in {"get_ts", "get_value"} => l \in {"get_pair", "get_ts"}
      BY <1>6 DEF ReadPair, ReadTs, ReadSetArray, ReadSetTs
    <2>2. dpPc = l
      BY <2>1 DEF Reads
    <2> QED
      BY <1>4, <2>1, <2>2 DEF DpTypes, Getting, Setting
  <1>7. CASE ReadItems
    <2>1. /\ Reads("get_items") /\ dpItems' = ArrayLength(dpObj') /\ dpLog' = Append(dpLog, <<"dp", dpId>>)
          /\ dpId' = dpId
          /\ IF dpItems' > 0 THEN dpPc' = "get_pair" /\ dpDone' = dpDone ELSE NextDp("get_id")
      BY <1>7 DEF ReadItems, Logs
    <2>2. dpObj' \in Objects /\ dpPc = "get_items"
      BY <2>1, ReadsOne
    <2>3. dpItems' \in Nat
      BY <2>1, <2>2, NumbersTaken
    <2>4. <<"dp", dpId>> \in Entries
      BY DEF Entries, DpTypes
    <2>5. dpLog' \in Seq(Entries)
      BY <2>1, <2>4, AppendProperties DEF DpTypes
    <2>6. dpDone < dpCount
      BY <2>2 DEF DpTypes, Getting
    <2>7. \/ dpItems' > 0 /\ dpPc' = "get_pair" /\ dpDone' = dpDone
          \/ dpPc' \in {"get_id", "idle"} /\ dpDone' = dpDone + 1 /\ (dpDone' = dpCount => dpPc' = "idle")
      <3>1. NextDp("get_id") => dpPc' \in {"get_id", "idle"}
        BY DEF NextDp, AtDp
      <3> QED
        BY <2>1, <2>6, <3>1, NextOne
    <2>8. dpId' \in Nat
      BY <2>1 DEF DpTypes
    <2> QED
      BY <1>4, <2>1, <2>3, <2>5, <2>7, <2>8 DEF Getting, Setting
  <1>8. CASE ReadValue
    <2>1. /\ Reads("get_value") /\ dpItems' = dpItems - 1 /\ dpId' = dpId
          /\ dpLog' = (IF dpObj'.is = "string" THEN Append(dpLog, <<"value", dpObj'.v>>) ELSE dpLog)
          /\ IF dpItems > 1 THEN dpPc' = "get_pair" /\ dpDone' = dpDone ELSE NextDp("get_id")
      BY <1>8 DEF ReadValue, Logs
    <2>2. dpObj' \in Objects /\ dpPc = "get_value"
      BY <2>1, ReadsOne
    <2>3. dpObj'.is = "string" => <<"value", dpObj'.v>> \in Entries
      <3>1. dpObj'.is = "string" => dpObj'.v \in Texts
        BY <2>2, TextsTaken
      <3> QED
        BY <3>1 DEF Entries
    <2>4. dpLog' \in Seq(Entries)
      BY <2>1, <2>3, AppendProperties DEF DpTypes
    <2>5. dpDone < dpCount /\ dpItems \in Nat /\ dpItems > 0 /\ dpId' \in Nat
      BY <2>1, <2>2 DEF DpTypes, Getting
    <2>6. \/ dpItems > 1 /\ dpPc' = "get_pair" /\ dpDone' = dpDone
          \/ dpPc' \in {"get_id", "idle"} /\ dpDone' = dpDone + 1 /\ (dpDone' = dpCount => dpPc' = "idle")
      <3>1. NextDp("get_id") => dpPc' \in {"get_id", "idle"}
        BY DEF NextDp, AtDp
      <3> QED
        BY <2>1, <2>5, <3>1, NextOne
    <2>7. dpItems' \in Nat /\ (dpItems > 1 => dpItems' > 0)
      BY <2>1, <2>5
    <2> QED
      BY <1>4, <2>1, <2>4, <2>5, <2>6, <2>7 DEF Getting, Setting
  <1>9. CASE ReadSetResult
    <2>1. /\ Reads("set_result") /\ dpLog' = Append(dpLog, <<"result", dpId, Unsigned(dpObj')>>)
          /\ NextDp("set_array") /\ dpItems' = dpItems /\ dpId' = dpId
      BY <1>9 DEF ReadSetResult, Logs
    <2>2. dpObj' \in Objects /\ dpPc = "set_result"
      BY <2>1, ReadsOne
    <2>3. dpItems' \in Nat /\ dpId' \in Nat /\ dpDone < dpCount
      BY <2>1, <2>2 DEF DpTypes, Setting
    <2>4. <<"result", dpId, Unsigned(dpObj')>> \in Entries
      BY <2>1, <2>2, <2>3, NumbersTaken DEF Entries
    <2>5. dpLog' \in Seq(Entries)
      BY <2>1, <2>4, AppendProperties DEF DpTypes
    <2>6. dpPc' \in {"set_array", "idle"} /\ dpDone' = dpDone + 1 /\ (dpDone' = dpCount => dpPc' = "idle")
      <3>1. dpPc' \in {"set_array", "idle"}
        BY <2>1 DEF NextDp, AtDp
      <3> QED
        BY <2>1, <2>3, <3>1, NextOne
    <2> QED
      BY <1>4, <2>1, <2>3, <2>5, <2>6 DEF Getting, Setting
  <1> QED
    BY <1>1, <1>2, <1>5, <1>6, <1>7, <1>8, <1>9 DEF DpNext

(* Whatever the server holds and however the answers are cut, no counter   *)
(* of the handlers leaves its range.                                       *)
THEOREM DataPointTypes == DpSpec => []DpTypeOK
  <1>1. DpTypes => DpTypeOK
    <2> SUFFICES ASSUME DpTypes PROVE DpTypeOK
      OBVIOUS
    <2>1. dpObj.is \in {"array", "unsigned", "string", "nil"}
      BY DEF DpTypes, Objects, Streamed, Nil
    <2>2. \A o \in Streamed : o.is \in {"array", "unsigned", "string"}
      BY DEF Streamed
    <2>3. \A k \in DOMAIN dpIn : dpIn[k] \in Streamed
      BY LenProperties DEF DpTypes
    <2> QED
      BY <2>1, <2>2, <2>3, IdsAsked DEF DpTypes, DpTypeOK, Getting, Setting
  <1> QED
    BY <1>1, TypesInit, TypesStep, PTL DEF DpSpec
-----------------------------------------------------------------------------
(* An answer that is there as a whole.                                     *)

(* What is left of the stream is what it holds from the k-th object on.    *)
Rest(stream, k) ==
    /\ Len(dpIn) = Len(stream) - (k - 1)
    /\ \A i \in 1 .. Len(dpIn) : dpIn[i] = stream[i + (k - 1)]

(* The log holds the first n entries of what was meant.                    *)
LoggedOf(meant, n) == Len(dpLog) = n /\ \A i \in 1 .. n : dpLog[i] = meant[i]

(* The handler of the first answer stands at the object it takes itself to *)
(* stand at, and has logged what was meant so far.                         *)
GettingAt(n, v, w) ==
    /\ dpCount = n /\ dpSent = GetMeaning(n, v, w)
    /\ \/ /\ dpPc = "get_id"
          /\ Rest(GetAnswer(v, w), GetBehind(dpDone, v) + 1)
          /\ LoggedOf(GetMeaning(n, v, w), MeantBehind(dpDone, v))
       \/ /\ dpPc = "get_items" /\ dpId = DpAsked[dpDone + 1]
          /\ Rest(GetAnswer(v, w), GetBehind(dpDone, v) + 2)
          /\ LoggedOf(GetMeaning(n, v, w), MeantBehind(dpDone, v))
       \/ /\ dpPc = "get_pair" /\ dpItems = 1 /\ Current(dpDone, v, w) # << >>
          /\ Rest(GetAnswer(v, w), GetBehind(dpDone, v) + 3)
          /\ LoggedOf(GetMeaning(n, v, w), MeantBehind(dpDone, v) + 1)
       \/ /\ dpPc = "get_ts" /\ dpItems = 1 /\ Current(dpDone, v, w) # << >>
          /\ Rest(GetAnswer(v, w), GetBehind(dpDone, v) + 4)
          /\ LoggedOf(GetMeaning(n, v, w), MeantBehind(dpDone, v) + 1)
       \/ /\ dpPc = "get_value" /\ dpItems = 1 /\ Current(dpDone, v, w) # << >>
          /\ Rest(GetAnswer(v, w), GetBehind(dpDone, v) + 5)
          /\ LoggedOf(GetMeaning(n, v, w), MeantBehind(dpDone, v) + 1)

(* So does that of the second, which never reads behind a refused entry.   *)
SettingAt(n, r, s) ==
    /\ dpCount = n /\ dpSent = SetMeaning(n, <<r, s>>)
    /\ LoggedOf(SetMeaning(n, <<r, s>>), dpDone)
    /\ dpDone = 1 => r # Refused
    /\ \/ /\ dpPc = "set_array"
          /\ Rest(SetAnswer(r, s), SetBehind(dpDone) + 1)
       \/ /\ dpPc = "set_id" /\ Current(dpDone, r, s) # Refused
          /\ Rest(SetAnswer(r, s), SetBehind(dpDone) + 2)
       \/ /\ dpPc = "set_ts" /\ Current(dpDone, r, s) # Refused
          /\ dpId = DpAsked[dpDone + 1]
          /\ Rest(SetAnswer(r, s), SetBehind(dpDone) + 3)
       \/ /\ dpPc = "set_result" /\ Current(dpDone, r, s) # Refused
          /\ dpId = DpAsked[dpDone + 1]
          /\ Rest(SetAnswer(r, s), SetBehind(dpDone) + 4)

(* Of a whole answer of plain values everything that was counted is        *)
(* logged, or a handler stands within it.                                  *)
Whole == dpCut = "all" /\ dpPlain /\ dpCount <= Len(DpAsked)
AllInv == Whole =>
    /\ dpPc \in {"login", "idle"} => dpLog = dpSent
    /\ dpPc \in Getting => \E n \in {1, 2} : \E v, w \in Plain : GettingAt(n, v, w)
    /\ dpPc \in Setting => \E n \in {1, 2} : \E r, s \in Results : SettingAt(n, r, s)

(* The k-th object is read, and the rest begins behind it.                 *)
LEMMA RestRead ==
    ASSUME DpTypes, NEW l, Reads(l), NEW stream \in Seq(Streamed), NEW k \in 1 .. Len(stream),
           Rest(stream, k)
    PROVE  dpObj' = stream[k] /\ Rest(stream, k + 1)'
  <1>1. /\ Len(stream) \in Nat /\ Len(dpIn) = Len(stream) - (k - 1) /\ Len(dpIn) > 0
        /\ \A i \in 1 .. Len(dpIn) : dpIn[i] = stream[i + (k - 1)]
    BY LenProperties DEF Rest
  <1>2. /\ dpObj' = dpIn[1] /\ Len(dpIn') = Len(dpIn) - 1
        /\ \A i \in 1 .. Len(dpIn') : dpIn'[i] = dpIn[i + 1]
    BY <1>1, ReadsOne
  <1>3. dpIn[1] = stream[k]
    <2>1. 1 \in 1 .. Len(dpIn) /\ 1 + (k - 1) = k
      BY <1>1
    <2> QED
      BY <1>1, <2>1
  <1>4. Len(dpIn') = Len(stream) - ((k + 1) - 1)
    BY <1>1, <1>2
  <1>5. ASSUME NEW i \in 1 .. Len(dpIn')
        PROVE  dpIn'[i] = stream[i + ((k + 1) - 1)]
    <2>1. i + 1 \in 1 .. Len(dpIn) /\ (i + 1) + (k - 1) = i + ((k + 1) - 1)
      BY <1>1, <1>2
    <2>2. dpIn'[i] = dpIn[i + 1] /\ dpIn[i + 1] = stream[(i + 1) + (k - 1)]
      BY <1>1, <1>2, <2>1
    <2> QED
      BY <2>1, <2>2
  <1> QED
    BY <1>2, <1>3, <1>4, <1>5 DEF Rest

(* The next entry is logged.                                               *)
LEMMA LoggedNext ==
    ASSUME DpTypes, NEW meant, NEW n \in Nat, LoggedOf(meant, n),
           NEW e \in Entries, dpLog' = Append(dpLog, e), meant[n + 1] = e
    PROVE  LoggedOf(meant, n + 1)'
  <1>1. dpLog \in Seq(Entries) /\ Len(dpLog) = n /\ \A i \in 1 .. n : dpLog[i] = meant[i]
    BY DEF DpTypes, LoggedOf
  <1>2. /\ Len(dpLog') = n + 1 /\ dpLog'[n + 1] = e
        /\ \A i \in 1 .. n : dpLog'[i] = dpLog[i]
    BY <1>1, AppendProperties
  <1>3. ASSUME NEW i \in 1 .. n + 1
        PROVE  dpLog'[i] = meant[i]
    <2>1. CASE i = n + 1
      BY <1>2, <2>1
    <2>2. CASE i # n + 1
      BY <1>1, <1>2, <2>2
    <2> QED
      BY <2>1, <2>2
  <1> QED
    BY <1>2, <1>3 DEF LoggedOf

(* When all that was meant is logged, the two are the same.                *)
LEMMA LoggedAll ==
    ASSUME NEW log \in Seq(Entries), NEW meant \in Seq(Entries),
           Len(log) = Len(meant), \A i \in 1 .. Len(meant) : log[i] = meant[i]
    PROVE  log = meant
  BY SeqEqual

(* Behind a data point of the first answer.                                *)
LEMMA GetNextOne ==
    ASSUME DpTypes, DpTypes', NEW n \in {1, 2}, NEW d \in {0, 1}, d = dpDone, d < n,
           dpCount = n, dpCount' = n, NEW v \in Plain, NEW w \in Plain,
           NextDp("get_id"), dpSent' = GetMeaning(n, v, w),
           Rest(GetAnswer(v, w), GetBehind(d, v) + GetBehind(1, Current(d, v, w)) + 1)',
           LoggedOf(GetMeaning(n, v, w), MeantBehind(d, v) + MeantBehind(1, Current(d, v, w)))'
    PROVE  AllInv'
  <1>1. CASE d = 0 /\ n = 2
    <2>1. dpPc' = "get_id" /\ dpDone' = 1
      BY <1>1, NextOne
    <2>2. /\ GetBehind(d, v) + GetBehind(1, Current(d, v, w)) = GetBehind(1, v)
          /\ MeantBehind(d, v) + MeantBehind(1, Current(d, v, w)) = MeantBehind(1, v)
      BY <1>1 DEF GetBehind, MeantBehind, Current
    <2>3. Rest(GetAnswer(v, w), GetBehind(1, v) + 1)' /\ LoggedOf(GetMeaning(n, v, w), MeantBehind(1, v))'
      BY <2>2
    <2>4. GettingAt(n, v, w)'
      BY <2>1, <2>3 DEF GettingAt
    <2> QED
      BY <2>1, <2>4 DEF AllInv, Getting, Setting
  <1>2. CASE d + 1 = n
    <2>1. dpPc' = "idle"
      BY <1>2, NextOne
    <2>2. v \in Values /\ w \in Values
      BY PlainShape
    <2>3. /\ GetMeaning(n, v, w) \in Seq(Entries)
          /\ Len(GetMeaning(n, v, w)) = MeantBehind(d, v) + MeantBehind(1, Current(d, v, w))
      <3>1. /\ GetMeaning(n, v, w) \in Seq(Entries)
            /\ Len(GetMeaning(n, v, w)) = IF n = 0 THEN 0 ELSE IF n = 1 THEN MeantBehind(1, v)
                                          ELSE MeantBehind(1, v) + MeantBehind(1, w)
        <4>1. n \in Nat
          OBVIOUS
        <4> QED
          BY <2>2, <4>1, GetMeantShape
      <3>2. CASE d = 0
        BY <1>2, <3>1, <3>2 DEF MeantBehind, Current
      <3>3. CASE d = 1
        BY <1>2, <3>1, <3>3 DEF Current
      <3> QED
        BY <3>1, <3>2, <3>3
    <2>4. dpLog' = dpSent'
      <3>1. dpLog' \in Seq(Entries)
        BY DEF DpTypes
      <3>2. /\ Len(dpLog') = Len(GetMeaning(n, v, w))
            /\ \A i \in 1 .. Len(GetMeaning(n, v, w)) : dpLog'[i] = GetMeaning(n, v, w)[i]
        BY <2>3 DEF LoggedOf
      <3> QED
        BY <2>3, <3>1, <3>2, LoggedAll
    <2> QED
      BY <2>1, <2>4 DEF AllInv, Getting, Setting
  <1> QED
    BY <1>1, <1>2

(* The handler of the first answer understands it.                         *)
LEMMA GetStep ==
    ASSUME DpTypes, DpTypes', AllInv, Whole,
           ReadId \/ ReadItems \/ ReadPair \/ ReadTs \/ ReadValue
    PROVE  AllInv'
  <1>1. PICK l \in Getting : Reads(l)
    BY DEF ReadId, ReadItems, ReadPair, ReadTs, ReadValue, Getting
  <1>2. dpPc = l /\ UNCHANGED <<dpWire, dpAnswer>> /\ dpDone \in {0, 1} /\ dpDone < dpCount
    <2>1. dpPc = l /\ UNCHANGED <<dpWire, dpAnswer>>
      BY <1>1, ReadsOne
    <2>2. dpDone \in Nat /\ dpCount \in Nat /\ dpDone < dpCount /\ dpCount <= 2
      BY <2>1, IdsAsked DEF DpTypes, Whole
    <2> QED
      BY <2>1, <2>2
  <1>3. PICK n \in {1, 2}, v \in Plain, w \in Plain : GettingAt(n, v, w)
    BY <1>2 DEF AllInv
  <1> DEFINE A == GetAnswer(v, w)
             M == GetMeaning(n, v, w)
  <1>4. PICK d \in {0, 1} : d = dpDone
    BY <1>2
  <1> DEFINE b == GetBehind(d, v)
             c == MeantBehind(d, v)
             x == Current(d, v, w)
  <1>5. /\ A \in Seq(Streamed) /\ b \in Nat /\ x \in Plain
        /\ A[b + 1] = Uns(DpAsked[d + 1]) /\ A[b + 2] = Arr(Len(x))
        /\ x # << >> => A[b + 3] = Arr(2) /\ A[b + 4] = Uns(1) /\ A[b + 5] = x[1]
    BY GetAnswerShape, ZenonT(40)
  <1>6. b + 2 <= Len(A) /\ (x # << >> => b + 5 <= Len(A))
    <2>1. Len(A) = GetBehind(1, v) + GetBehind(1, w)
      BY GetAnswerShape
    <2> QED
      BY <2>1 DEF GetBehind, Current
  <1>7. /\ M \in Seq(Entries) /\ c \in Nat /\ M[c + 1] = <<"dp", DpAsked[d + 1]>>
        /\ HasText(x) => M[c + 2] = <<"value", x[1].v>>
    <2>1. n \in Nat /\ v \in Values /\ w \in Values /\ d < n
      BY <1>2, <1>3, <1>4, PlainShape DEF GettingAt
    <2>2. GetMeaning(n, v, w) \in Seq(Entries)
      BY <2>1, GetMeantShape
    <2>3. /\ MeantBehind(d, v) \in Nat
          /\ GetMeaning(n, v, w)[MeantBehind(d, v) + 1] = <<"dp", DpAsked[d + 1]>>
          /\ HasText(Current(d, v, w)) =>
               GetMeaning(n, v, w)[MeantBehind(d, v) + 2] = <<"value", Current(d, v, w)[1].v>>
      BY <2>1, GetMeantAt, Zenon
    <2> QED
      BY <2>2, <2>3, Zenon
  <1>8. dpSent = M /\ dpSent' = M /\ dpCount = n /\ dpCount' = n /\ d < n
    BY <1>2, <1>3, <1>4 DEF GettingAt, dpAnswer
  <1>9. CASE ReadId
    <2>1. Reads("get_id") /\ dpPc' = "get_items" /\ dpId' = Unsigned(dpObj') /\ UNCHANGED <<dpDone, dpLog>>
      BY <1>9 DEF ReadId
    <2>2. Rest(A, b + 1) /\ LoggedOf(M, c)
      BY <1>3, <1>4, <2>1 DEF GettingAt, Reads
    <2> HIDE DEF A, M, b, c, x
    <2>3. b + 1 \in 1 .. Len(A) /\ (b + 1) + 1 = b + 2
      BY <1>5, <1>6, LenProperties
    <2>4. dpObj' = Uns(DpAsked[d + 1]) /\ Rest(A, b + 2)'
      BY <1>5, <2>1, <2>2, <2>3, RestRead
    <2>5. dpId' = DpAsked[d + 1]
      BY <2>1, <2>4, IdsAsked, ObjectsMade
    <2>6. LoggedOf(M, c)'
      BY <2>1, <2>2 DEF LoggedOf
    <2>7. dpDone' = d
      BY <1>4, <2>1
    <2>8. GettingAt(n, v, w)'
      BY <1>8, <2>1, <2>4, <2>5, <2>6, <2>7 DEF GettingAt, A, M, b, c
    <2> QED
      BY <2>1, <2>8 DEF AllInv, Getting, Setting
  <1>10. CASE ReadItems
    <2>1. /\ Reads("get_items") /\ dpItems' = ArrayLength(dpObj') /\ dpLog' = Append(dpLog, <<"dp", dpId>>)
          /\ IF dpItems' > 0 THEN dpPc' = "get_pair" /\ dpDone' = dpDone ELSE NextDp("get_id")
      BY <1>10 DEF ReadItems, Logs
    <2>2. Rest(A, b + 2) /\ LoggedOf(M, c) /\ dpId = DpAsked[d + 1]
      BY <1>3, <1>4, <2>1 DEF GettingAt, Reads
    <2> HIDE DEF A, M, b, c, x
    <2>3. b + 2 \in 1 .. Len(A) /\ (b + 2) + 1 = b + 3
      BY <1>5, <1>6, LenProperties
    <2>4. dpObj' = Arr(Len(x)) /\ Rest(A, b + 3)'
      BY <1>5, <2>1, <2>2, <2>3, RestRead
    <2>5. Len(x) \in {0, 1} /\ (Len(x) = 0 <=> x = << >>)
      BY <1>5, PlainShape
    <2>6. dpItems' = Len(x)
      BY <2>1, <2>4, <2>5, ObjectsMade
    <2>7. LoggedOf(M, c + 1)'
      <3>1. <<"dp", dpId>> \in Entries
        BY DEF Entries, DpTypes
      <3> QED
        BY <1>7, <2>1, <2>2, <3>1, LoggedNext
    <2>8. CASE x # << >>
      <3>1. dpItems' = 1 /\ dpPc' = "get_pair" /\ dpDone' = d
        BY <1>4, <2>1, <2>5, <2>6, <2>8
      <3>2. GettingAt(n, v, w)'
        BY <1>8, <2>4, <2>7, <2>8, <3>1 DEF GettingAt, A, M, b, c, x
      <3> QED
        BY <3>1, <3>2 DEF AllInv, Getting, Setting
    <2>9. CASE x = << >>
      <3>1. NextDp("get_id")
        BY <2>1, <2>5, <2>6, <2>9
      <3>2. GetBehind(1, x) = 2 /\ MeantBehind(1, x) = 1
        BY <2>5, <2>9 DEF GetBehind, MeantBehind, HasText
      <3>3. Rest(A, b + GetBehind(1, x) + 1)' /\ LoggedOf(M, c + MeantBehind(1, x))'
        <4>1. b + GetBehind(1, x) + 1 = b + 3
          BY <1>5, <3>2
        <4> QED
          BY <2>4, <2>7, <3>2, <4>1
      <3> QED
        BY <1>4, <1>8, <3>1, <3>3, GetNextOne DEF A, M, b, c, x
    <2> QED
      BY <2>8, <2>9
  <1>11. CASE ReadPair
    <2>1. Reads("get_pair") /\ dpPc' = "get_ts" /\ UNCHANGED <<dpDone, dpItems, dpLog>>
      BY <1>11 DEF ReadPair
    <2>2. Rest(A, b + 3) /\ LoggedOf(M, c + 1) /\ x # << >> /\ dpItems = 1
      BY <1>3, <1>4, <2>1 DEF GettingAt, Reads
    <2> HIDE DEF A, M, b, c, x
    <2>3. b + 3 \in 1 .. Len(A) /\ (b + 3) + 1 = b + 4
      BY <1>5, <1>6, <2>2, LenProperties
    <2>4. Rest(A, b + 4)'
      BY <1>5, <2>1, <2>2, <2>3, RestRead
    <2>5. LoggedOf(M, c + 1)' /\ dpDone' = d /\ dpItems' = 1
      BY <1>4, <2>1, <2>2 DEF LoggedOf
    <2>6. GettingAt(n, v, w)'
      BY <1>8, <2>1, <2>2, <2>4, <2>5 DEF GettingAt, A, M, b, c, x
    <2> QED
      BY <2>1, <2>6 DEF AllInv, Getting, Setting
  <1>12. CASE ReadTs
    <2>1. Reads("get_ts") /\ dpPc' = "get_value" /\ UNCHANGED <<dpDone, dpItems, dpLog>>
      BY <1>12 DEF ReadTs
    <2>2. Rest(A, b + 4) /\ LoggedOf(M, c + 1) /\ x # << >> /\ dpItems = 1
      BY <1>3, <1>4, <2>1 DEF GettingAt, Reads
    <2> HIDE DEF A, M, b, c, x
    <2>3. b + 4 \in 1 .. Len(A) /\ (b + 4) + 1 = b + 5
      BY <1>5, <1>6, <2>2, LenProperties
    <2>4. Rest(A, b + 5)'
      BY <1>5, <2>1, <2>2, <2>3, RestRead
    <2>5. LoggedOf(M, c + 1)' /\ dpDone' = d /\ dpItems' = 1
      BY <1>4, <2>1, <2>2 DEF LoggedOf
    <2>6. GettingAt(n, v, w)'
      BY <1>8, <2>1, <2>2, <2>4, <2>5 DEF GettingAt, A, M, b, c, x
    <2> QED
      BY <2>1, <2>6 DEF AllInv, Getting, Setting
  <1>13. CASE ReadValue
    <2>1. /\ Reads("get_value")
          /\ dpLog' = (IF dpObj'.is = "string" THEN Append(dpLog, <<"value", dpObj'.v>>) ELSE dpLog)
          /\ IF dpItems > 1 THEN dpPc' = "get_pair" /\ dpDone' = dpDone ELSE NextDp("get_id")
      BY <1>13 DEF ReadValue, Logs
    <2>2. Rest(A, b + 5) /\ LoggedOf(M, c + 1) /\ x # << >> /\ dpItems = 1
      BY <1>3, <1>4, <2>1 DEF GettingAt, Reads
    <2> HIDE DEF A, M, b, c, x
    <2>3. b + 5 \in 1 .. Len(A)
      BY <1>5, <1>6, <2>2, LenProperties
    <2>4. dpObj' = x[1] /\ Rest(A, (b + 5) + 1)'
      BY <1>5, <2>1, <2>2, <2>3, RestRead
    <2>5. NextDp("get_id")
      BY <2>1, <2>2
    <2>6. Len(x) = 1
      BY <1>5, <2>2, PlainShape
    <2>7. GetBehind(1, x) = 5
      BY <2>2 DEF GetBehind
    <2>8. LoggedOf(M, c + MeantBehind(1, x))'
      <3>1. CASE HasText(x)
        <4>1. x[1].is = "string" /\ x[1].v \in Texts
          BY <1>5, <3>1, PlainShape DEF HasText, Texts
        <4>2. dpLog' = Append(dpLog, <<"value", x[1].v>>) /\ <<"value", x[1].v>> \in Entries
          BY <2>1, <2>4, <4>1 DEF Entries
        <4>3. c + 1 \in Nat /\ (c + 1) + 1 = c + 2
          BY <1>7
        <4>4. LoggedOf(M, c + 2)'
          BY <1>7, <2>2, <3>1, <4>2, <4>3, LoggedNext
        <4>5. MeantBehind(1, x) = 2
          BY <3>1 DEF MeantBehind
        <4> QED
          BY <4>4, <4>5
      <3>2. CASE ~HasText(x)
        <4>1. x[1].is # "string"
          BY <2>6, <3>2 DEF HasText
        <4>2. dpLog' = dpLog
          BY <2>1, <2>4, <4>1
        <4>3. LoggedOf(M, c + 1)'
          BY <2>2, <4>2 DEF LoggedOf
        <4>4. MeantBehind(1, x) = 1
          BY <3>2 DEF MeantBehind
        <4> QED
          BY <4>3, <4>4
      <3> QED
        BY <3>1, <3>2
    <2>9. Rest(A, b + GetBehind(1, x) + 1)'
      BY <2>4, <2>7
    <2> QED
      BY <1>4, <1>8, <2>5, <2>8, <2>9, GetNextOne DEF A, M, b, c, x
  <1> QED
    BY <1>9, <1>10, <1>11, <1>12, <1>13

(* The handler of the second answer understands it, or stops at the first  *)
(* entry that was refused.                                                 *)
LEMMA SetStep ==
    ASSUME DpTypes, DpTypes', AllInv, Whole,
           ReadSetArray \/ ReadSetId \/ ReadSetTs \/ ReadSetResult
    PROVE  AllInv'
  <1>1. PICK l \in Setting : Reads(l)
    BY DEF ReadSetArray, ReadSetId, ReadSetTs, ReadSetResult, Setting
  <1>2. dpPc = l /\ UNCHANGED <<dpWire, dpAnswer>> /\ dpDone \in {0, 1} /\ dpDone < dpCount
    <2>1. dpPc = l /\ UNCHANGED <<dpWire, dpAnswer>>
      BY <1>1, ReadsOne
    <2>2. dpDone \in Nat /\ dpCount \in Nat /\ dpDone < dpCount /\ dpCount <= 2
      BY <2>1, IdsAsked DEF DpTypes, Whole
    <2> QED
      BY <2>1, <2>2
  <1>3. PICK n \in {1, 2}, r \in Results, s \in Results : SettingAt(n, r, s)
    BY <1>2 DEF AllInv
  <1> DEFINE A == SetAnswer(r, s)
             M == SetMeaning(n, <<r, s>>)
  <1>4. PICK d \in {0, 1} : d = dpDone
    BY <1>2
  <1> DEFINE b == SetBehind(d)
             x == Current(d, r, s)
  <1>5. d = 1 => r # Refused
    BY <1>3, <1>4 DEF SettingAt
  <1>6. /\ A \in Seq(Streamed) /\ b \in Nat /\ b + 1 <= Len(A)
        /\ x = Refused => A[b + 1] = Arr(1)
        /\ x # Refused => /\ b + 4 <= Len(A) /\ A[b + 1] = Arr(3) /\ A[b + 2] = Uns(DpAsked[d + 1])
                          /\ A[b + 3] = Uns(1) /\ A[b + 4] = Uns(x) /\ x \in Nat
    BY <1>5, SetAnswerShape
  <1>7. /\ M \in Seq(Entries)
        /\ Len(M) = IF r = Refused THEN 0 ELSE IF n = 1 \/ s = Refused THEN 1 ELSE 2
        /\ r # Refused => M[1] = <<"result", SwVersion, r>>
        /\ n = 2 /\ r # Refused /\ s # Refused => M[2] = <<"result", SysVersion, s>>
    <2>1. n \in Nat /\ n # 0 /\ (n = 2 => n \notin {0, 1})
      OBVIOUS
    <2> QED
      BY <2>1, SetMeaningShape
  <1>8. dpSent = M /\ dpSent' = M /\ LoggedOf(M, d) /\ dpCount = n /\ dpCount' = n /\ d < n
    BY <1>2, <1>3, <1>4 DEF SettingAt, dpAnswer
  <1>9. CASE ReadSetArray
    <2>1. /\ Reads("set_array") /\ UNCHANGED <<dpDone, dpLog>>
          /\ dpPc' = IF ArrayLength(dpObj') = 3 THEN "set_id" ELSE "idle"
      BY <1>9 DEF ReadSetArray
    <2>2. Rest(A, b + 1)
      BY <1>3, <1>4, <2>1 DEF SettingAt, Reads
    <2> HIDE DEF A, M, b, x
    <2>3. b + 1 \in 1 .. Len(A) /\ (b + 1) + 1 = b + 2
      BY <1>6, LenProperties
    <2>4. dpObj' = A[b + 1] /\ Rest(A, b + 2)'
      BY <1>6, <2>1, <2>2, <2>3, RestRead
    <2>5. LoggedOf(M, d)' /\ dpDone' = d
      BY <1>4, <1>8, <2>1 DEF LoggedOf
    <2>6. CASE x # Refused
      <3>1. dpPc' = "set_id"
        BY <1>6, <2>1, <2>4, <2>6, ObjectsMade
      <3>2. SettingAt(n, r, s)'
        BY <1>5, <1>8, <2>4, <2>5, <2>6, <3>1 DEF SettingAt, A, M, b, x
      <3> QED
        BY <3>1, <3>2 DEF AllInv, Getting, Setting
    <2>7. CASE x = Refused
      <3>1. ArrayLength(dpObj') = 1
        BY <1>6, <2>4, <2>7, ObjectsMade
      <3>2. dpPc' = "idle"
        BY <2>1, <3>1
      <3>3. Len(M) = d
        BY <1>5, <1>7, <1>8, <2>7 DEF x, Current
      <3>4. dpLog' \in Seq(Entries) /\ Len(dpLog') = Len(M) /\ \A i \in 1 .. Len(M) : dpLog'[i] = M[i]
        BY <2>5, <3>3 DEF LoggedOf, DpTypes
      <3>5. dpLog' = M
        BY <1>7, <3>4, LoggedAll
      <3> QED
        BY <1>8, <3>2, <3>5 DEF AllInv, Getting, Setting
    <2> QED
      BY <2>6, <2>7
  <1>10. CASE ReadSetId
    <2>1. Reads("set_id") /\ dpPc' = "set_ts" /\ dpId' = Unsigned(dpObj') /\ UNCHANGED <<dpDone, dpLog>>
      BY <1>10 DEF ReadSetId
    <2>2. Rest(A, b + 2) /\ x # Refused
      BY <1>3, <1>4, <2>1 DEF SettingAt, Reads
    <2> HIDE DEF A, M, b, x
    <2>3. b + 2 \in 1 .. Len(A) /\ (b + 2) + 1 = b + 3
      BY <1>6, <2>2, LenProperties
    <2>4. dpObj' = Uns(DpAsked[d + 1]) /\ Rest(A, b + 3)'
      BY <1>6, <2>1, <2>2, <2>3, RestRead
    <2>5. LoggedOf(M, d)' /\ dpDone' = d
      BY <1>4, <1>8, <2>1 DEF LoggedOf
    <2>6. dpId' = DpAsked[d + 1]
      BY <2>1, <2>4, IdsAsked, ObjectsMade
    <2>7. SettingAt(n, r, s)'
      BY <1>5, <1>8, <2>1, <2>2, <2>4, <2>5, <2>6 DEF SettingAt, A, M, b, x
    <2> QED
      BY <2>1, <2>7 DEF AllInv, Getting, Setting
  <1>11. CASE ReadSetTs
    <2>1. Reads("set_ts") /\ dpPc' = "set_result" /\ UNCHANGED <<dpDone, dpId, dpLog>>
      BY <1>11 DEF ReadSetTs
    <2>2. Rest(A, b + 3) /\ x # Refused /\ dpId = DpAsked[d + 1]
      BY <1>3, <1>4, <2>1 DEF SettingAt, Reads
    <2> HIDE DEF A, M, b, x
    <2>3. b + 3 \in 1 .. Len(A) /\ (b + 3) + 1 = b + 4
      BY <1>6, <2>2, LenProperties
    <2>4. Rest(A, b + 4)'
      BY <1>6, <2>1, <2>2, <2>3, RestRead
    <2>5. LoggedOf(M, d)' /\ dpDone' = d /\ dpId' = DpAsked[d + 1]
      BY <1>4, <1>8, <2>1, <2>2 DEF LoggedOf
    <2>6. SettingAt(n, r, s)'
      BY <1>5, <1>8, <2>1, <2>2, <2>4, <2>5 DEF SettingAt, A, M, b, x
    <2> QED
      BY <2>1, <2>6 DEF AllInv, Getting, Setting
  <1>12. CASE ReadSetResult
    <2>1. /\ Reads("set_result") /\ dpLog' = Append(dpLog, <<"result", dpId, Unsigned(dpObj')>>)
          /\ NextDp("set_array")
      BY <1>12 DEF ReadSetResult, Logs
    <2>2. Rest(A, b + 4) /\ x # Refused /\ dpId = DpAsked[d + 1]
      BY <1>3, <1>4, <2>1 DEF SettingAt, Reads
    <2>3. M[d + 1] = <<"result", DpAsked[d + 1], x>> /\ d + 1 <= Len(M) /\ (d + 1 = n => Len(M) = n)
      <3>1. CASE d = 0
        <4>1. x = r /\ d + 1 = 1
          BY <3>1 DEF Current
        <4>2. DpAsked[1] = SwVersion
          BY IdsAsked
        <4> HIDE DEF M, x
        <4>3. M[1] = <<"result", SwVersion, r>>
          BY <1>7, <2>2, <4>1
        <4>4. Len(M) \in {1, 2} /\ (n = 1 => Len(M) = 1)
          BY <1>7, <2>2, <4>1
        <4>5. M[d + 1] = <<"result", DpAsked[d + 1], x>>
          BY <4>1, <4>2, <4>3, Zenon
        <4>6. 1 <= 1 /\ 1 <= 2
          OBVIOUS
        <4> QED
          BY <4>1, <4>4, <4>5, <4>6, Zenon
      <3>2. CASE d = 1
        <4>1. x = s /\ d + 1 = 2
          BY <3>2 DEF Current
        <4>2. DpAsked[2] = SysVersion
          BY IdsAsked
        <4> HIDE DEF M, x
        <4>3. M[2] = <<"result", SysVersion, s>> /\ Len(M) = 2
          BY <1>5, <1>7, <1>8, <2>2, <3>2, <4>1
        <4>4. n = 2
          BY <1>8, <3>2
        <4>5. M[d + 1] = <<"result", DpAsked[d + 1], x>>
          BY <4>1, <4>2, <4>3, Zenon
        <4>6. d + 1 <= Len(M) /\ (d + 1 = n => Len(M) = n)
          BY <4>1, <4>3, <4>4
        <4> QED
          BY <4>5, <4>6
      <3> QED
        BY <1>4, <3>1, <3>2
    <2>4. d = 0 => x = r /\ SetBehind(1) = b + 4
      BY DEF Current, SetBehind
    <2> HIDE DEF A, M, b, x
    <2>5. b + 4 \in 1 .. Len(A)
      BY <1>6, <2>2, LenProperties
    <2>6. dpObj' = Uns(x) /\ Rest(A, (b + 4) + 1)'
      BY <1>6, <2>1, <2>2, <2>5, RestRead
    <2>7. Unsigned(dpObj') = x
      BY <1>6, <2>2, <2>6, ObjectsMade
    <2>8. LoggedOf(M, d + 1)'
      <3>1. <<"result", DpAsked[d + 1], x>> \in Entries
        BY <1>6, <2>2, IdsAsked DEF Entries
      <3> QED
        BY <1>8, <2>1, <2>2, <2>3, <2>7, <3>1, LoggedNext
    <2>9. CASE d = 0 /\ n = 2
      <3>1. dpPc' = "set_array" /\ dpDone' = 1
        BY <1>4, <1>8, <2>1, <2>9, NextOne
      <3>2. Rest(A, SetBehind(1) + 1)'
        BY <2>4, <2>6, <2>9
      <3>3. LoggedOf(M, 1)' /\ r # Refused
        BY <2>2, <2>4, <2>8, <2>9
      <3>4. SettingAt(n, r, s)'
        BY <1>8, <3>1, <3>2, <3>3 DEF SettingAt, A, M
      <3> QED
        BY <3>1, <3>4 DEF AllInv, Getting, Setting
    <2>10. CASE d + 1 = n
      <3>1. dpPc' = "idle"
        BY <1>4, <1>8, <2>1, <2>10, NextOne
      <3>2. dpLog' \in Seq(Entries) /\ Len(dpLog') = Len(M) /\ \A i \in 1 .. Len(M) : dpLog'[i] = M[i]
        <4>1. dpLog' \in Seq(Entries)
          BY DEF DpTypes
        <4>2. Len(M) = n /\ LoggedOf(M, n)'
          BY <2>3, <2>8, <2>10
        <4> QED
          BY <4>1, <4>2 DEF LoggedOf
      <3>3. dpLog' = M
        BY <1>7, <3>2, LoggedAll
      <3> QED
        BY <1>8, <3>1, <3>3 DEF AllInv, Getting, Setting
    <2> QED
      BY <1>8, <2>9, <2>10
  <1> QED
    BY <1>9, <1>10, <1>11, <1>12

(* An answer arrives before its handler.                                   *)
LEMMA ArriveStep ==
    ASSUME DpTypes, GetDpAck \/ SetDpAck
    PROVE  AllInv'
  <1> SUFFICES ASSUME Whole' PROVE AllInv'
    BY DEF AllInv
  <1>0. dpCut' = "all" /\ dpPlain' /\ dpCount' <= 2
    BY IdsAsked DEF Whole
  <1>1. ASSUME NEW stream \in Seq(Streamed), stream # << >>, Arrives(stream)
        PROVE  Rest(stream, 1)' /\ dpDone' = 0 /\ dpLog' = << >> /\ dpCount' \in {0, 1, 2}
    <2>1. /\ dpIn' \in Seq(Streamed) /\ Len(dpIn') = Len(stream)
          /\ \A i \in 1 .. Len(dpIn') : dpIn'[i] = stream[i]
          /\ dpDone' = 0 /\ dpLog' = << >> /\ dpCount' \in Nat
      BY <1>0, <1>1, Arrived
    <2>2. Len(dpIn') \in Nat /\ Len(stream) - (1 - 1) = Len(stream)
      BY <2>1, <1>1, LenProperties
    <2>3. \A i \in 1 .. Len(dpIn') : i + (1 - 1) = i
      BY <2>2
    <2>4. dpCount' \in {0, 1, 2}
      BY <1>0, <2>1
    <2> QED
      BY <2>1, <2>2, <2>3, <2>4 DEF Rest
  <1>2. ASSUME NEW meant \in Seq(Entries), Len(meant) = 0
        PROVE  meant = << >>
    BY <1>2, EmptySeq
  <1>3. CASE GetDpAck
    <2>1. PICK v \in Values, w \in Values :
              /\ Arrives(GetAnswer(v, w)) /\ dpSent' = GetMeaning(dpCount', v, w)
              /\ dpPlain' => v \in Plain /\ w \in Plain
      BY <1>3, GetArrived
    <2>2. GetAnswer(v, w) \in Seq(Streamed) /\ GetAnswer(v, w) # << >>
      BY AnswersTyped
    <2>3. Rest(GetAnswer(v, w), 1)' /\ dpDone' = 0 /\ dpLog' = << >> /\ dpCount' \in {0, 1, 2}
      BY <1>1, <2>1, <2>2
    <2>4. dpPc' = (IF 0 < dpCount' THEN "get_id" ELSE "idle")
      BY <1>3, GetArrived
    <2>5. CASE dpCount' = 0
      <3>1. dpPc' = "idle" /\ dpSent' = << >>
        BY <2>1, <2>4, <2>5 DEF GetMeaning
      <3> QED
        BY <2>3, <3>1 DEF AllInv, Getting, Setting
    <2>6. ASSUME NEW n \in {1, 2}, dpCount' = n
          PROVE  AllInv'
      <3>1. dpPc' = "get_id" /\ dpSent' = GetMeaning(n, v, w)
        BY <2>1, <2>4, <2>6
      <3>2. GetBehind(0, v) + 1 = 1 /\ MeantBehind(0, v) = 0
        BY DEF GetBehind, MeantBehind
      <3>3. LoggedOf(GetMeaning(n, v, w), 0)'
        BY <2>3, EmptySeq DEF LoggedOf
      <3>4. GettingAt(n, v, w)'
        BY <2>3, <2>6, <3>1, <3>2, <3>3 DEF GettingAt
      <3>5. v \in Plain /\ w \in Plain
        BY <1>0, <2>1
      <3> QED
        BY <3>1, <3>4, <3>5 DEF AllInv, Getting, Setting
    <2> QED
      BY <2>3, <2>5, <2>6
  <1>4. CASE SetDpAck
    <2>1. PICK r \in Results, s \in Results :
              Arrives(SetAnswer(r, s)) /\ dpSent' = SetMeaning(dpCount', <<r, s>>)
      BY <1>4, SetArrived
    <2>2. SetAnswer(r, s) \in Seq(Streamed) /\ SetAnswer(r, s) # << >>
      BY AnswersTyped
    <2>3. Rest(SetAnswer(r, s), 1)' /\ dpDone' = 0 /\ dpLog' = << >> /\ dpCount' \in {0, 1, 2}
      BY <1>1, <2>1, <2>2
    <2>4. dpPc' = (IF 0 < dpCount' THEN "set_array" ELSE "idle")
      BY <1>4, SetArrived
    <2>5. CASE dpCount' = 0
      <3>1. dpPc' = "idle" /\ dpSent' = SetMeaning(0, <<r, s>>)
        BY <2>1, <2>4, <2>5
      <3>2. SetMeaning(0, <<r, s>>) = << >>
        <4>1. SetMeaning(0, <<r, s>>) \in Seq(Entries) /\ Len(SetMeaning(0, <<r, s>>)) = 0
          BY SetMeaningShape
        <4> QED
          BY <1>2, <4>1
      <3> QED
        BY <2>3, <3>1, <3>2 DEF AllInv, Getting, Setting
    <2>6. ASSUME NEW n \in {1, 2}, dpCount' = n
          PROVE  AllInv'
      <3>1. dpPc' = "set_array" /\ dpSent' = SetMeaning(n, <<r, s>>)
        BY <2>1, <2>4, <2>6
      <3>2. SetBehind(0) + 1 = 1
        BY DEF SetBehind
      <3>3. LoggedOf(SetMeaning(n, <<r, s>>), 0)'
        BY <2>3, EmptySeq DEF LoggedOf
      <3>4. SettingAt(n, r, s)'
        BY <2>3, <2>6, <3>1, <3>2, <3>3 DEF SettingAt
      <3> QED
        BY <3>1, <3>4 DEF AllInv, Getting, Setting
    <2> QED
      BY <2>3, <2>5, <2>6
  <1> QED
    BY <1>3, <1>4

(* The whole answer is understood through every step.                      *)
LEMMA AllStep == DpTypes /\ AllInv /\ [DpNext]_dpVars => AllInv'
  <1> SUFFICES ASSUME DpTypes, AllInv, [DpNext]_dpVars PROVE AllInv'
    OBVIOUS
  <1>1. DpTypes'
    BY TypesStep
  <1>2. CASE LoginAck \/ UNCHANGED dpVars
    <2>1. UNCHANGED <<dpIn, dpObj, dpDone, dpItems, dpId, dpLog, dpAnswer>>
      BY <1>2 DEF LoginAck, dpVars, dpReader
    <2>2. CASE LoginAck
      <3>1. dpPc = "login" /\ dpPc' = "idle"
        BY <2>2 DEF LoginAck
      <3> QED
        BY <2>1, <3>1 DEF AllInv, Whole, Getting, Setting, dpAnswer
    <2>3. CASE UNCHANGED dpVars
      <3>1. UNCHANGED <<dpPc, dpIn, dpDone, dpItems, dpId, dpLog, dpCount, dpSent, dpCut, dpPlain>>
        BY <2>3 DEF dpVars, dpReader, dpAnswer
      <3>2. ASSUME NEW n \in {1, 2}, NEW v \in Plain, NEW w \in Plain, GettingAt(n, v, w)
            PROVE  GettingAt(n, v, w)'
        BY <3>1, <3>2 DEF GettingAt, Rest, LoggedOf
      <3>3. ASSUME NEW n \in {1, 2}, NEW r \in Results, NEW t \in Results, SettingAt(n, r, t)
            PROVE  SettingAt(n, r, t)'
        BY <3>1, <3>3 DEF SettingAt, Rest, LoggedOf
      <3> QED
        BY <3>1, <3>2, <3>3 DEF AllInv, Whole
    <2> QED
      BY <1>2, <2>2, <2>3
  <1>3. ASSUME NEW l, Reads(l), ~Whole
        PROVE  AllInv'
    BY <1>3, ReadsOne DEF AllInv, Whole, dpAnswer
  <1>4. CASE ReadId \/ ReadItems \/ ReadPair \/ ReadTs \/ ReadValue
    BY <1>1, <1>3, <1>4, GetStep DEF ReadId, ReadItems, ReadPair, ReadTs, ReadValue
  <1>5. CASE ReadSetArray \/ ReadSetId \/ ReadSetTs \/ ReadSetResult
    BY <1>1, <1>3, <1>5, SetStep DEF ReadSetArray, ReadSetId, ReadSetTs, ReadSetResult
  <1> QED
    BY <1>2, <1>4, <1>5, ArriveStep DEF DpNext
-----------------------------------------------------------------------------
(* An answer that was cut short.                                           *)

(* Every string the handler holds, will read or has logged is one that     *)
(* arrived, stale ones included.                                           *)
IsSent(o) == o.is = "string" => o.v \in dpStrings
SomeInv == dpCut # "nothing" =>
    /\ IsSent(dpObj)
    /\ \A i \in 1 .. Len(dpIn) : IsSent(dpIn[i])
    /\ \A k \in 1 .. Len(dpLog) : dpLog[k][1] = "value" => dpLog[k][2] \in dpStrings

(* Arrival, whatever was cut.                                              *)
LEMMA SomeArrive ==
    ASSUME DpTypes, GetDpAck \/ SetDpAck
    PROVE  SomeInv'
  <1> SUFFICES ASSUME dpCut' # "nothing" PROVE SomeInv'
    BY DEF SomeInv
  <1>1. PICK stream \in Seq(Streamed) : stream # << >> /\ Arrives(stream)
    <2>1. CASE GetDpAck
      BY <2>1, GetArrived, AnswersTyped
    <2>2. CASE SetDpAck
      BY <2>2, SetArrived, AnswersTyped
    <2> QED
      BY <2>1, <2>2
  <1>2. /\ dpObj' = Nil /\ dpLog' = << >>
        /\ \A i \in 1 .. Len(dpIn') : dpIn'[i].is = "string" => dpIn'[i].v \in dpStrings'
    BY <1>1, Arrived
  <1>3. Len(dpLog') = 0
    BY <1>2, EmptySeq
  <1>4. IsSent(dpObj)'
    BY <1>2 DEF IsSent, Nil
  <1> QED
    BY <1>2, <1>3, <1>4 DEF SomeInv, IsSent

(* A handler that reads on behind the end keeps to what it has.            *)
LEMMA SomeRead ==
    ASSUME DpTypes, SomeInv, NEW l, Reads(l), NEW e \in Entries,
           \/ dpLog' = dpLog
           \/ dpLog' = Append(dpLog, e) /\ e[1] # "value"
           \/ dpLog' = Append(dpLog, e) /\ dpObj'.is = "string" /\ e = <<"value", dpObj'.v>>
    PROVE  SomeInv'
  <1> SUFFICES ASSUME dpCut' # "nothing" PROVE SomeInv'
    BY DEF SomeInv
  <1>1. /\ dpStrings' = dpStrings /\ dpCut' = dpCut
        /\ Len(dpIn) > 0 => /\ dpObj' = dpIn[1] /\ Len(dpIn') = Len(dpIn) - 1
                            /\ \A i \in 1 .. Len(dpIn') : dpIn'[i] = dpIn[i + 1]
        /\ Len(dpIn) = 0 => dpObj' \in {dpObj, Nil} /\ dpIn' = dpIn
    BY ReadsOne DEF dpAnswer
  <1>2. /\ IsSent(dpObj) /\ \A i \in 1 .. Len(dpIn) : IsSent(dpIn[i])
        /\ \A k \in 1 .. Len(dpLog) : dpLog[k][1] = "value" => dpLog[k][2] \in dpStrings
    BY <1>1 DEF SomeInv
  <1>3. Len(dpIn) \in Nat /\ Len(dpLog) \in Nat
    BY LenProperties DEF DpTypes
  <1>4. IsSent(dpObj') /\ IsSent(Nil)
    <2>1. IsSent(Nil)
      BY DEF IsSent, Nil
    <2>2. Len(dpIn) > 0 => IsSent(dpIn[1])
      BY <1>2, <1>3
    <2>3. CASE Len(dpIn) > 0
      <3>1. dpObj' = dpIn[1]
        BY <1>1, <2>3
      <3> QED
        BY <2>1, <2>2, <2>3, <3>1
    <2>4. CASE Len(dpIn) = 0
      BY <1>1, <1>2, <2>1, <2>4
    <2> QED
      BY <1>3, <2>1, <2>3, <2>4
  <1>5. ASSUME NEW i \in 1 .. Len(dpIn')
        PROVE  IsSent(dpIn'[i])
    <2>1. CASE Len(dpIn) > 0
      <3>1. i + 1 \in 1 .. Len(dpIn) /\ dpIn'[i] = dpIn[i + 1]
        BY <1>1, <1>3, <2>1
      <3> QED
        BY <1>2, <3>1
    <2>2. CASE Len(dpIn) = 0
      BY <1>1, <1>2, <2>2
    <2> QED
      BY <1>3, <2>1, <2>2
  <1>6. ASSUME NEW k \in 1 .. Len(dpLog'), dpLog'[k][1] = "value"
        PROVE  dpLog'[k][2] \in dpStrings
    <2>1. CASE dpLog' = dpLog
      BY <1>2, <1>6, <2>1
    <2>2. CASE dpLog' = Append(dpLog, e)
      <3>1. /\ Len(dpLog') = Len(dpLog) + 1 /\ dpLog'[Len(dpLog) + 1] = e
            /\ \A i \in 1 .. Len(dpLog) : dpLog'[i] = dpLog[i]
        BY <2>2, AppendProperties DEF DpTypes
      <3>2. CASE k \in 1 .. Len(dpLog)
        BY <1>2, <1>6, <3>1, <3>2
      <3>3. CASE k = Len(dpLog) + 1
        <4>1. dpLog'[k] = e /\ e[1] = "value"
          BY <1>6, <3>1, <3>3
        <4>2. dpLog' # dpLog
          BY <1>3, <3>1
        <4>3. dpObj'.is = "string" /\ e = <<"value", dpObj'.v>>
          BY <4>1, <4>2
        <4> QED
          BY <1>4, <4>1, <4>3 DEF IsSent
      <3> QED
        BY <1>3, <3>1, <3>2, <3>3
    <2> QED
      BY <2>1, <2>2
  <1> QED
    BY <1>1, <1>4, <1>5, <1>6 DEF SomeInv, IsSent

(* Every step keeps it.                                                    *)
LEMMA SomeStep == DpTypes /\ SomeInv /\ [DpNext]_dpVars => SomeInv'
  <1> SUFFICES ASSUME DpTypes, SomeInv, [DpNext]_dpVars PROVE SomeInv'
    OBVIOUS
  <1>1. CASE LoginAck \/ UNCHANGED dpVars
    <2>1. UNCHANGED <<dpIn, dpObj, dpLog, dpStrings, dpCut>>
      BY <1>1 DEF LoginAck, dpVars, dpReader, dpAnswer
    <2> QED
      BY <2>1 DEF SomeInv, IsSent
  <1>2. ASSUME NEW l, Reads(l), dpLog' = dpLog
        PROVE  SomeInv'
    <2>1. <<"dp", 0>> \in Entries
      BY DEF Entries
    <2> QED
      BY <1>2, <2>1, SomeRead
  <1>3. CASE ReadId \/ ReadPair \/ ReadTs \/ ReadSetArray \/ ReadSetId \/ ReadSetTs
    BY <1>2, <1>3 DEF ReadId, ReadPair, ReadTs, ReadSetArray, ReadSetId, ReadSetTs
  <1>4. CASE ReadItems
    <2>1. Reads("get_items") /\ dpLog' = Append(dpLog, <<"dp", dpId>>)
      BY <1>4 DEF ReadItems, Logs
    <2>2. <<"dp", dpId>> \in Entries /\ <<"dp", dpId>>[1] # "value"
      BY DEF Entries, DpTypes
    <2> QED
      BY <2>1, <2>2, SomeRead
  <1>5. CASE ReadValue
    <2>1. /\ Reads("get_value")
          /\ dpLog' = (IF dpObj'.is = "string" THEN Append(dpLog, <<"value", dpObj'.v>>) ELSE dpLog)
      BY <1>5 DEF ReadValue, Logs
    <2>2. CASE dpObj'.is = "string"
      <3>1. dpObj' \in Objects
        BY <2>1, ReadsOne
      <3>2. dpObj'.v \in Texts
        BY <2>2, <3>1, TextsTaken
      <3>3. <<"value", dpObj'.v>> \in Entries
        BY <3>2 DEF Entries
      <3> QED
        BY <2>1, <2>2, <3>3, SomeRead
    <2>3. CASE dpObj'.is # "string"
      BY <1>2, <2>1, <2>3
    <2> QED
      BY <2>2, <2>3
  <1>6. CASE ReadSetResult
    <2>1. Reads("set_result") /\ dpLog' = Append(dpLog, <<"result", dpId, Unsigned(dpObj')>>)
      BY <1>6 DEF ReadSetResult, Logs
    <2>2. dpObj' \in Objects
      BY <2>1, ReadsOne
    <2>3. <<"result", dpId, Unsigned(dpObj')>> \in Entries
      BY <2>2, NumbersTaken DEF Entries, DpTypes
    <2>4. <<"result", dpId, Unsigned(dpObj')>>[1] # "value"
      OBVIOUS
    <2> QED
      BY <2>1, <2>3, <2>4, SomeRead
  <1> QED
    BY <1>1, <1>3, <1>4, <1>5, <1>6, SomeArrive DEF DpNext

(* An acknowledgement of plain values is understood as it was meant, and   *)
(* none yields a value that did not arrive: for any strings, numbers and   *)
(* results, however they are mixed, any complex data and any count.        *)
THEOREM AcksAreUnderstood == DpSpec => []AcksUnderstood
  <1>1. DpInit => AllInv /\ SomeInv
    <2> SUFFICES ASSUME DpInit PROVE AllInv /\ SomeInv
      OBVIOUS
    <2>1. Len(dpIn) = 0 /\ Len(dpLog) = 0 /\ IsSent(dpObj)
      BY EmptySeq DEF DpInit, IsSent, Nil
    <2>2. SomeInv
      BY <2>1 DEF SomeInv
    <2> QED
      BY <2>2 DEF DpInit, AllInv, Getting, Setting
  <1>2. DpTypes /\ AllInv /\ SomeInv => AcksUnderstood
    <2> SUFFICES ASSUME DpTypes, AllInv, SomeInv, dpPc = "idle"
                 PROVE  /\ Whole => dpLog = dpSent
                        /\ dpCut # "nothing" => ValuesLogged \subseteq dpStrings
      BY DEF AcksUnderstood, Whole
    <2>1. Whole => dpLog = dpSent
      BY DEF AllInv
    <2>2. ASSUME dpCut # "nothing", NEW e \in ValuesLogged
          PROVE  e \in dpStrings
      <3>1. PICK k \in DOMAIN dpLog : e = dpLog[k][2] /\ dpLog[k][1] = "value"
        BY <2>2 DEF ValuesLogged
      <3>2. k \in 1 .. Len(dpLog)
        BY <3>1, LenProperties DEF DpTypes
      <3> QED
        BY <2>2, <3>1, <3>2 DEF SomeInv
    <2> QED
      BY <2>1, <2>2
  <1> QED
    BY <1>1, <1>2, TypesInit, TypesStep, AllStep, SomeStep, PTL DEF DpSpec
-----------------------------------------------------------------------------
(* Within the stream, and to its end.                                      *)

Reading == dpPc \in Getting \cup Setting

(* A handler never reads behind the end of an answer that is there as a    *)
(* whole, holds plain values only and is counted as no more than what was  *)
(* asked for: whenever it is about to read there is an object left,        *)
(* whatever values were sent and whatever was refused.                     *)
THEOREM WholeAnswersSuffice == DpSpec => [](Reading /\ Whole => dpIn # << >>)
  <1>1. DpTypes /\ AllInv => (Reading /\ Whole => dpIn # << >>)
    <2> SUFFICES ASSUME DpTypes, AllInv, Reading, Whole PROVE Len(dpIn) # 0
      BY EmptySeq
    <2>1. dpDone \in {0, 1} /\ dpDone < dpCount
      BY IdsAsked DEF DpTypes, Reading, Whole
    <2>2. ASSUME NEW stream, NEW k \in Nat, k <= Len(stream), Len(stream) \in Nat, Rest(stream, k)
          PROVE  Len(dpIn) # 0
      BY <2>2 DEF Rest
    <2>3. CASE dpPc \in Getting
      <3>1. PICK n \in {1, 2}, v \in Plain, w \in Plain : GettingAt(n, v, w)
        BY <2>3 DEF AllInv
      <3>2. /\ GetAnswer(v, w) \in Seq(Streamed) /\ Current(dpDone, v, w) \in Plain
            /\ Len(GetAnswer(v, w)) = GetBehind(1, v) + GetBehind(1, w)
        BY <2>1, GetAnswerShape
      <3>3. Len(GetAnswer(v, w)) \in Nat
        BY <3>2, LenProperties
      <3>4. /\ GetBehind(dpDone, v) \in Nat /\ GetBehind(dpDone, v) + 2 <= Len(GetAnswer(v, w))
            /\ Current(dpDone, v, w) # << >> => GetBehind(dpDone, v) + 5 <= Len(GetAnswer(v, w))
        <4>1. GetBehind(0, v) = 0 /\ Current(0, v, w) = v /\ Current(1, v, w) = w
          BY DEF GetBehind, Current
        <4>2. GetBehind(1, v) \in {2, 5} /\ (v # << >> => GetBehind(1, v) = 5)
          BY DEF GetBehind
        <4>3. GetBehind(1, w) \in {2, 5} /\ (w # << >> => GetBehind(1, w) = 5)
          BY DEF GetBehind
        <4>4. CASE dpDone = 0
          BY <3>2, <4>1, <4>2, <4>3, <4>4
        <4>5. CASE dpDone = 1
          BY <3>2, <4>1, <4>2, <4>3, <4>5
        <4> QED
          BY <2>1, <4>4, <4>5
      <3>5. PICK j \in {1, 2, 3, 4, 5} :
               /\ Rest(GetAnswer(v, w), GetBehind(dpDone, v) + j)
               /\ j > 2 => Current(dpDone, v, w) # << >>
        BY <3>1 DEF GettingAt
      <3>6. GetBehind(dpDone, v) + j \in Nat /\ GetBehind(dpDone, v) + j <= Len(GetAnswer(v, w))
        BY <3>3, <3>4, <3>5
      <3> QED
        BY <2>2, <3>3, <3>5, <3>6
    <2>4. CASE dpPc \in Setting
      <3>1. PICK n \in {1, 2}, r \in Results, s \in Results : SettingAt(n, r, s)
        BY <2>4 DEF AllInv
      <3>2. dpDone = 1 => r # Refused
        BY <3>1 DEF SettingAt
      <3>3. /\ SetAnswer(r, s) \in Seq(Streamed) /\ SetBehind(dpDone) \in Nat
            /\ SetBehind(dpDone) + 1 <= Len(SetAnswer(r, s))
            /\ Current(dpDone, r, s) # Refused => SetBehind(dpDone) + 4 <= Len(SetAnswer(r, s))
        BY <2>1, <3>2, SetAnswerShape
      <3>4. Len(SetAnswer(r, s)) \in Nat
        BY <3>3, LenProperties
      <3>5. PICK j \in {1, 2, 3, 4} :
               /\ Rest(SetAnswer(r, s), SetBehind(dpDone) + j)
               /\ j > 1 => Current(dpDone, r, s) # Refused
        BY <3>1 DEF SettingAt
      <3>6. SetBehind(dpDone) + j \in Nat /\ SetBehind(dpDone) + j <= Len(SetAnswer(r, s))
        BY <3>3, <3>4, <3>5
      <3> QED
        BY <2>2, <3>4, <3>5, <3>6
    <2> QED
      BY <2>3, <2>4 DEF Reading
  <1>2. DpInit => AllInv
    BY DEF DpInit, AllInv, Getting, Setting
  <1> QED
    BY <1>1, <1>2, TypesInit, TypesStep, AllStep, PTL DEF DpSpec

(* Where a handler stands: data points it has not done with; whether it    *)
(* has yet to learn how many values one has; values, and objects of a data *)
(* point or value, that it takes to be before it.                          *)
Where ==
    <<dpCount - dpDone,
      IF dpPc \in {"get_pair", "get_ts", "get_value"} THEN 0 ELSE 1,
      dpItems,
      CASE dpPc = "get_id" -> 2 [] dpPc = "get_items" -> 1
        [] dpPc = "get_pair" -> 3 [] dpPc = "get_ts" -> 2 [] dpPc = "get_value" -> 1
        [] dpPc = "set_array" -> 4 [] dpPc = "set_id" -> 3 [] dpPc = "set_ts" -> 2
        [] dpPc = "set_result" -> 1 [] OTHER -> 0>>
Places == [1 .. 4 -> Nat]
Lower == LexProductOrdering(OpToRel(<, Nat), Nat, 4)

(* A step of a handler that is reading leads it to a lower place.          *)
Closer == Reading => <<Where', Where>> \in Lower

(* The first component that differs decides.                               *)
LEMMA LowerAt ==
    ASSUME NEW p \in Places, NEW q \in Places, NEW j \in 1 .. 4, p[j] < q[j],
           \A i \in 1 .. (j - 1) : p[i] = q[i]
    PROVE  <<p, q>> \in Lower
  <1>1. <<p[j], q[j]>> \in OpToRel(<, Nat)
    BY DEF OpToRel, Places
  <1> QED
    BY <1>1 DEF Lower, LexProductOrdering, Places

(* Every read leads there.                                                 *)
LEMMA ReadStep ==
    ASSUME DpTypes, DpTypes', Reading, DpNext
    PROVE  <<Where', Where>> \in Lower
  <1>1. /\ dpDone \in Nat /\ dpCount \in Nat /\ dpItems \in Nat /\ dpDone < dpCount
        /\ dpDone' \in Nat /\ dpItems' \in Nat /\ dpDone' <= dpCount'
        /\ dpPc \in {"get_pair", "get_ts", "get_value"} => dpItems > 0
    BY DEF DpTypes, Reading
  <1>2. dpCount' = dpCount
    BY DEF DpNext, Reading, Getting, Setting, LoginAck, GetDpAck, SetDpAck, ReadId, ReadItems, ReadPair,
           ReadTs, ReadValue, ReadSetArray, ReadSetId, ReadSetTs, ReadSetResult, Reads, dpAnswer
  <1>3. Where \in Places /\ Where' \in Places
    <2>1. dpCount - dpDone \in Nat /\ dpCount' - dpDone' \in Nat
      <3>1. ASSUME NEW m \in Nat, NEW n \in Nat, n <= m
            PROVE  m - n \in Nat
        BY <3>1
      <3>2. dpDone <= dpCount /\ dpCount' \in Nat
        BY <1>1, <1>2
      <3> QED
        BY <1>1, <3>1, <3>2
    <2>2. \A a, b, c, d \in Nat : <<a, b, c, d>> \in Places
      BY DEF Places
    <2>3. Where[4] \in Nat /\ Where'[4] \in Nat
      BY DEF Where
    <2> QED
      BY <1>1, <2>1, <2>2, <2>3 DEF Where
  <1>4. Where[1] = dpCount - dpDone /\ Where'[1] = dpCount - dpDone' /\ Where[3] = dpItems /\ Where'[3] = dpItems'
    BY <1>2 DEF Where
  <1>5. ~LoginAck /\ ~GetDpAck /\ ~SetDpAck
    BY DEF Reading, Getting, Setting, LoginAck, GetDpAck, SetDpAck
  <1>6. ASSUME dpDone' = dpDone + 1
        PROVE  <<Where', Where>> \in Lower
    <2>1. Where'[1] < Where[1]
      BY <1>1, <1>4, <1>6
    <2> QED
      BY <1>3, <2>1, LowerAt
  <1>7. ASSUME dpDone' = dpDone, dpPc = "get_items", dpPc' = "get_pair"
        PROVE  <<Where', Where>> \in Lower
    <2>1. Where'[1] = Where[1] /\ Where'[2] < Where[2]
      <3>1. Where[2] = 1 /\ Where'[2] = 0
        BY <1>7 DEF Where
      <3> QED
        BY <1>4, <1>7, <3>1
    <2>2. \A i \in 1 .. (2 - 1) : Where'[i] = Where[i]
      BY <2>1
    <2> QED
      BY <1>3, <2>1, <2>2, LowerAt
  <1>8. ASSUME dpDone' = dpDone, dpPc = "get_value", dpPc' = "get_pair", dpItems' = dpItems - 1
        PROVE  <<Where', Where>> \in Lower
    <2>1. Where'[1] = Where[1] /\ Where'[2] = Where[2] /\ Where'[3] < Where[3]
      <3>1. Where[2] = 0 /\ Where'[2] = 0
        BY <1>8 DEF Where
      <3> QED
        BY <1>1, <1>4, <1>8, <3>1
    <2>2. \A i \in 1 .. (3 - 1) : Where'[i] = Where[i]
      BY <2>1
    <2> QED
      BY <1>3, <2>1, <2>2, LowerAt
  <1>9. ASSUME dpDone' = dpDone, dpItems' = dpItems,
               <<dpPc, dpPc'>> \in {<<"get_id", "get_items">>, <<"get_pair", "get_ts">>,
                  <<"get_ts", "get_value">>, <<"set_array", "set_id">>, <<"set_array", "idle">>,
                  <<"set_id", "set_ts">>, <<"set_ts", "set_result">>}
        PROVE  <<Where', Where>> \in Lower
    <2>1. Where'[1] = Where[1] /\ Where'[3] = Where[3]
      BY <1>4, <1>9
    <2>2. Where'[2] = Where[2] /\ Where'[4] < Where[4]
      <3>1. /\ Where[2] = IF dpPc \in {"get_pair", "get_ts", "get_value"} THEN 0 ELSE 1
            /\ Where'[2] = IF dpPc' \in {"get_pair", "get_ts", "get_value"} THEN 0 ELSE 1
        BY DEF Where
      <3>2. Where'[2] = Where[2]
        BY <1>9, <3>1
      <3>3. Where'[4] < Where[4]
        BY <1>9 DEF Where
      <3> QED
        BY <3>2, <3>3
    <2>3. \A i \in 1 .. (4 - 1) : Where'[i] = Where[i]
      BY <2>1, <2>2
    <2> QED
      BY <1>3, <2>2, <2>3, LowerAt
  <1>10. CASE ReadId \/ ReadPair \/ ReadTs
    BY <1>9, <1>10 DEF ReadId, ReadPair, ReadTs, Reads
  <1>11. CASE ReadSetArray \/ ReadSetId \/ ReadSetTs
    BY <1>9, <1>11 DEF ReadSetArray, ReadSetId, ReadSetTs, Reads
  <1>12. CASE ReadItems
    BY <1>6, <1>7, <1>12 DEF ReadItems, Reads, NextDp
  <1>13. CASE ReadValue
    BY <1>6, <1>8, <1>13 DEF ReadValue, Reads, NextDp
  <1>14. CASE ReadSetResult
    BY <1>6, <1>14 DEF ReadSetResult, NextDp
  <1> QED
    BY <1>5, <1>10, <1>11, <1>12, <1>13, <1>14 DEF DpNext

(* Whatever arrived, however often an object that could not be read is     *)
(* taken again, and whatever length it is taken to have: a handler that    *)
(* reads comes to its end, since each of its reads leads it to a lower     *)
(* place of an order that nothing descends for ever.                       *)
THEOREM HandlersEnd ==
    /\ IsWellFoundedOn(Lower, Places)
    /\ DpSpec => [][Closer]_dpVars
  <1>1. IsWellFoundedOn(Lower, Places)
    BY NatLessThanWellFounded, WFLexProductOrdering DEF Lower, Places
  <1>2. DpTypes /\ [DpNext]_dpVars => [Closer]_dpVars
    BY TypesStep, ReadStep DEF Closer
  <1>3. DpSpec => [][Closer]_dpVars
    BY <1>2, TypesInit, TypesStep, PTL DEF DpSpec
  <1> QED
    BY <1>1, <1>3
=============================================================================
