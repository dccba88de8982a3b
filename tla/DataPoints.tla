----------------------------- MODULE DataPoints -----------------------------
(***************************************************************************)
(* examples/doorbell/main.c: the data point messages.  A login writes two  *)
(* requests, and the handlers of the acknowledgements take the answers     *)
(* apart, one msgpack object after the other, without looking at the       *)
(* result of MsgpackObjectGetOne.  What they understand goes to the log.   *)
(*                                                                         *)
(* The msgpack library and the server are external.  A stream is a         *)
(* sequence of objects; an array is its header, followed by its elements.  *)
(* An object that could not be read is what it was, or nothing.  The       *)
(* server answers the requests in any order and may refuse a data point;   *)
(* an answer may be cut short.  The core tells the handler how many data   *)
(* points the answer has, and is not taken at its word.  A value is what   *)
(* some device packed: one object, or complex data of several.             *)
(***************************************************************************)
EXTENDS Integers, Sequences

CONSTANTS
    DpTexts,        \* strings the server may hold for a data point
    DpNumbers,      \* other values it may hold, and results
    DpComplex,      \* complex data it may hold, as the objects it is packed into
    DpCounts,       \* what the core may say an answer has
    DpLengths,      \* array lengths an object may have that nothing was read into
    DpJunk          \* a string that is not the server's

ASSUME DpAssumption ==
    /\ DpNumbers \subseteq Nat /\ DpCounts \subseteq Nat /\ DpLengths \subseteq Nat
    /\ DpJunk \notin DpTexts
    /\ \A val \in DpComplex :
          /\ val \in Seq([is : {"array", "unsigned"}, v : Nat] \cup [is : {"string"}, v : DpTexts])
          /\ Len(val) > 1

VARIABLES
    dpPc,           \* "login", "idle", or the object the handler reads next
    dpWire,         \* requests sent and not answered
    dpIn,           \* the rest of the stream being read
    dpObj,          \* o, the object read last
    dpCount,        \* count of the event that brought the answer
    dpDone,         \* data points of the answer done with
    dpItems,        \* values of the data point still to be read
    dpId,           \* dpid
    dpLog,          \* what the handler logged
    dpSent,         \* history: what the answer should be understood as
    dpCut,          \* history: of the answer there was "all", "some" or "nothing"
    dpPlain,        \* history: no value of the answer was complex
    dpStrings       \* history: the strings in what there was of it

dpReader == <<dpIn, dpObj, dpDone, dpItems, dpId, dpLog>>
dpAnswer == <<dpCount, dpSent, dpCut, dpPlain, dpStrings>>
dpVars == <<dpPc, dpWire, dpReader, dpAnswer>>

SwVersion == 208    \* IOTK_DPID_BASE_SW_VERSION
SysVersion == 209   \* IOTK_DPID_BASE_SYS_VERSION
DpAsked == <<SwVersion, SysVersion>>

Arr(n) == [is |-> "array", v |-> n]
Uns(n) == [is |-> "unsigned", v |-> n]
Str(s) == [is |-> "string", v |-> s]
Nil == [is |-> "nil", v |-> 0]

ArrayLength(o) == IF o.is = "array" THEN o.v ELSE 0
Unsigned(o) == IF o.is = "unsigned" THEN o.v ELSE 0     \* the default the callers pass

GetDpWriter == <<Arr(2), Uns(SwVersion), Uns(0),
                 Arr(2), Uns(SysVersion), Uns(0)>>

SetDpWriter == <<Arr(3), Uns(SwVersion), Uns(0), Str("s/w ver"),
                 Arr(3), Uns(SysVersion), Uns(0), Str("sys ver")>>

DpInit ==
    /\ dpPc = "login"
    /\ dpWire = {}
    /\ dpIn = << >> /\ dpObj = Nil /\ dpDone = 0 /\ dpItems = 0 /\ dpId = 0
    /\ dpLog = << >>
    /\ dpCount = 0 /\ dpSent = << >> /\ dpCut = "all" /\ dpPlain = TRUE /\ dpStrings = {}

LoginAck ==
    /\ dpPc = "login"
    /\ dpPc' = "idle"
    /\ dpWire' \in {{"get", "set"}, {}}         \* err_code is 0, or not
    /\ UNCHANGED <<dpReader, dpAnswer>>
-----------------------------------------------------------------------------
(* The server.                                                             *)

(* The id of the k-th data point of a request, found by the array headers. *)
Requested(req, k) == req[(k - 1) * (req[1].v + 1) + 2].v

Plain == {<< >>} \cup {<<Str(s)>> : s \in DpTexts} \cup {<<Uns(n)>> : n \in DpNumbers}
Values == Plain \cup DpComplex
HasText(val) == Len(val) = 1 /\ val[1].is = "string"

(* At most one value for each, by the limit of the request.                *)
GetEntry(id, val) ==
    IF val = << >> THEN <<Uns(id), Arr(0)>> ELSE <<Uns(id), Arr(1), Arr(2), Uns(1)>> \o val

(* The handler logs the values that are strings, and as many data points   *)
(* as the core counts.                                                     *)
Meaning(id, val) ==
    << <<"dp", id>> >> \o (IF HasText(val) THEN << <<"value", val[1].v>> >> ELSE << >>)
GetMeaning(c, v, w) ==
    IF c = 0 THEN << >> ELSE IF c = 1 THEN Meaning(SwVersion, v)
                                      ELSE Meaning(SwVersion, v) \o Meaning(SysVersion, w)

Refused == -1           \* no result: an entry of another form
Results == DpNumbers \cup {Refused}
SetEntry(id, res) == IF res = Refused THEN <<Arr(1), Uns(id)>>
                                      ELSE <<Arr(3), Uns(id), Uns(1), Uns(res)>>
(* The handler stops at the first entry that is not an array of three.     *)
SetMeaning(c, res) ==
    [k \in 1 .. (IF c = 0 \/ res[1] = Refused THEN 0 ELSE IF c = 1 \/ res[2] = Refused THEN 1 ELSE 2) |->
        <<"result", DpAsked[k], res[k]>>]

(* What o may hold before anything was read into it.                       *)
Uninitialised == {Nil, Uns(7), Str(DpJunk)} \cup {Arr(n) : n \in DpLengths}

(* The loop over the data points, before the next one of the handler.      *)
AtDp(first, done, count) == dpPc' = IF done < count THEN first ELSE "idle"

(* The whole answer, or its beginning.                                     *)
Arrives(stream) ==
    /\ \E n \in 0 .. Len(stream) :
          /\ dpIn' = SubSeq(stream, 1, n)
          /\ dpCut' = IF n = Len(stream) THEN "all" ELSE IF n > 0 THEN "some" ELSE "nothing"
    /\ dpStrings' = {dpIn'[k].v : k \in {j \in 1 .. Len(dpIn') : dpIn'[j].is = "string"}}
    /\ dpObj' \in IF dpIn' = << >> THEN Uninitialised ELSE {Nil}
    /\ dpCount' \in DpCounts
    /\ dpDone' = 0 /\ dpItems' = 0 /\ dpId' = 0
    /\ dpLog' = << >>

GetDpAck ==
    /\ dpPc = "idle" /\ "get" \in dpWire
    /\ dpWire' = dpWire \ {"get"}
    /\ \E v, w \in Values :
          /\ Arrives(GetEntry(Requested(GetDpWriter, 1), v) \o GetEntry(Requested(GetDpWriter, 2), w))
          /\ dpSent' = GetMeaning(dpCount', v, w)
          /\ dpPlain' = ({v, w} \subseteq Plain)
    /\ AtDp("get_id", 0, dpCount')

SetDpAck ==
    /\ dpPc = "idle" /\ "set" \in dpWire
    /\ dpWire' = dpWire \ {"set"}
    /\ \E r, s \in Results :
          /\ Arrives(SetEntry(Requested(SetDpWriter, 1), r) \o SetEntry(Requested(SetDpWriter, 2), s))
          /\ dpSent' = SetMeaning(dpCount', <<r, s>>)
    /\ dpPlain' = TRUE
    /\ AtDp("set_array", 0, dpCount')
-----------------------------------------------------------------------------
(* The handlers, _app_on_get_dp_ack and _app_on_set_dp_ack.                *)

GetOne ==
    IF dpIn = << >>
      THEN dpObj' \in {dpObj, Nil} /\ UNCHANGED dpIn
      ELSE dpObj' = Head(dpIn) /\ dpIn' = Tail(dpIn)

Reads(l) ==
    /\ dpPc = l
    /\ GetOne
    /\ UNCHANGED <<dpWire, dpAnswer>>

Logs(entry) == dpLog' = Append(dpLog, entry)

(* Behind the last object of a data point.                                 *)
NextDp(first) == dpDone' = dpDone + 1 /\ AtDp(first, dpDone', dpCount)

ReadId ==
    /\ Reads("get_id")
    /\ dpPc' = "get_items"
    /\ dpId' = Unsigned(dpObj')
    /\ UNCHANGED <<dpDone, dpItems, dpLog>>

ReadItems ==
    /\ Reads("get_items")
    /\ dpItems' = ArrayLength(dpObj')
    /\ Logs(<<"dp", dpId>>)
    /\ IF dpItems' > 0 THEN dpPc' = "get_pair" /\ UNCHANGED dpDone ELSE NextDp("get_id")
    /\ UNCHANGED dpId

ReadPair ==                     \* the header, taken for one of two
    /\ Reads("get_pair")
    /\ dpPc' = "get_ts"
    /\ UNCHANGED <<dpDone, dpItems, dpId, dpLog>>

ReadTsSkipped ==                \* wrong: the time stamp is not read
    /\ dpPc = "get_ts"
    /\ dpPc' = "get_value"
    /\ UNCHANGED <<dpWire, dpReader, dpAnswer>>

ReadTs ==
    /\ Reads("get_ts")
    /\ dpPc' = "get_value"
    /\ UNCHANGED <<dpDone, dpItems, dpId, dpLog>>

ReadValue ==                    \* only strings are logged
    /\ Reads("get_value")
    /\ IF dpObj'.is = "string" THEN Logs(<<"value", dpObj'.v>>) ELSE UNCHANGED dpLog
    /\ dpItems' = dpItems - 1
    /\ IF dpItems > 1 THEN dpPc' = "get_pair" /\ UNCHANGED dpDone ELSE NextDp("get_id")
    /\ UNCHANGED dpId

ReadSetArray ==
    /\ Reads("set_array")
    /\ dpPc' = IF ArrayLength(dpObj') = 3 THEN "set_id" ELSE "idle"
    /\ UNCHANGED <<dpDone, dpItems, dpId, dpLog>>

ReadSetId ==
    /\ Reads("set_id")
    /\ dpPc' = "set_ts"
    /\ dpId' = Unsigned(dpObj')
    /\ UNCHANGED <<dpDone, dpItems, dpLog>>

ReadSetTs ==
    /\ Reads("set_ts")
    /\ dpPc' = "set_result"
    /\ UNCHANGED <<dpDone, dpItems, dpId, dpLog>>

ReadSetResult ==
    /\ Reads("set_result")
    /\ Logs(<<"result", dpId, Unsigned(dpObj')>>)
    /\ NextDp("set_array")
    /\ UNCHANGED <<dpItems, dpId>>

DpNext ==
    \/ LoginAck \/ GetDpAck \/ SetDpAck
    \/ ReadId \/ ReadItems \/ ReadPair \/ ReadTs \/ ReadValue
    \/ ReadSetArray \/ ReadSetId \/ ReadSetTs \/ ReadSetResult

DpSpec == DpInit /\ [][DpNext]_dpVars
-----------------------------------------------------------------------------
(* Properties.                                                             *)

DpTypeOK ==
    /\ dpPc \in {"login", "idle", "get_id", "get_items", "get_pair", "get_ts", "get_value",
                 "set_array", "set_id", "set_ts", "set_result"}
    /\ dpWire \subseteq {"get", "set"}
    /\ dpObj.is \in {"array", "unsigned", "string", "nil"}
    /\ \A k \in DOMAIN dpIn : dpIn[k].is \in {"array", "unsigned", "string"}
    /\ dpCount \in DpCounts \cup {0} /\ dpDone \in 0 .. dpCount
    /\ dpItems \in Nat /\ dpId \in Nat
    /\ dpCut \in {"all", "some", "nothing"} /\ dpPlain \in BOOLEAN /\ dpStrings \subseteq DpTexts

ValuesLogged == {dpLog[k][2] : k \in {j \in DOMAIN dpLog : dpLog[j][1] = "value"}}

(* Requests, server and handlers agree on where each object is.  When      *)
(* every value is one object, an answer that is there as a whole is        *)
(* understood as it was meant, data point by data point in the order asked *)
(* for, however values are mixed, up to the first entry that was refused   *)
(* and to the count of the core if that is no more than what was asked     *)
(* for.  Whatever was packed, counted or cut, a handler that takes values  *)
(* for ids and lengths, or stale objects for data, logs no value that did  *)
(* not arrive, unless nothing at all arrived.                              *)
AcksUnderstood == dpPc = "idle" =>
    /\ dpCut = "all" /\ dpPlain /\ dpCount <= Len(DpAsked) => dpLog = dpSent
    /\ dpCut # "nothing" => ValuesLogged \subseteq dpStrings

(* What main.c:114 and 126 offer: complex data is packed with msgpack, and *)
(* an answer that holds some is understood like any other.                 *)
ComplexUnderstood ==
    dpPc = "idle" /\ dpCut = "all" /\ dpCount = Len(DpAsked) => dpLog = dpSent
=============================================================================
