---------------------------- MODULE MCConversions ----------------------------
(* An instance of Conversions with words of two bytes.  The inputs are those *)
(* around the boundaries: the ends of the ranges of one and two bytes, zeros *)
(* in front and behind, odd numbers of digits, and fractions that carry.     *)
EXTENDS Conversions

MCNumbers == {-32769, -32768, -32767, -129, -128, -127, -1, 0, 1, 15, 16, 127, 128, 129,
              255, 256, 257, 32767, 32768, 65535, 65536, 100000, 100001}
MCSizes == {Undefined, 0, 1, 2, 3}
MCHexValues == UNION {[1 .. n -> {0, 1, 10}] : n \in 0 .. 5}
MCByteArrays == UNION {[1 .. n -> {0, 1, 160}] : n \in 0 .. 3}
MCOffsets == 0 .. 4
Characters == {<<0>>, <<1>>, <<194, 160>>, Mark}
MCStrings == {FlattenSeq(s) : s \in UNION {[1 .. n -> Characters] : n \in 0 .. 3}}

MCDecimals == 0 .. 3
Digit == {0, 4, 5, 9}
MCUnitTexts == {[negative |-> n, integer |-> i, fraction |-> f] :
                  n \in BOOLEAN, i \in UNION {[1 .. l -> {0, 9}] : l \in 0 .. 2},
                  f \in UNION {[1 .. l -> Digit] : l \in 0 .. 4}}
MCUnitValues == -12 .. 12 \union {-1000, -999, -100, 90, 99, 100, 101, 900, 990, 999, 1000, 12030}

-----------------------------------------------------------------------------
(* Of every format a record with all fields, and those that differ from it in *)
(* two fields.                                                                *)
Lower == <<10, 1, 11, 2>>
Upper == <<26, 1, 27, 2>>
Fields(format) == {format[n].of : n \in DOMAIN format}
MadeOf(format, field) == format[CHOOSE n \in DOMAIN format : format[n].of = field]
Optional(made, value) == IF made.when = "always" THEN {} ELSE {value}

Wanted(form) ==
    CASE form \in {"quantity", "quantity?"} -> 300
      [] form = "account" -> Upper
      [] form = "block" -> [number |-> 5]
      [] form = "quantities" -> <<7, 0>>
      [] form = "rows" -> << <<>>, <<100001, 1>> >>
      [] OTHER -> <<1>>

ParameterValues(made) ==
    Optional(made, Undefined) \union
    CASE made.form = "quantity" -> {-1, 0, 300}
      [] made.form = "account" -> {Lower, Upper, <<1>>}
      [] made.form = "block" -> {[number |-> -1], [number |-> 0], [tag |-> <<>>]}
      [] OTHER -> {<<1>>, <<2>>}

AnswerValues(made) ==
    Optional(made, Undefined) \union
    CASE made.form = "quantity" -> {0, 15, 16, 100001}
      [] made.form = "quantity?" -> {Null, Undefined, 0, 1}
      [] made.form = "account" -> {Lower}
      [] made.form \in {"quantities", "rows"} -> {<<>>, Wanted(made.form)}
      [] OTHER -> {<<1>>, <<2>>}

Changed(format, whole, Values(_)) ==
    {whole} \union
    UNION {{[whole EXCEPT ![f] = v, ![g] = w] :
              v \in Values(MadeOf(format, f)), w \in Values(MadeOf(format, g))} :
           f \in Fields(format), g \in Fields(format)}

MCParameters(format) ==
    Changed(format, [f \in Fields(format) |-> Wanted(MadeOf(format, f).form)], ParameterValues)

MCAnswers(format) ==
    (IF DOMAIN format \intersect {"privNonce", "raw", "reward"} = {} THEN {Null} ELSE {})
    \union Changed(format,
               [f \in Fields(format) |->
                  IF MadeOf(format, f).form = "account" THEN Lower
                  ELSE Wanted(MadeOf(format, f).form)], AnswerValues)

NoOverride == [f \in {"nonce", "balance", "code", "state", "stateDiff"} |-> Undefined]
MCOverrides ==
    LET accounts == {Lower, Upper, <<1>>, <<0, 0, 0, 1>>}
        overrides == {NoOverride, [NoOverride EXCEPT !.nonce = 0, !.state = <<1>>],
                      [NoOverride EXCEPT !.balance = 300, !.code = <<2>>],
                      [NoOverride EXCEPT !.balance = -1]}
    IN  {<<>>} \union {<< <<a, o>> >> : a \in accounts, o \in overrides}
          \union {<< <<a, o>>, <<b, p>> >> :
                    a \in accounts, b \in accounts, o \in overrides, p \in overrides}

-----------------------------------------------------------------------------
Address1 == <<0, 0, 10, 1>>
MCBaseUrls == {<<104, 58, 47, 47, 104>>, <<104, 58, 47, 47, 104, 47>>, <<104, 58, 47, 47, 104, 47, 47>>}
MCHeaderValues ==
    {Undefined, [form |-> "Headers"], [form |-> "array"],
     [form |-> "record", entries |-> "Authorization" :> "token"],
     [form |-> "record", entries |-> "Content-Type" :> "text"]}
MCTexts == {<<>>, <<65>>, <<65, 47, 66>>, <<47, 47>>}
MCResponses == {Unreachable} \union
    [ok : {TRUE}, status : {200}, json : {1, Thrown}] \union
    [ok : {FALSE}, status : {404, 500}, json : {1, Thrown}]

MCFleets ==
    UNION {[1 .. n -> {[address |-> Address1, role |-> role, baseUrl |-> <<104, 47>>, response |-> r] :
                         role \in {"signer", "storage", "artifact"}, r \in
                         {Unreachable, [ok |-> TRUE, status |-> 200, json |-> 1],
                          [ok |-> FALSE, status |-> 500, json |-> 1]}}] : n \in 0 .. 2}

Amount(isNaN, sign, bigInt) == [isNaN |-> isNaN, sign |-> sign, bigInt |-> bigInt]
Amounts == {Undefined, Amount(FALSE, 1, 5), Amount(FALSE, 0, 0), Amount(FALSE, -1, -5),
            Amount(FALSE, 1, Thrown), Amount(FALSE, -1, Thrown), Amount(TRUE, 0, Thrown)}
MCDelegatedRequests == [target : {Undefined, <<>>, Address1}, gas : Amounts, valueTomi : Amounts]

MCEvidenceParams ==
    [requesterAddress : {<<>>, Address1}, title : {<<>>, <<32>>, <<65>>}, question : {<<32, 65>>},
     evidenceText : {<<>>, <<65>>}, ttlSeconds : {Undefined, -1, 0, 1, 60},
     autoAnchor : {Undefined, TRUE, FALSE}]
MCSearchParams ==
    [kinds : {Undefined, <<>>, <<"proof.material">>, <<"oracle.evidence">>,
              <<"oracle.evidence", "committee.vote">>},
     sourceUrlPrefix : {Undefined, <<>>, <<32>>, <<32, 65, 32, 66>>}, subjectId : {Undefined, <<65>>},
     verifiedOnly : {Undefined, TRUE, FALSE}, anchoredOnly : {Undefined, TRUE, FALSE}]
=============================================================================
