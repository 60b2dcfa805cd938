----------------------------- MODULE Conversions -----------------------------
(* The conversions of hex, bytes, numbers and texts, the units, the          *)
(* parameters and answers of requests, and the clients of the providers, one *)
(* call at a time.  The properties compare each result with an independent   *)
(* reading.                                                                  *)
EXTENDS Calls, Units, RpcParameters, ProviderClients

CONSTANTS
    Numbers, Sizes, HexValues, ByteArrays, Offsets,
    Strings,       \* the UTF-8 encodings of texts
    Decimals, UnitTexts, UnitValues,
    Parameters(_), \* what is given for the fields of a format
    Answers(_),    \* what the node has for them, or Null
    Overrides,     \* sequences of pairs of an address and its override
    BaseUrls, HeaderValues, Texts, Responses,
    Fleets, DelegatedRequests, EvidenceParams, SearchParams

(* The special values are none of those the functions take and return.       *)
ASSUME SpecialAssumption ==
    /\ Undefined \notin Int \union BOOLEAN \union Seq(Nat) \union Seq(STRING)
    /\ Thrown \notin Int \union BOOLEAN \union Seq(Nat)
    /\ Null \notin Int \union Seq(Nat)
    /\ {Undefined, Null} \intersect (Seq(Seq(Nat)) \union Seq(Seq(Seq(Nat)))) = {}
    /\ Undefined # Thrown /\ Undefined # Null /\ Null # Thrown

(* Numbers, digits, bytes and decimal texts.                                 *)
ASSUME InputsAssumption ==
    /\ Numbers \subseteq Int /\ Sizes \subseteq Nat \union {Undefined}
    /\ HexValues \subseteq Seq(0 .. 15)
    /\ ByteArrays \subseteq Seq(0 .. 255) /\ Strings \subseteq Seq(0 .. 255)
    /\ Offsets \subseteq Nat
    /\ Decimals \subseteq Nat /\ UnitValues \subseteq Int
    /\ \A t \in UnitTexts :
          t.negative \in BOOLEAN /\ t.integer \in Seq(0 .. 9) /\ t.fraction \in Seq(0 .. 9)

-----------------------------------------------------------------------------
ConvertNumber ==
    \E n \in Numbers, big \in BOOLEAN, signed \in BOOLEAN, s \in Sizes :
        /\ signed => Given(s)
        /\ Call([kind |-> "number", value |-> n, big |-> big, signed |-> signed, size |-> s],
                NumberToHex(n, big, signed, s))

ConvertBytes ==
    \E b \in ByteArrays, s \in Sizes :
        Call([kind |-> "bytes", value |-> b, size |-> s], BytesToHex(b, s))

ConvertHex ==
    \E h \in HexValues, s \in Sizes :
        Call([kind |-> "hex", value |-> h, size |-> s], HexToBytes(h, s))

ConvertBool ==
    \E b \in BOOLEAN, s \in Sizes :
        Call([kind |-> "bool", value |-> b, size |-> s], BoolToHex(b, s))

ConvertText ==
    \E t \in Strings, s \in Sizes :
        Call([kind |-> "text", value |-> t, size |-> s], StringToHex(t, s))

TrimValue ==
    \E dir \in {"left", "right"} :
        \/ \E h \in HexValues : Call([kind |-> "trim", value |-> h, dir |-> dir], TrimHex(h, dir))
        \/ \E b \in ByteArrays : Call([kind |-> "trimBytes", value |-> b, dir |-> dir], TrimBytes(b, dir))

SliceValue ==
    \E b \in ByteArrays, start \in Offsets, end \in Offsets \union {Undefined}, strict \in BOOLEAN :
        Call([kind |-> "slice", value |-> b, start |-> start, end |-> end, strict |-> strict],
             SliceHex(BytesToHex(b, Undefined), start, end, strict))

ParseDecimal ==
    \E t \in UnitTexts, d \in Decimals :
        Call([kind |-> "parse", value |-> t, decimals |-> d], ParseUnits(t, d))

FormatDecimal ==
    \E n \in UnitValues, d \in Decimals :
        Call([kind |-> "format", value |-> n, decimals |-> d], FormatUnits(n, d))

SerializeParameters ==
    \E format \in SerializeFormats : \E p \in Parameters(format) :
        Call([kind |-> "parameters", format |-> format, p |-> p], SerializeFields(format, p))

SerializeOverrides ==
    \E o \in Overrides : Call([kind |-> "overrides", overrides |-> o], SerializeOverrideMap(o))

AnswerOf(format, p) ==
    IF p = Null THEN Null
    ELSE [f \in DOMAIN p |->
            WrittenByNode(format[CHOOSE n \in DOMAIN format : format[n].of = f].form, p[f])]

ParseAnswer ==
    \E format \in ParseFormats : \E p \in Answers(format) :
        Call([kind |-> "answer", format |-> format, p |-> p], ParseFields(format, AnswerOf(format, p)))

CallProvider ==
    \E provider \in {SignerProvider, PaymasterProvider, StorageProvider, ArtifactProvider},
      base \in BaseUrls, headers \in HeaderValues, argument \in Texts, response \in Responses :
      \E method \in DOMAIN provider :
        Call([kind |-> "provider", endpoint |-> provider[method], argument |-> argument, base |-> base,
                          headers |-> headers, response |-> response],
             [request |-> ProviderRequest([baseUrl |-> base, headers |-> headers],
                                          provider[method], argument),
              answer |-> ProviderAnswer(response),
              check |-> CheckProviderHealth(RegisterProvider(argument, "signer", base), response)])

CheckFleet ==
    \E fleet \in Fleets :
        Call([kind |-> "fleet", fleet |-> fleet],
             AggregateFleetStatus([i \in DOMAIN fleet |->
                 CheckProviderHealth(RegisterProvider(fleet[i].address, fleet[i].role,
                                                      fleet[i].baseUrl), fleet[i].response)]))

DelegateExecution ==
    \E request \in DelegatedRequests :
        Call([kind |-> "delegated", request |-> request], ValidateDelegatedRequest(request))

CaptureEvidence ==
    \E params \in EvidenceParams :
        /\ ValidateEvidenceParams(params) = {}
        /\ Call([kind |-> "evidence", params |-> params], BuildEvidenceCaptureRequest(params))

SearchProofs ==
    \E params \in SearchParams :
        Call([kind |-> "search", params |-> params], BuildProofArtifactSearchParams(params))

Next ==
    \/ Return
    \/ /\ task = Idle
       /\ \/ ConvertNumber \/ ConvertBytes \/ ConvertHex \/ ConvertBool \/ ConvertText
          \/ TrimValue \/ SliceValue \/ ParseDecimal \/ FormatDecimal
          \/ SerializeParameters \/ SerializeOverrides \/ ParseAnswer
          \/ CallProvider \/ CheckFleet \/ DelegateExecution \/ CaptureEvidence \/ SearchProofs

Spec == Init /\ [][Next]_vars

-----------------------------------------------------------------------------
Fits(length, size) == size = Undefined \/ length <= size

NumberInverts ==
    Calling("number") =>
      LET n == task.value
      IN  IF ~InRange(n, task.big, task.signed, task.size) THEN result = Thrown
          ELSE /\ result # Thrown
               /\ Given(task.size) => Len(result) = 2 * task.size
               /\ HexToBigInt(result, task.signed, task.size) = n
               /\ HexToNumber(result, task.signed, task.size) =
                    IF n <= MaxSafe /\ n >= - MaxSafe THEN n ELSE Thrown
               /\ ~task.signed =>
                    Worth(NumberToBytes(n, task.big, FALSE, task.size), 256) = n

BytesInvert ==
    /\ Calling("bytes") =>
         LET b == task.value
         IN  IF ~Fits(Len(b), task.size) THEN result = Thrown
             ELSE HexToBytes(result, Undefined) = StringToBytes(b, task.size)
    /\ Calling("hex") =>
         LET h == task.value
         IN  IF Given(task.size) /\ Size(h) > task.size THEN result = Thrown
             ELSE IF Given(task.size)
             THEN Len(h) % 2 = 0 =>
                    /\ Len(result) = task.size
                    /\ SliceHex(BytesToHex(result, Undefined), 0, Size(h), FALSE) = h
             ELSE Len(result) = Size(h) /\ Worth(result, 256) = Worth(h, 16)
    /\ Calling("bool") =>
         IF task.size = 0 THEN result = Thrown
         ELSE /\ HexToBool(result, task.size) = task.value
              /\ HexToBytes(result, Undefined) = BoolToBytes(task.value, task.size)

(* The number a hex value is read as is written as that hex value, of whole  *)
(* bytes.  Without a width no sign can be told: no digits, and, to be read   *)
(* signed, an odd number of them, are refused, whatever the size.            *)
HexReads ==
    Calling("hex") =>
      \A signed \in BOOLEAN :
        LET h == task.value
            n == HexToBigInt(h, signed, task.size)
        IN  IF h = <<>> \/ (signed /\ Len(h) % 2 = 1) \/ (Given(task.size) /\ Size(h) > task.size)
            THEN n = Thrown
            ELSE NumberToHex(n, TRUE, signed, Size(h)) = EvenDigits(h)

(* With a size, what comes back has lost its last zeros but never its last   *)
(* byte: no text of nothing, and none that ends in NUL.  With or without, a  *)
(* byte order mark in front does not come back, and no other.                *)
TextInverts ==
    Calling("text") =>
      IF ~Fits(Len(task.value), task.size) THEN result = Thrown
      ELSE LET read == HexToString(result, task.size)
           IN  \/ task.value = IF Marked(task.value) THEN Mark \o read ELSE read
               \/ Given(task.size) /\ (task.value = <<>> \/ task.value[Len(task.value)] = 0)

PartsInvert ==
    /\ Calling("trim") /\ task.dir = "left" =>
         /\ Worth(result, 16) = Worth(task.value, 16) /\ Len(result) % 2 = 0
         /\ Len(result) > 2 => result[1] # 0 \/ result[2] # 0
    /\ Calling("trimBytes") =>
         /\ PadBytes(result, Len(task.value), IF task.dir = "left" THEN "left" ELSE "right")
              = task.value
         /\ Len(result) > 1 => result[IF task.dir = "left" THEN 1 ELSE Len(result)] # 0
    /\ Calling("slice") =>
         LET size == Len(task.value)
             end == IF task.end = Undefined THEN size ELSE task.end
             From(a, b) == SliceHex(BytesToHex(task.value, Undefined), a, b, FALSE)
         IN  CASE task.start > 0 /\ task.start >= size -> result = Thrown
               [] (task.start = 0 \/ task.start < size) /\ task.start <= end /\ end <= size ->
                    /\ result # Thrown /\ Size(result) = end - task.start
                    /\ From(0, task.start) \o result
                         \o (IF end = size THEN <<>> ELSE From(end, Undefined))
                       = BytesToHex(task.value, Undefined)
               [] OTHER -> task.strict /\ task.end # Undefined => result = Thrown
    /\ Calling("slice") =>
         SliceBytes(task.value, task.start, task.end, task.strict)
           = IF result = Thrown THEN Thrown ELSE HexToBytes(result, Undefined)

(* A conversion to hex or bytes is undone by the conversion back, whatever    *)
(* the signedness and size, and is refused exactly when the value does not    *)
(* fit, but for a byte order mark in front of a text and zeros at its end; the*)
(* parts of a slice make up the value, and trimming drops zeros only          *)
(* (utils/encoding and utils/data).                                           *)
ConversionsInvert == NumberInverts /\ BytesInvert /\ HexReads /\ TextInverts /\ PartsInvert

-----------------------------------------------------------------------------
(* The values a field of a form takes: what the types of the code say.       *)
OfForm(form, value) ==
    /\ value \notin {Undefined, Null, Thrown}
    /\ form \in {"quantity", "quantity?"} => value \in Int
    /\ form = "account" => value \in Seq(0 .. 31)
    /\ form = "block" /\ DOMAIN value = {"number"} => value.number \in Int
    /\ form = "quantities" => value \in Seq(Nat)
    /\ form = "rows" => value \in Seq(Seq(Nat))

(* A field that may be left out is Undefined. *)
TypedParameters(format, p) ==
    \A n \in DOMAIN format :
        LET value == p[format[n].of]
        IN  IF value = Undefined THEN format[n].when # "always" ELSE OfForm(format[n].form, value)

(* A node has no negative quantity, and its addresses are whole. *)
TypedAnswer(format, p) ==
    /\ DOMAIN p = {format[n].of : n \in DOMAIN format}
    /\ \A n \in DOMAIN format :
        LET form == format[n].form
            value == p[format[n].of]
        IN  IF value \in {Undefined, Null}
            THEN form = "quantity?" \/ format[n].when # "always"
            ELSE /\ OfForm(form, value)
                 /\ form \in {"quantity", "quantity?"} => value >= 0
                 /\ form = "account" => value \in Seq(0 .. 15) /\ Len(value) = 2 * Word

GivenFields(format, p) == {n \in DOMAIN format : p[format[n].of] # Undefined}

(* The record a node should find. *)
Expected(format, p) ==
    [n \in GivenFields(format, p) |-> SaidBy(format[n].form, p[format[n].of])]

Unfit(format, p) ==
    \E n \in GivenFields(format, p) : ~FitsForm(format[n].form, p[format[n].of])

(* The parameters, overrides and answers are typed, and the special values   *)
(* are no records.                                                           *)
ASSUME FieldsAssumption ==
    /\ \A format \in SerializeFormats : \A p \in Parameters(format) : TypedParameters(format, p)
    /\ \A o \in Overrides :
         /\ Len(o) \in Nat /\ DOMAIN o = 1 .. Len(o)
         /\ \A i \in DOMAIN o :
              /\ o[i][1] \in Seq(0 .. 31) /\ TypedParameters(OverrideAccount, o[i][2])
              /\ Unfit(OverrideAccount, o[i][2]) \/ Expected(OverrideAccount, o[i][2]) # Thrown
    /\ \A format \in ParseFormats : \A p \in Answers(format) :
         p # Null => TypedAnswer(format, p) /\ AnswerOf(format, p) # Null

(* What the node reads in a request is what the caller gave: every field that *)
(* was given, a nonce or amount of 0 too, and no other, under its name and in *)
(* its format; a value without a format is refused.  Of an address spelt in   *)
(* two ways among the overrides one override is sent, not a mixture.  What the*)
(* node answers is read back in full: null as null, a deposit it does not name*)
(* as 0 (serialize* and parse* of createPublicClient and createWalletClient). *)
ParametersReadBack ==
    /\ Calling("parameters") =>
         result = IF Unfit(task.format, task.p) THEN Thrown ELSE Expected(task.format, task.p)
    /\ Calling("overrides") =>
         LET o == task.overrides
             Of(address) == {i \in DOMAIN o : LowerCase(o[i][1]) = address}
         IN  IF \E i \in DOMAIN o : Len(o[i][1]) # 2 * Word \/ Unfit(OverrideAccount, o[i][2])
             THEN result = Thrown
             ELSE /\ DOMAIN result = {LowerCase(o[i][1]) : i \in DOMAIN o}
                  /\ \A a \in DOMAIN result : \E i \in Of(a) :
                        result[a] = Expected(OverrideAccount, o[i][2])
    /\ Calling("answer") =>
         LET p == task.p
         IN  IF p = Null THEN result = Null
             ELSE \A n \in DOMAIN task.format :
                    LET made == task.format[n]
                        value == p[made.of]
                    IN  IF value \notin {Undefined, Null} THEN result[n] = value
                        ELSE IF made.form = "quantity?" THEN result[n] = 0
                        ELSE n \notin DOMAIN result

-----------------------------------------------------------------------------
(* The value of a decimal text in units of 10^-places, places enough for it. *)
Scaled(text, places) ==
    Worth(text.integer \o text.fraction \o Zeros(places - Len(text.fraction)), 10)

(* n is value / scale rounded half up: exactly, as long as the scale is less *)
(* than 2^(Bits - 3), 15 digits with the 53 bits of a double, and otherwise  *)
(* also from less than 2^(3 - Bits) below the half.                          *)
RoundsTo(value, scale, n) ==
    LET raised == 2 * value + scale
        precision == Power(2, Bits - 3)
    IN  /\ raised < 2 * scale * (n + 1)
        /\ \/ 2 * scale * n <= raised
           \/ precision <= scale /\ (2 * scale * n - raised) * precision <= 2 * scale

(* parseUnits rounds a decimal text half away from zero to the number of     *)
(* decimals, up to the precision of a double, with the carry into every digit*)
(* it concerns, and formatUnits gives the shortest text that parses back to  *)
(* the value.  The one text of the grammar parseUnits cannot take is a minus *)
(* with no digit left.                                                       *)
UnitsRound ==
    /\ Calling("parse") =>
         LET text == task.value
             places == Greatest(task.decimals, Len(text.fraction))
             size == IF result = Thrown THEN 0 ELSE IF text.negative THEN - result ELSE result
         IN  /\ RoundsTo(Scaled(text, places), Power(10, places - task.decimals), size)
             /\ result = Thrown <=> /\ text.negative /\ text.integer = <<>>
                                    /\ task.decimals = 0 /\ size = 0
    /\ Calling("format") =>
         /\ ParseUnits(result, task.decimals) = task.value
         /\ result.integer # <<>>
         /\ Len(result.integer) > 1 => result.integer[1] # 0
         /\ result.fraction # <<>> => result.fraction[Len(result.fraction)] # 0

-----------------------------------------------------------------------------
Decoded(text) == [i \in DOMAIN text |-> IF text[i] > 255 THEN text[i] - 256 ELSE text[i]]

(* The values the types of the code allow; what Number makes of the text of  *)
(* an amount has the sign of what BigInt makes of it.                        *)
IsAmount(a) ==
    a # Undefined /\ a.bigInt # Thrown =>
        /\ ~a.isNaN /\ a.bigInt \in Int
        /\ a.sign = IF a.bigInt > 0 THEN 1 ELSE IF a.bigInt < 0 THEN -1 ELSE 0

ASSUME ProvidersAssumption ==
    /\ BaseUrls \subseteq Seq(Nat) /\ Texts \subseteq Seq(0 .. 255)
    /\ \A h \in HeaderValues : h = Undefined \/ h.form \in {"Headers", "array", "record"}
    /\ \A r \in Responses : r = Unreachable \/ r.ok \in BOOLEAN
    /\ \A fleet \in Fleets :
         /\ Len(fleet) \in Nat /\ DOMAIN fleet = 1 .. Len(fleet)
         /\ \A i \in DOMAIN fleet :
              /\ fleet[i].role \in {"signer", "paymaster", "storage", "artifact"}
              /\ fleet[i].response = Unreachable \/ fleet[i].response.ok \in BOOLEAN
    /\ \A r \in DelegatedRequests : IsAmount(r.gas) /\ IsAmount(r.valueTomi)
    /\ \A p \in EvidenceParams :
         p.ttlSeconds \in Int \union {Undefined} /\ p.autoAnchor \in BOOLEAN \union {Undefined}
    /\ \A p \in SearchParams :
         /\ p.kinds \in Seq(STRING) \union {Undefined}
         /\ p.sourceUrlPrefix \in Seq(Nat) \union {Undefined}
         /\ p.subjectId \in Seq(Nat) \union {Undefined}
         /\ p.verifiedOnly \in BOOLEAN \union {Undefined}
         /\ p.anchoredOnly \in BOOLEAN \union {Undefined}

(* The headers of the configuration as they reach a provider: those of a plain*)
(* object do, under their names, in a call with a body; those of a Headers    *)
(* object do not, those of a list of pairs only under the number of the pair, *)
(* and a call without a body carries none.                                    *)
HeadersArrive(endpoint, headers, sent) ==
    LET Of(form) == headers # Undefined /\ headers.form = form
        named == IF Of("record") THEN DOMAIN headers.entries ELSE {}
    IN  IF endpoint.argument # "body" THEN sent = Undefined
        ELSE /\ DOMAIN sent = {"Content-Type"} \union named
                                 \union (IF Of("array") THEN {"0"} ELSE {})
             /\ \A h \in named : sent[h] = headers.entries[h]
             /\ "Content-Type" \notin named => sent["Content-Type"] = "application/json"

(* A call of a provider reaches the endpoint behind the base URL however many *)
(* slashes that ends in, with the argument in one piece and of the headers    *)
(* those that arrive; it returns the provider's answer, and throws exactly    *)
(* when there is none: no connection, an error status, no JSON.  The health   *)
(* check, which has no headers, never throws, and says healthy                *)
(* whenever the client's own health() answers; a fleet's counts add up, over  *)
(* the roles too.  A search is not widened by being built, or built twice,    *)
(* unless every kind it asked for is foreign; a request for evidence has a    *)
(* life and keeps a flag that is false; no request is refused that could have *)
(* been executed (create*ProviderClient, operatorControl, proofMarket,        *)
(* evidence, delegatedExecution).                                             *)
ProvidersAnswer ==
    /\ Calling("provider") =>
         LET request == result.request
             answered == task.response # Unreachable /\ task.response.ok
                           /\ task.response.json # Thrown
             slashes == Len(task.base) - Len(request.base)
         IN  /\ task.base = request.base \o [i \in 1 .. slashes |-> 47]
             /\ request.base # <<>> => Last(request.base) # 47
             /\ \A i \in DOMAIN request.id : request.id[i] # 47
             /\ task.endpoint.argument = "id" => Decoded(request.id) = task.argument
             /\ task.endpoint.argument = "body" => request.body = task.argument
             /\ HeadersArrive(task.endpoint, task.headers, request.headers)
             /\ result.answer = IF answered THEN task.response.json ELSE Thrown
             /\ result.answer # Thrown => result.check.healthy
             /\ result.check.baseUrl = request.base
    /\ Calling("fleet") =>
         LET Count(role) == Len(FilterByRole(result.providers, role))
         IN  /\ result.healthy + result.unhealthy = result.total
             /\ Count("signer") + Count("paymaster") + Count("storage") + Count("artifact")
                  = result.total
             /\ result.healthy = Cardinality({i \in DOMAIN task.fleet :
                    task.fleet[i].response # Unreachable /\ task.fleet[i].response.ok})
    /\ Calling("delegated") /\ result # {} =>
         LET r == task.request
         IN  \/ r.target \in {Undefined, <<>>}
             \/ r.gas # Undefined /\ (r.gas.bigInt = Thrown \/ r.gas.bigInt <= 0)
             \/ r.valueTomi # Undefined /\ (r.valueTomi.bigInt = Thrown \/ r.valueTomi.bigInt < 0)
    /\ Calling("evidence") =>
         /\ result.ttl_seconds > 0
         /\ result.auto_anchor = FALSE <=> task.params.autoAnchor = FALSE
    /\ Calling("search") =>
         LET asked == task.params
             Asked(f) == {i \in DOMAIN asked[f] : asked[f][i] # 32}
         IN  /\ BuildProofArtifactSearchParams(result) = result
             /\ result.kinds # Undefined =>
                  /\ ToSet(result.kinds) = ToSet(asked.kinds) \intersect PublicProofKinds
                  /\ result.kinds # <<>>
             /\ result.kinds = Undefined /\ asked.kinds # Undefined =>
                  ToSet(asked.kinds) \intersect PublicProofKinds = {}
             /\ \A f \in {"sourceUrlPrefix", "subjectId"} :
                  result[f] = Undefined => asked[f] = Undefined \/ Asked(f) = {}
=============================================================================
