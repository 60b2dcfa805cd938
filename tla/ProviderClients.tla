--------------------------- MODULE ProviderClients ---------------------------
(* The clients of the signer, paymaster, storage and artifact providers      *)
(* (src/src/clients/create*ProviderClient.ts) and the functions of the       *)
(* surfaces around them: operatorControl, delegatedExecution, evidence and   *)
(* proofMarket.                                                              *)
(*                                                                           *)
(* A text is the sequence of its characters; 47 is the slash, 32 the space.  *)
(* A provider's response is a record of ok, status and json, which is Thrown *)
(* when the body is none; Unreachable stands for a fetch that rejects.       *)
EXTENDS Hex

CONSTANT Unreachable

TrimTrailingSlash(text) == TrimEnd(text, 47)

(* External: encodeURIComponent, of texts of letters and slashes; the escape *)
(* of a character is the character plus 256.                                 *)
EncodeURIComponent(text) ==
    [i \in DOMAIN text |-> IF text[i] = 47 THEN text[i] + 256 ELSE text[i]]

(* Array.prototype.filter: the elements at the places that pass, in order. *)
Filter(data, passing) ==
    LET filtered[i \in 0 .. Len(data)] ==
            IF i = 0 THEN <<>>
            ELSE IF i \in passing THEN Append(filtered[i - 1], data[i]) ELSE filtered[i - 1]
    IN  filtered[Len(data)]

(* Mutant: an error is read like an answer. *)
ReadAnyResponse(response) == response.json

ReadJsonResponse(response) == IF response.ok THEN response.json ELSE Thrown

(* The caller's headers are spread over the default.  Those of a Headers     *)
(* object are none of its own properties, those of an array its indices.     *)
OwnEntries(headers) ==
    CASE headers = Undefined \/ headers.form = "Headers" -> [h \in {} |-> h]
      [] headers # Undefined /\ headers.form = "record" -> headers.entries
      [] headers # Undefined /\ headers.form = "array" -> [h \in {"0"} |-> "an entry"]

BuildHeaders(headers) ==
    LET own == OwnEntries(headers)
    IN  [h \in {"Content-Type"} \union DOMAIN own |->
           IF h \in DOMAIN own THEN own[h] ELSE "application/json"]

-----------------------------------------------------------------------------
Post(path) == [method |-> "POST", path |-> path, argument |-> "body"]
GetBy(path) == [method |-> "GET", path |-> path, argument |-> "id"]
Get(path) == [method |-> "GET", path |-> path, argument |-> "none"]
Health == Get("healthz")

SignerProvider ==
    [quote |-> Post("quote"), submit |-> Post("submit"),
     status |-> GetBy("status"), receipt |-> GetBy("receipt"), health |-> Health]

PaymasterProvider ==
    [quote |-> Post("quote"), authorize |-> Post("authorize"),
     status |-> GetBy("status"), receipt |-> GetBy("receipt"), health |-> Health]

StorageProvider ==
    [quote |-> Post("quote"), put |-> Post("put"), head |-> GetBy("head"), get |-> GetBy("get"),
     audit |-> Post("audit"), renew |-> Post("renew"), health |-> Health]

ArtifactProvider ==
    [captureNews |-> Post("capture-news"), captureOracleEvidence |-> Post("oracle-evidence"),
     getItem |-> GetBy("item"), health |-> Health]

(* Only a request with a body has headers. *)
ProviderRequest(config, endpoint, argument) ==
    [base |-> TrimTrailingSlash(config.baseUrl), path |-> endpoint.path,
     method |-> endpoint.method,
     id |-> IF endpoint.argument = "id" THEN EncodeURIComponent(argument) ELSE <<>>,
     body |-> IF endpoint.argument = "body" THEN argument ELSE Undefined,
     headers |-> IF endpoint.argument = "body" THEN BuildHeaders(config.headers) ELSE Undefined]

ProviderAnswer(response) ==
    IF response = Unreachable THEN Thrown ELSE ReadJsonResponse(response)

-----------------------------------------------------------------------------
(* operatorControl *)
RegisterProvider(address, role, baseUrl) ==
    [address |-> address, role |-> role, baseUrl |-> TrimTrailingSlash(baseUrl)]

CheckProviderHealth(registration, response) ==
    [address |-> registration.address, role |-> registration.role,
     baseUrl |-> registration.baseUrl,
     healthy |-> response # Unreachable /\ response.ok,
     error |-> CASE response = Unreachable -> "fetch failed"
                 [] response # Unreachable /\ response.ok -> "none"
                 [] response # Unreachable /\ ~response.ok -> response.status]

AggregateFleetStatus(statuses) ==
    LET healthy == Len(Filter(statuses, {i \in DOMAIN statuses : statuses[i].healthy}))
    IN  [total |-> Len(statuses), healthy |-> healthy,
         unhealthy |-> Len(statuses) - healthy, providers |-> statuses]

FilterByRole(registrations, role) ==
    Filter(registrations, {i \in DOMAIN registrations : registrations[i].role = role})

-----------------------------------------------------------------------------
(* delegatedExecution.  The text of an amount is what Number makes of it, NaN *)
(* or its sign, and what BigInt does.                                         *)
ValidateDelegatedRequest(request) ==
    (IF request.target \in {Undefined, <<>>} THEN {"target"} ELSE {})
    \union (IF request.gas # Undefined /\ (request.gas.isNaN \/ request.gas.sign <= 0)
            THEN {"gas"} ELSE {})
    \union (IF request.valueTomi # Undefined /\ (request.valueTomi.isNaN \/ request.valueTomi.sign < 0)
            THEN {"valueTomi"} ELSE {})

-----------------------------------------------------------------------------
(* evidence *)
IsBlank(text) == text = Undefined \/ \A i \in DOMAIN text : text[i] = 32

BuildEvidenceCaptureRequest(params) ==
    [requester |-> params.requesterAddress,
     ttl_seconds |-> IF params.ttlSeconds = Undefined THEN 7200 ELSE params.ttlSeconds,
     auto_anchor |-> IF params.autoAnchor = Undefined THEN TRUE ELSE params.autoAnchor,
     title |-> params.title, question |-> params.question,
     evidence_text |-> params.evidenceText]

ValidateEvidenceParams(params) ==
    {f \in {"title", "question", "evidenceText"} : IsBlank(params[f])}
    \union (IF params.requesterAddress \in {Undefined, <<>>} THEN {"requesterAddress"} ELSE {})
    \union (IF params.ttlSeconds # Undefined /\ params.ttlSeconds <= 0 THEN {"ttlSeconds"} ELSE {})

-----------------------------------------------------------------------------
(* proofMarket *)
PublicProofKinds == {"zktls.bundle", "committee.vote", "committee.aggregate",
                     "proof.verifier_receipt", "proof.material"}

Trimmed(text) ==
    LET letters == {i \in DOMAIN text : text[i] # 32}
    IN  IF letters = {} THEN <<>>
        ELSE SubSeq(text, CHOOSE i \in letters : \A j \in letters : i <= j,
                          CHOOSE i \in letters : \A j \in letters : j <= i)

(* A filter that is left empty is left out. *)
SearchKinds(kinds) ==
    LET public == IF kinds = Undefined THEN <<>>
                  ELSE Filter(kinds, {i \in DOMAIN kinds : kinds[i] \in PublicProofKinds})
    IN  IF public = <<>> THEN Undefined ELSE public

SearchText(text) ==
    IF text = Undefined \/ Trimmed(text) = <<>> THEN Undefined ELSE Trimmed(text)

SearchFlag(flag) == IF flag = TRUE THEN TRUE ELSE Undefined

BuildProofArtifactSearchParams(params) ==
    [kinds |-> SearchKinds(params.kinds),
     sourceUrlPrefix |-> SearchText(params.sourceUrlPrefix),
     subjectId |-> SearchText(params.subjectId),
     verifiedOnly |-> SearchFlag(params.verifiedOnly),
     anchoredOnly |-> SearchFlag(params.anchoredOnly)]
=============================================================================
