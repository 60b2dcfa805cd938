SPECIFICATION AllSpec
CONSTANTS
    Thrown = Thrown
    Undefined = Undefined
    Idle = Idle
    MaxSafe = 100000
    Word = 2
    Null = Null
    Unreachable = Unreachable
    Numbers <- MCNumbers
    Sizes <- MCSizes
    HexValues <- MCHexValues
    ByteArrays <- MCByteArrays
    Offsets <- MCOffsets
    Strings <- MCStrings
    Bits = 8
    Decimals <- MCDecimals
    UnitTexts <- MCUnitTexts
    UnitValues <- MCUnitValues
    Parameters <- MCParameters
    Answers <- MCAnswers
    Overrides <- MCOverrides
    BaseUrls <- MCBaseUrls
    HeaderValues <- MCHeaderValues
    Texts <- MCTexts
    Responses <- MCResponses
    Fleets <- MCFleets
    DelegatedRequests <- MCDelegatedRequests
    EvidenceParams <- MCEvidenceParams
    SearchParams <- MCSearchParams
    Mangled = Mangled
    NoBytes = NoBytes
    BlsPart = 3
    Order = 5
    Keys = {1, 3}
    Nonces = {1, 2, 3, 4}
    AbiTypes <- MCAbiTypes
    AbiValues <- MCAbiValues
    Transactions <- MCTransactions
    SignatureArguments <- MCSignatureArguments
    Hashes <- MCHashes
    SignerNames <- MCSignerNames
    Messages <- MCMessages
    Quotes <- MCQuotes
    Requesters <- MCRequesters
    Records <- MCRecords
    Schemas <- MCSchemas
    SchemaValues <- MCSchemaValues
    Status <- MCStatus
    Verified <- MCVerified
    TypedData <- MCTypedData
    Reserved = {5}
    NullDomain = NullDomain
    TextDomain = TextDomain
INVARIANTS
    
    ParametersReadBack
    UnitsRound
    ProvidersAnswer
    AbiDecodes
    EnvelopeBinds
    SignaturesVerify
    AccountsSign
    TypedDataBinds
    RecordsBind
