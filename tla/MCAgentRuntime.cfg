\* Two contracts, one receipt, a chain of three blocks that may be replaced.
SPECIFICATION Spec
CONSTANTS
    Undefined = Undefined
    Thrown = Thrown
    Addresses <- MCAddresses
    Codes <- MCCodes
    Refs <- MCRefs
    SenderOf <- MCSenderOf
    RecipientOf <- MCRecipientOf
    Results <- MCResults
    Preferences <- MCPreferences
    Offers <- MCOffers
    CallerBlocks <- MCCallerBlocks
    MaxResults = 2
    MaxHeight = 2
    MaxBlocks = 3
INVARIANTS
    FinalReadsRepeat
    RuntimesOfOneBlock
    SettlementIsWhole
    SurfaceExplained
    AgreesWithDiscovery
\* The system stops when the call has ended and the chain is at its bounds.
CHECK_DEADLOCK FALSE
