\* Three agents, any order of search results, one change under way.
SPECIFICATION Spec
CONSTANTS
    Undefined = Undefined
    Nodes <- MCNodes
    Trusts <- MCTrusts
    Modes <- MCModes
    Cards <- MCCards
    Preferences <- MCPreferences
    Families = {"oracle"}
    MaxChanges = 1
INVARIANTS
    SelectionExplained
    BestIsChosen
    ProvidersAreJoined
\* The system stops when the call has ended and nothing may change.
CHECK_DEADLOCK FALSE
