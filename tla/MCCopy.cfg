CONSTANTS
    Rank <- MCRank
    Unsendable <- MCUnsendable
    Huge <- MCHuge
    MaxFiles = 2
    MaxWords = 6
    PcTrees <- MCPcTrees
    Selections <- MCSelections
    Fresh <- MCFresh
    MaxPcEdits = 2
    Variants <- MCVariants
    Partials = "p"
    DeckTrees <- MCDeckTrees
    Spots <- MCSpots
    MaxDeckEdits = 2
    MaxFaults = 1
    Offers <- MCOffers
    RawPaths <- MCRawPaths
SPECIFICATION Spec
CHECK_DEADLOCK FALSE
INVARIANTS
    TypeOK
    OfferIsTheTree
    RefusedForAReason
    NoTwoAlike
    StaysInside
PROPERTIES
    KeepsBoth
    FailsForAReason
    EventuallyStored
