CONSTANTS
    N = 4
    KeyMaps <- MCKeyMaps
    NewKeys = {0, 3}
    IdLists <- MCIdLists
    Modes <- MCModes
    Sizes = {1, 2, 3}
    SliceLimits = {2, 4}
    PageSizes = {1, 3}
    Matching <- MCMatching
    MaxChanges = 2

SPECIFICATION SplitSpec
INVARIANTS
    NoOverlap
    NothingMissed
