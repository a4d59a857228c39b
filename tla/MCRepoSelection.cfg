CONSTANTS
    System <- MCSystem
    Label <- MCLabel
    Provider = {"azdo", "github"}
    ProviderOf <- MCProviderOf
    RepoOf <- MCRepoOf
    DefaultBranch <- MCDefaultBranch
    Branches <- MCBranches
    Letter = {"b", "i"}
    PAGE_SIZE = 2
    MaxSearch = 2
SPECIFICATION FairSpec
INVARIANTS
    BranchFollowsSelection
PROPERTIES
    TypingFindsOption
    SelectionSettles
