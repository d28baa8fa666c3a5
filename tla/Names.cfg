CONSTANTS
    Labels = {"", "*", "com", "xn--p1ai", "a", "b", "c"}
    Texts <- MCTexts
    TopLabels = {"com"}
    Queries <- MCQueries
    MaxLines = 2
SPECIFICATION FairSpec
INVARIANTS
    ListedDomainsBlocked
    ListsDecideLikeRules
PROPERTIES
    WalksEnd
