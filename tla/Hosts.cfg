CONSTANTS
    Addresses = {"a1"}
    Unlooked = {}
    Names = {"n1", "n2"}
    Macs = {"m1"}
    Vendors = {"v1"}
    VendorOf <- MCVendorOf
    Labels = {"l1"}
    Answers <- MCAnswers
    Clients <- MCClients
    MaxClients = 2
    Jobs = {"j1", "j2"}
    Imports = {"i1"}
SPECIFICATION FairSpec
INVARIANTS
    InFlightExact
    ConfidenceTells
    ShownWasObserved
PROPERTIES
    FoundIsKept
    OkMeansMerged
    LookupsRecur
