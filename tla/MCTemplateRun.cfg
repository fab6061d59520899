CONSTANTS
    Files = {"f1", "f2"}
    Key <- Keys
    Value <- Values
    NoSet = NoSet
    Shared = Shared
    NoTarget = NoTarget
    NoDoc = NoDoc
    AnyName = AnyName
    Assertion <- Nodes
    Sets <- Leaves
    AllOf <- AllOfs
    AnyOf <- AnyOfs
    Nested <- Nesteds
    Not <- Nots
    On <- Ons
    Want <- Wants
    Chart <- Rendered
    Valid <- Conforms
    SuiteChoices <- SomeSuites
    FlagChoices <- Flags
SPECIFICATION FairSpec
INVARIANTS ExpansionExact ValuesApart GreenMeansAll SkipIsHonest FailIsBroken FileWhole PassHasSubject
PROPERTIES RunEnds
