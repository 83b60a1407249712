\* One recall or one clustering of three memories, by relations and entities or by
\* time and meaning, or by meaning alone while memories are deleted; requests end.
SPECIFICATION Spec
CONSTANTS
    Ids = {1, 2, 3, 4}
    Stored = {1, 2, 3}
    Types = {"causes", "knows"}
    Declared <- SomeRelations
    Scores = {0, 1}
    Entities = {acme}
    Times = {0, 1, 2, 3}
    NoTime = NoTime
    Window = 2
    Requests <- DeclaredAndNearby
    Hops = 2
    Fanout = 2
    Seeds <- SomeSeeds
    MinSize = 2
INVARIANTS
    ActivationIsBestWalks
    RecallStaysInConcept
    ConceptsAreComponents
    SessionIsOneConcept
PROPERTIES
    RequestEnds
CHECK_DEADLOCK FALSE
