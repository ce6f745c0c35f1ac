SPECIFICATION SceneSpec
CONSTANTS
    Scenes = {"s", "n", "m"}
    Inputs = {"a", "v"}
    AudioInputs = {"a"}
    Pairs <- Nested
    Loaded <- Collections
    MaxChanges = 4
    SceneRaces = {}
INVARIANTS
    SceneTypeOK
    RefsMatch
    
PROPERTIES
    QuietShowingIsDisplayed
CHECK_DEADLOCK FALSE
