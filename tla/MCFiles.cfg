SPECIFICATION Spec
INVARIANTS
    TypeOK
    GivenAsTaken
    IndexHonest
    CutKeepsWhole
    KeysDecodable
CHECK_DEADLOCK FALSE
