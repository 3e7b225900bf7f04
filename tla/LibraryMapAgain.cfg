SPECIFICATION MCSpec
CONSTANTS
    object1 = object1
    object2 = object2
    object3 = object3
    object4 = object4
    filter1 = filter1
    filter2 = filter2
    None = None
    Objects = {object1, object2, object3, object4}
    MaxDepth = 4
    Filters = {filter1, filter2}
    MaxFilters = 3
    Containers = {object1, object2}
    Dependencies = {object3, object4}
    Values = {0, 107, 255}
    Strays = {61, 33, 255, 95}
    MaxBytes = 4
    Elements = {1, 2, 3}
    MaxLength = 5
    UrlLetters = {"a"}
    Words = {"file", "http"}
    MaxPath = 5
    Mappers = {filter1, filter2}
    Addresses = {1, 2, 3}
    NoMap = NoMap
    Letters = {1, 2}
    MaxFile = 3
SYMMETRY Symmetric
INVARIANTS
    MapsAgain
CHECK_DEADLOCK FALSE
