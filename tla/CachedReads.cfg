SPECIFICATION ReadsSpec
CONSTANTS
    a1 = a1
    a2 = a2
    i1 = i1
    i2 = i2
    Batches <- MCBatches
    Args <- MCArgs
    Items <- MCItems
    MaxVersion = 1
    Null = Null
    None = None
    Readers = {r1, r2}
    Collections = {project}
    Users = {1, 2}
    PageLimit = 1
    MaxUserVersion = 2
INVARIANTS AnswersAreOwn StatesAreWholeAnswers LookupsAreTrue
SYMMETRY Symmetry
CHECK_DEADLOCK FALSE
