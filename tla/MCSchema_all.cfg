SPECIFICATION Spec
CONSTANTS
    None = None
    TableOrder <- Order
    Schemas <- AllSchemas
    Config <- Mapping
    IndexName <- Names
    Folded <- Folds
CHECK_DEADLOCK FALSE
INVARIANTS UniquenessSurvives ForeignKeysSurvive RefusedForeignKeys SequencesFollow
