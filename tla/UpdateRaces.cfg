CONSTANTS
    Requests = {r1, r2}
    Fields = {aliases, notes}
    Required = {aliases}
    Values = {v1, v2}
    Default = v1
    Null = Null
    NoRow = NoRow
SPECIFICATION Spec
SYMMETRY Symmetry
INVARIANTS
    TypeOK
    ErrorsExplained
PROPERTIES
    OnlyAskedFieldsChange
    AskedValuesHeld
    AnswerIsCommitted
