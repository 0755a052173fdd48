SPECIFICATION Spec
INVARIANT FieldsHoldTheirType
INVARIANT ClausesInTheirFields
INVARIANT OperandsKept
PROPERTY OnlyDeadStatementsMissing
