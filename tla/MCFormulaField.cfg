CONSTANTS
    Functions <- MCFunctions
    Labels <- MCLabels
    Typeable <- MCTypeable
    MaxTyped = 2
SPECIFICATION FieldSpec
INVARIANTS
    PopupOfText
PROPERTIES
    AcceptAddsName
CHECK_DEADLOCK FALSE
