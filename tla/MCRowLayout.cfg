SPECIFICATION MCSpec
CONSTANT
    Styles <- MCStyles
CHECK_DEADLOCK FALSE
INVARIANTS
    ColumnsFollowStyle
    OnlyBadLinesRefused
    OffsetsAgree
    FieldsAgree
    SelectedColumnsExist
PROPERTY
    StyleEnds
