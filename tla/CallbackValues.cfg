SPECIFICATION MCSpec
CONSTANT
    Styles <- MCStyles
CHECK_DEADLOCK FALSE
INVARIANT
    CallbacksAsDocumented
