SPECIFICATION MCSpec
CONSTANTS
    w1 = w1
    w2 = w2
    leftButton = leftButton
    rightButton = rightButton
    k1 = k1
    k2 = k2
    f1 = f1
    f2 = f2
    None = None
    Windows = {w1, w2}
    Buttons = {leftButton, rightButton}
    Keys = {k1, k2}
    Fingers = {f1, f2}
    MaxSlots = 2
    DeviceSets <- MouseOrKeyboard
    Globals <- SomeGlobals
    Caps <- SomeCaps
    MaxHeld = 3
SYMMETRY Symmetric
INVARIANTS
    InputAgrees
    GlobalsAgree
    KeysAgree
PROPERTIES
    EventsFindTheFocus
CHECK_DEADLOCK FALSE
