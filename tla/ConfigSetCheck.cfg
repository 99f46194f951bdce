CONSTANT MaxProcs = 2
SPECIFICATION SettingsSpec
CHECK_DEADLOCK FALSE
INVARIANT Admissible
