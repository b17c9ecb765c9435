SPECIFICATION SettlesSpec
CONSTANT NoPolicy = NoPolicy
PROPERTY EverythingSettles
CHECK_DEADLOCK FALSE
