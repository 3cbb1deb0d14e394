SPECIFICATION Spec
CONSTANT Menus <- EarlyAuthors
CHECK_DEADLOCK FALSE
INVARIANTS SpawnsCanResolve
