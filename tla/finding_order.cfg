SPECIFICATION Spec
CONSTANT Menus <- PooledAuthors
CHECK_DEADLOCK FALSE
INVARIANTS FindingsInOrder
