SPECIFICATION Spec
CONSTANT Menus <- Authors
CHECK_DEADLOCK FALSE
INVARIANTS WhollyDeclared NamesResolve NoLiveExport BudgetsNest TableIsFaithful
