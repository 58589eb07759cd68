CONSTANT MaxLogins = 2
SPECIFICATION Spec
INVARIANT ExitDisconnects
