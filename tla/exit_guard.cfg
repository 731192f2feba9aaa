SPECIFICATION Spec
CONSTANT DeadlineBars = 6
INVARIANTS GuardInv OneActionPerBar FlattenIsDue
