SPECIFICATION Spec
CONSTANT N = 3
INVARIANTS TypeOK OwnedOrGone DetachedFromCancellation
PROPERTIES CancelledReturns
