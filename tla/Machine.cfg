SPECIFICATION Spec
INVARIANTS NothingStale ContextsKept
PROPERTIES EnginesAgree NoEventLost
