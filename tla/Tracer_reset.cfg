SPECIFICATION Spec
CONSTANT PoolSize = 2
INVARIANT AttemptIsWhole
