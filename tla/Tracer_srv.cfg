SPECIFICATION Spec
CONSTANT PoolSize = 2
INVARIANT SrvIsNotNegative
