SPECIFICATION Spec
CONSTANT MaxIndex = 6
INVARIANTS TypeOK NormalForm
PROPERTY PoolSpec
