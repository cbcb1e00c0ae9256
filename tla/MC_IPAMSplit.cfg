SPECIFICATION Spec
INVARIANT SplitTilesBlock
