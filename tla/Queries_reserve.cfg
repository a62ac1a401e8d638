\* GetAllCoinBaseTransaction with start + count wrapping in uint32_t.
CONSTANT UInt32Mod = 8
SPECIFICATION Spec
INVARIANT ReserveBounded
