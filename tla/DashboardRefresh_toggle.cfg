CONSTANT FetchSlot = {1, 2}
SPECIFICATION RefreshSpec
INVARIANT ToggleHolds
