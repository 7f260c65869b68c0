CONSTANT FetchSlot = {1, 2, 3}
SPECIFICATION RefreshSpec
INVARIANTS
  CardsMatchButton
PROPERTIES
  RecoversForGood
  ButtonComesBack
