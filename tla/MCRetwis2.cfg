CONSTANTS
  Clients = {0, 1}
  NumRandom = 2

SPECIFICATION Spec
INVARIANT RoutedExactlyOnce
