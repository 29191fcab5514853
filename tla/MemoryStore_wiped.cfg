\* Wiped stays wiped.
CONSTANTS
  Statements <- NameAndHealth
  Nothing = Nothing
  BatchSize = 2
  MaxSaid = 2
  MaxFaults = 0
  MaxArchived = 1
  MaxWipes = 1
SPECIFICATION Spec
INVARIANT WipedStaysWiped
