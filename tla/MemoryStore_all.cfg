\* Three things to say, three times; a batch of two rows, one error or stop, one wipe.
CONSTANTS
  Statements <- NameAndEpisode
  Nothing = Nothing
  BatchSize = 2
  MaxSaid = 3
  MaxFaults = 1
  MaxArchived = 1
  MaxWipes = 1
SPECIFICATION FairSpec
INVARIANTS SyncedIsIndexed StoredOncePerTry ProcessedIsKept LastWordStands WipedBetweenRows
PROPERTY EveryRowLeaves
