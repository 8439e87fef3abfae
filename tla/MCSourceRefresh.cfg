SPECIFICATION FairSpec
CONSTANTS
  Processes = {a1, a2}
  Manual = {a2}
  Nobody = Nobody
  Interval = 2
  MaxNow = 3
  MaxVersion = 2
  Budgets <- MCBudgets
PROPERTIES
  SignalIsAnswered
  FreshIsYoung
  RefreshedIsStored
  SnapshotNeverRegresses
  DueIsRefreshed
