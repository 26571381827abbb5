CONSTANTS
  Users = {u1,u2}
  Calls = {c1, c2}
  Amounts = {1}
  Fees = {0, 1}
  MaxCommits = 4
SPECIFICATION Spec
SYMMETRY Symmetry
INVARIANTS
  JournalsBalanced
  BalanceMatchesEntries
  NoOverdraft
PROPERTIES
  GapMovesOnlyByStaleCommit
  ImplementsUserFunds
