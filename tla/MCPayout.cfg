\* All pairs of options; files with every kind of line; templates at the
\* edges of height, number of transactions and auxiliary data.
CONSTANTS
  WordBytes = 2
  sha256d4 <- MCsha256d4
  LineSize = 256
  MaxArgs = 2
  Threads = 2
  Files <- MCFiles
  Templates <- MCTemplates
  Few <- MCFew
  MaxAccepted = 1
  ConfigKeys <- MCConfigKeys
SPECIFICATION Spec
INVARIANTS
  LoadsTheListed
  PaysListed
  CoinbaseLegal
  TreesMatchTemplate
  WorkMatchesTemplate
  StartsFed
\* The program ends when an argument is refused or a thread cannot be made.
CHECK_DEADLOCK FALSE
