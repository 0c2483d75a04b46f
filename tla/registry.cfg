\* Bots that are locals of their caller, and bots that are not.
SPECIFICATION Spec
CONSTANTS
  Tags <- GivenTags
  TagOf <- Generator
  MaxBots = 3
  MaxTime = 2
INVARIANT IdsTellApart
