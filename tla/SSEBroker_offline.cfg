CONSTANTS
  Agents = {a1}
  Notifiers = {n1}
  Streams = {s1}
  Checker = Checker
  Cap = 2
  Unseen = Unseen
SPECIFICATION FairSpec
PROPERTY OfflineIsShown
