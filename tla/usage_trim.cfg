SPECIFICATION TrimSpec
CONSTANTS
  server = server
  retire = retire
  Lives = {1, 2}
  Timers = {server}
  Retirers = {}
  BatchMax = 2
  MaxOutbox = 1
  LivesInOrder = TRUE
  MaxEvents = 2
  MaxShipments = 3
INVARIANT RosterCounts
INVARIANT GapIsTrim
PROPERTY MatchMeansSame
