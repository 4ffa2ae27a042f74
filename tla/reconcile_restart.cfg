SPECIFICATION RestartSpec
CONSTANTS
  server = server
  retire = retire
  Lives = {1, 2}
  Timers = {server}
  Retirers = {}
  BatchMax = 1
  MaxOutbox = 9
  LivesInOrder = TRUE
  MaxEvents = 2
  MaxShipments = 2
PROPERTY QuietNeverDivergent
