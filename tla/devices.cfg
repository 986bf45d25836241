SPECIFICATION Spec
CONSTANTS
  Sockets = {s1}
  QueueLimit = 1
  UpdateBuffer = 1
  TvPolls = TRUE
  MaxKeys = 3
  MaxStates = 3
  MaxServers = 2
  BridgeCalls = {c1, c2}
  BridgeTokens = {1, 2, 3, 4, 5}
  NoToken = 0
  NoBridgeCall = NoBridgeCall
  NoOperation = NoOperation
  Torrents = {t1, t2}
  Files = {0}
  Tokens = {k1, k2}
  MediaCalls = {m1, m2}
  MaxTorrents = 1
  MaxAdditions = 2
  MaxTickets = 2
  MaxStreams = 1
  MaxTranscodes = 1
  NoTorrent = NoTorrent
  NoTicket = NoTicket
  NoCall = NoCall
  Seconds = 3
  Positions = {1, 2, 3}
  MaxSeeks = 1
  MaxCommands = 2
  Wishes <- MCWishes
  TrackLists <- MCTrackLists
  Indexes = {0, 1}
  MaxLength = 2
INVARIANTS SocketsUpToDate SessionsAgree
  TicketsServe
  EndedIsWatched LastChoiceSought TracksAsChosen DeliveredAsPlanned
PROPERTIES ShownIsOpen KeysPressedOnce
CHECK_DEADLOCK FALSE
