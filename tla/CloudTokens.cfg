SPECIFICATION FairSpec
CONSTANTS
  poll = poll
  ticket = ticket
  Callers <- PollAndTicket
  LiveCallers <- TicketOnly
  Cancellable <- TicketOnly
  Lister = poll
  Coordinators <- PollOnly
  Losses = TRUE
  MaxPairs = 3
INVARIANTS RefreshesAreCurrent OneRefreshPerExpiry
PROPERTIES NoNeedlessReauth RequestsEnd SetupSettles
