SPECIFICATION Spec
CONSTANTS
  poll = poll
  ticket = ticket
  Callers <- PollAndTicket
  LiveCallers <- TicketOnly
  Cancellable <- TicketOnly
  Lister = poll
  Coordinators <- PollOnly
  Losses = FALSE
  MaxPairs = 3
INVARIANTS RotationUsesLatest
