SPECIFICATION StartupSpec
CONSTANTS
  LocalApic <- MCApics
  MaxSipi = 2
  MaxTicket = 5
INVARIANTS TicketIsIndex
CHECK_DEADLOCK FALSE
