SPECIFICATION FairSpec
CONSTANTS
  NOps = 3
  Fifo = TRUE
INVARIANTS TypeOK CopiesInOrder DoneMeansCopied ManagerConsistent
PROPERTIES ImplementsRendezvous Delivered
