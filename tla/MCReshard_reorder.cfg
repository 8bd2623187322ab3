SPECIFICATION Spec
CONSTANTS
  NOps = 3
  Fifo = FALSE
INVARIANTS DoneMeansCopied
CHECK_DEADLOCK FALSE
