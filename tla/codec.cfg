SPECIFICATION Spec
CONSTANTS
  Sizes = 1024
  Base = 8
  Nil = Nil
  Types <- MCTypes
  Values <- MCValues
  MaxSends = 2
INVARIANTS TypeOK SizeRight EncodersAgree RoundTrip AcceptorsAgree AcceptedIsCanonical ReuseExplained ViewConverts ViewShowsOwned
CHECK_DEADLOCK FALSE
