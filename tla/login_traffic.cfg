CONSTANTS
  Caller = {r1, r2, r3}
  Operations = {"Find", "Paginate", "Create"}
  MaxOpenConns = 1
  MaxVerifications = 1
SPECIFICATION FairSpec
INVARIANTS NothingLeaks DoneMeansAccepted
PROPERTIES LoginsAnswered ListingsAnswered
