SPECIFICATION Spec
CONSTANTS
  Products = {p1, p2}
  Stocks = {2}
  Submissions = {s1, s2, s3}
  NoSubmission = none
  MaxEdits = 3
SYMMETRY Symmetry
INVARIANTS NothingLost OrderedOnce
