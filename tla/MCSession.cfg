SPECIFICATION SessionFairSpec
CONSTANTS
  Users = {u1, u2}
  NoUser = none
INVARIANT ShownIsKnown
PROPERTY SplashEnds
