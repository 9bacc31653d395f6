\* Three users, two requests at once, one failure, one user's sharing panel.
CONSTANTS
  Users = {ann, bob, eve}
  Requests = {r1, r2}
  None = None
  Me = ann
  MaxSharing = 3
  MaxFailures = 1
SPECIFICATION Spec
SYMMETRY Interchangeable
INVARIANT TypeOK
INVARIANT OneOwner
INVARIANT PanelShowsRoles
PROPERTY OwnersHadAccess
PROPERTY LostOwnersStayLost
CHECK_DEADLOCK FALSE
