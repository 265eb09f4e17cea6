SPECIFICATION Spec
CONSTANTS
  Connections = {c1, c2, c3}
  Users = {u1}
  NoUser = NoUser
  Ratings = {1, 2, 3}
  RoomNames = {NoRoom}
  NoRoom = NoRoom
  MaxEloDiff = 1
  QueueTimeout = 2
  GracePeriod = 1
SYMMETRY Symmetry
INVARIANTS TypeOK MembershipAgrees SeatsAgree NothingOverdue
PROPERTY NoMatchLeft ImplementsSessions
