SPECIFICATION FairSpec
CONSTANTS
  Connections = {c1, c2}
  Users = {u1, u2}
  NoUser = NoUser
  Ratings = {1}
  RoomNames = {}
  NoRoom = NoRoom
  MaxEloDiff = 1
  QueueTimeout = 2
  GracePeriod = 1
PROPERTY FindMatchAnswered
