SPECIFICATION Spec
CONSTANTS
  Connections = {c1, c2}
  Users = {u1}
  NoUser = NoUser
  Ratings = {1}
  RoomNames = {r1}
  NoRoom = NoRoom
  MaxEloDiff = 1
  QueueTimeout = 2
  GracePeriod = 1
PROPERTY ResignsTheAbsent
