SPECIFICATION RecordsSpec
CONSTANTS
  x1 = x1 x2 = x2 n1 = n1 n2 = n2 w1 = w1
  None = None
  Folders = {x1, x2}
  Leaves = {d1}
  Users = {u1, u2}
  Admins = {u1}
  Root = Root
  Shared = Shared
  Unsaid = Unsaid
  Titles <- OneTitle
  Reserved <- OneReserved
  MaxSlug = 2
  Docs = {x1, x2}
  Workers = {w1}
  QueueSize = 1
  Floor = 1
  ShareLimit = 4
  Notes = {n1, n2}
  Images = {x1, x2}
  ImageFloor = 1
  ImageShareLimit = 4
  MaxSaves = 2
  Scenes = {"documents", "notes", "vault", "images", "chat"}
INVARIANTS TreesHold PinsAreSeen BytesStay PendingIsWorkedOn
PROPERTIES ShelfSpec GcSparesEmbedded
CONSTRAINT OneThing
VIEW RecordsView
SYMMETRY Alike
CHECK_DEADLOCK FALSE
