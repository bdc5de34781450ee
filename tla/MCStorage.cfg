SPECIFICATION Spec
CONSTANTS
  Parts = {"answers", "runs", "attachments", "uploads", "preferences", "file"}
  Deaths = 1  Losses = 2
  None = None
  Runs = {r, s}  CardRequests = {q1, q2}  Names = {n}  Cap = 1  Room = 1
  Files = {f, g, h}  Held = {h}  FileRequests = {k1, k2}  Conversations = {chat}
  Size <- One  Quota = 2
  PrefRequests = {p1, p2, p3}  ModelRequests = {p3}  Ids = {a, b}  Pinnable = {a}  Models = {m}
  Writers = {u, v, w}  First = First  Torn = Torn
INVARIANTS
  
  
  DeletedIsForgotten
  WritesAreWholeAndLast
CHECK_DEADLOCK FALSE
