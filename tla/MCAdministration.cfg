SPECIFICATION Spec
CONSTANTS
  Parts = {"providers", "stream", "form", "models", "settings"}
  None = None
  Ids = {p, q}  Urls = {u, v}
  Readers = {r}  Editors = {e}  Warm = w  Fetches = {f, g, h}
  Models = {m, n}  Offers <- OwnModels  Barred = {}  Configured <- OwnEndpoints  Asked = {p}
  Frames <- TenFrames  NoFragment = NoFragment  FrameBytes = 2
  MaxResponseBytes = 9  MaxArguments = 2  MaxCalls = 2
  Names = {short}  Long = {}  Keys = {secret}  Expected <- OneGuarded
  MaxRequests = 3  MaxRestarts = 1
  Pairs = {a, b}  Prompts = {terse}  Top = 2  Default = 1  Typed = {1, 3}
  Overrides = {None, 1}  Loaded = FALSE  MaxWrites = 3  MaxToggles = 1  MaxFailures = 1
  SettingsRequests = {s1, s2, s3}  Knobs = {k}  Fallback = "open"  Absent = Absent  Broken = Broken
  Bodies <- SixBodies  HandWritten <- ThreeFiles  Crashes = 1
INVARIANTS
  AcceptedWasOffered
  CallsAreWhole
  
  
  FileIsInForce
CHECK_DEADLOCK FALSE
