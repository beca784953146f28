SPECIFICATION PluginsSpec
CONSTANTS
  a1 = a1
  a2 = a2
  a3 = a3
  a4 = a4
  c1 = c1
  c2 = c2
  g1 = g1
  g2 = g2
  r1 = r1
  Attempts <- FourAttempts
  Clients <- TwoClients
  Limit = 2
  GlobalLimit = 3
  MaxClients = 1
  Concurrency = 1
  QueueDepth = 2
  Pets = {cat, blob}
  Fallback = blob
  Dedicated = {cat}
  Stranger = stranger
  Moods = {"working", "pet"}
  Null = Null
  MaxChannel = 1
  MaxPosts = 2
  MaxRestarts = 1
  Lines = {l1, l2}
  MaxStoreChanges = 2
  MaxKept = 2
  NoData = NoData
  Paths = {l1, l2}
  MaxChanges = 2
  MaxFailures = 1
  MaxHides = 1
  NoAsk = NoAsk
INVARIANTS GateBounded  CanvasWhole QueueSound
PROPERTIES WaitersServed SidebarSettles DragEnds CanvasCatchesUp
CHECK_DEADLOCK FALSE
