SPECIFICATION Spec
CONSTANTS
  sync = sync
  poll = poll
  call = call
  remind = remind
  party = party
  w1 = w1
  w2 = w2
  api = api
  bot = bot
  NoTime = NoTime
  NoJob = NoJob
  Workers = {w1, w2}
  Clients = {api}
  ApiClients = {api}
  Seeders = {api}
  Jobs = {poll}
  Seeded = {}
  OneShot = {}
  DeleteAfterRun = {}
  Parties = {}
  Removable = {}
  AtTime <- MCAtTime
  Period = 2
  Limit = 1
  MaxTime = 5
  MaxFaults = 0
  MaxRetries = 0
PROPERTIES NoDoubleFire
