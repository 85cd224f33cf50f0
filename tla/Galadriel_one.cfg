SPECIFICATION Spec
CONSTANTS
  sync = sync
  poll = poll
  call = call
  remind = remind
  party = party
  w1 = w1
  w2 = w2
  api = api
  bot = bot
  NoTime = NoTime
  NoJob = NoJob
  Workers = {w1}
  Clients = {api, bot}
  ApiClients = {api}
  Seeders = {api, bot}
  Jobs = {sync, poll, call}
  Seeded = {sync}
  OneShot = {call}
  DeleteAfterRun = {}
  Parties = {}
  Removable = {sync}
  AtTime <- MCAtTime
  Period = 2
  Limit = 2
  MaxTime = 2
  MaxFaults = 1
  MaxRetries = 1
INVARIANTS TypeOK NeverStranded
PROPERTIES NoDoubleFire DueNotSkipped
