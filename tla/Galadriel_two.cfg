SPECIFICATION FairSpec
CONSTANTS
  sync = sync
  poll = poll
  call = call
  remind = remind
  party = party
  w1 = w1
  w2 = w2
  api = api
  bot = bot
  NoTime = NoTime
  NoJob = NoJob
  Workers = {w1, w2}
  Clients = {api, bot}
  ApiClients = {api}
  Seeders = {api, bot}
  Jobs = {sync, party}
  Seeded = {sync}
  OneShot = {party}
  DeleteAfterRun = {party}
  Parties = {party}
  Removable = {party}
  AtTime <- MCAtTime
  Period = 2
  Limit = 2
  MaxTime = 2
  MaxFaults = 1
  MaxRetries = 0
INVARIANTS OneHolder
PROPERTIES OneShotOnce EveryDueFires
