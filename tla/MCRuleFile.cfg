\* A thread that checks, clears, saves and loads, while the rules change.
CONSTANTS
  client = client
  web = web
  Address = {client}
  App = {web}
  Port = {80}
  Text <- SomeTexts
  Wild <- Stars
  Query <- SomeQueries
  Client = {c1}
  Ops = {"block", "unblock", "clear"}
  MaxPatterns = 1
  Word <- SomeWord
  Words <- SomeWords
  parseIP <- Addresses
  AppsNamed <- Apps
  TextOf <- Texts
  Numbers <- SomeInts
  HandFiles <- SomeFiles
  Nobody = Nobody
SPECIFICATION FileSpec
INVARIANTS
  FileTypeOK
  CheckRegular
  ClearRegular
  SaveRegular
  RoundTrip
