CONSTANTS
  MaxEntries = 2
  Addresses = {"10.0.0.1"}
  Names = {"lan"}
  DefaultPing = "10.0.0.1"
  DefaultSsid = "lan"
  OtherKeys = {"api_port", " api_port", "api_port=x", "#note", "long", "long_key"}
  SkippedKeys = {"#note"}
  SplitKeys = {"api_port=x"}
  StoredAs <- MCStoredAs
  ReadAs <- MCReadAs
  Posted <- MCPosted
  FirstFiles <- MCFirstFiles
SPECIFICATION Spec
INVARIANTS TypeOK AckedIsDurable ScreenMatchesTable
