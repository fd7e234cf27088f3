CONSTANTS
  Cmds = {c1, c2}
  Tasks <- McTasks
  Names = {1, 2, 3}
  BadName = 0
  FieldNames = {"password", "token", "private_key", "content", "note", "public_key",
                "fingerprint", "algorithm", "filename", "url"}
  Docs <- McDocs
  FirstItem <- McFirst
  MaxFaults = 1
SPECIFICATION Spec
INVARIANTS
  TypeOK
  ErrorsChangeNothing
  ExportIsSnapshot
  ReportIsTrue
  SecretsStaySecret
  PrintedOnRequest
PROPERTIES
  ImplementsItemMap
