SPECIFICATION Spec
CONSTANTS
  Peer = {a}
  NULL = NULL
  Client = {}
  Mid = {1, 2, 3, 4, 5}
  Uri <- Resources
  MAX_OPEN = 2
  MAX_OBSERVERS = 2
  MAX_RETRANSMIT = 2
  REFRESH = 2
  Server = a
  LastBlock <- Plain
  MAX_ATTEMPTS = 2
  Parents = {}
  Requests = {"get", "observe", "cancel", "change", "separate"}
  Theirs = {0, 1}
  Garbled = TRUE
  NUMEVENTS = 2
INVARIANTS
  TransactionsSound
  ObservedOnce
