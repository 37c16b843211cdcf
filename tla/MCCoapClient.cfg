SPECIFICATION FairSpec
CONSTANTS
  Peer = {a}
  NULL = NULL
  Client = {c, d}
  Mid = {1, 2, 3}
  Uri = {}
  MAX_OPEN = 2
  MAX_OBSERVERS = 0
  MAX_RETRANSMIT = 2
  REFRESH = 2
  Server = a
  LastBlock <- Mixed
  MAX_ATTEMPTS = 2
  Parents = {}
  Requests = {"separate"}
  Theirs = {1, 2}
  Garbled = FALSE
  NUMEVENTS = 2
INVARIANTS
  ClientsSound
  
PROPERTIES
  HandedOver
  RequestEnds
