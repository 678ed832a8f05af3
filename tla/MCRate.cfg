SPECIFICATION Spec
CONSTANTS
  Media = {"speex", "fixed", "video"}
  Modes = {2150, 5950, 8000, 11000}
  AudioMode = 8000
  Nominal = 100
  MinVideo = 64
  Ptimes = {20, 40}
  MaxPtime = 100
  Interval = 3
  Losses = {0, 20, 40}
  Delays = {1, 2}
INVARIANTS
  TypeOK
  RaiseNeedsCalm
PROPERTIES
  TroubleNeverRaises
  CongestionIsRelieved
  CalmRestores
