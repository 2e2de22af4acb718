SPECIFICATION HostKeysSpec
CONSTANTS
  Dials = {d1, d2, d3}
  Keys <- MCKeys
  CAs <- MCCAs
  NoCA = NoCA
  Markers <- MCMarkers
  UserFiles <- MCUserFiles
  Servers <- MCServers
  Rekeys = 1
  Resets = 1
  TornWrites = 1
SYMMETRY MCSymmetry
INVARIANTS OneKeyOnRecord TrustFollowsAuthentication
PROPERTY NoFalseMismatch
CHECK_DEADLOCK FALSE
