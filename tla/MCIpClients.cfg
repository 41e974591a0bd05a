SPECIFICATION IpSpec
CONSTANTS
  W = 3
  Configs <- MCConfigs
INVARIANTS
  Ipv4ClientsByFile
