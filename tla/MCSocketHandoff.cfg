SPECIFICATION FairSpec
CONSTANTS
  c1 = c1
  c2 = c2
  c3 = c3
  ip1 = ip1
  ip2 = ip2
  Conns <- MCConns
  Ips = {ip1, ip2}
  IpOf <- MCIpOf
  Allowed = {ip1}
  DEFAULT_MAX_PER_IP = 1
  Fds = {3, 4}
  Limits = {0, 2}
  Restarts = 1
INVARIANTS
  CountsMatch
  OwnConnection
  RefusedIsClosed
PROPERTIES
  StartupCompletes
