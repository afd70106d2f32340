SPECIFICATION MCFairSpec
CONSTANTS
  timer = timer  monitor = monitor
  Launchers <- TwoLaunchers
  Timer = timer
  Monitor = monitor
  MonitorCooldown = 2
  Grace = 1
  MaxHistory = 2
  Cooldown = 2
  LogWindow = 2
  MaxFaults = 2
  MaxDenials = 1
  MaxKills = 1
  MonitoredFaults = 1
INVARIANTS
  RestartsInPlace
PROPERTIES
  RebuildsSpaced
  Heals
  RequestsSpaced
