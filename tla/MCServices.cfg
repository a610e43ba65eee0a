CONSTANTS
  Copies = {0, 1}
  MaxStarts = 1
  SupConfs <- MCSupConfs
  Pids = {1, 2}
  MaxGen = 3
  MaxInc = 3
  Timeout = 2
  StopTimeout = 1
  SurvConfs <- MCSurvConfs
  Calendar <- MCCalendar
  Minute = 2
  CronConfs <- MCCronConfs
  MaxCronKills = 1
  Gateways = {1}
  TlsConfs <- MCTlsConfs
  MaxIssued = 3
  MaxGwCrashes = 1
  Tries = 2
SPECIFICATION ServicesSpec
INVARIANTS SurvivorSound TlsSound
PROPERTIES SupervisorSound CronSound
CHECK_DEADLOCK FALSE
