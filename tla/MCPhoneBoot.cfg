SPECIFICATION Spec
CONSTANTS
  script_sh = script_sh
  sshd_conf = sshd_conf
  wants = wants
  Files <- MCFiles
  Links <- MCLinks
  WantsLink = wants
  Script = script_sh
  Tries = 2
  MaxImages = 2
  MaxLosses = 1
  UdcTries = 2
  IfaceTries = 1
  MaxCalls = 2
  MaxKills = 1
INVARIANTS
  TypeOK
  DeployedAtInit
PROPERTIES
  BootSettles
  SuccessIsReal
  RestartHeals
  SshComesUp
CHECK_DEADLOCK FALSE
