SPECIFICATION MenuSpec
CONSTANTS
  ClockWidth = 2
  TRIGGER_TIME = 0
  HOLD_TIME = 0
  MinutesPerHour = 2
  HoursPerDay = 2
  STEP = 1
  ByteSize = 4
  FirstEeprom <- MCFirstEeprom
INVARIANTS
  TypeOK
  SurvivesReset
  MotorFollowsStick
  HoldNeverEngages
