SPECIFICATION Spec
CONSTANTS
  TotalPins = 2
  MaxServos = 2
  PortWidth = 2
  AnalogPins = {1}
  PwmPins = {0}
  SDA = 0
  SCL = 1
  Devices = {d1}
  MaxQueries = 2
  IgnorePins = {0}
  NeverRead = d2
INVARIANTS
  TypeOK
  ServoOnItsPin
  InputsNotDriven
  BusHasItsPins
  HostInStep
PROPERTIES
  ServosPartitioned
