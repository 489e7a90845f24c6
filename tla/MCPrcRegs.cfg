CONSTANTS
  ConfigTable <- MCConfigTable
  DeviceId = 0
  Mapped = 8192
  Row = {0, 1}
  Half = 256
  Pending = 32768
  Index = {6, 255}
  Controls <- MCControls
  Signals <- MCSignals
  Manager <- MCManager
  MaxSet = 2
SPECIFICATION Spec
PROPERTY ImplementsTables
