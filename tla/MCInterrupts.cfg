SPECIFICATION FairSpec
CONSTANTS
  Lines = {0, 4, 5, 7, 8, 12}
  BootMask <- FirmwareMask
  BootBase <- FirmwareBase
INVARIANTS
  ArrivesAtItsGate
  NothingLeftInService
PROPERTIES
  EndsOnlyItsOwn
  RtcServed
