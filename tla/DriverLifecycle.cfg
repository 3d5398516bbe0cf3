SPECIFICATION FairSpec
CONSTANTS
  DEVICE_COUNT = 3
  MaxFiles = 2
INVARIANTS NothingIsLeft LoadedDevicesAreWhole Rests
PROPERTIES FreedUnderFilesOnlyByFailedLoads LoadsAndUnloadsEnd
