CONSTANTS
  WorldSizes = {1, 3, 4}
  MaxWorlds = 2
  Slots = 8
SPECIFICATION ZombiesSpec
CHECK_DEADLOCK FALSE
INVARIANTS ZombiesRecorded
PROPERTIES OnlyZombiesSignalled SuspendedWoken
