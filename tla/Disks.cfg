SPECIFICATION Spec
CONSTANTS
  Images = {"docker", "data"}
  FileSystems = {"ext4", "btrfs", "xfs", "vfat"}
  Sizes = {0, 1, 2}
  Total = 2
  Frees = {1, 2}
  maxAutoSize = 4
  MaxBoots = 4
  MaxEdits = 1
INVARIANT DisksInv
PROPERTIES DataKept AgainAsConfigured
CHECK_DEADLOCK FALSE
