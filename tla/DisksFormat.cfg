SPECIFICATION Spec
CONSTANTS
  Images = {"docker"}
  FileSystems = {"ext4", "btrfs", "xfs", "vfat"}
  Sizes = {0, 1, 2}
  Total = 2
  Frees = {1, 2}
  maxAutoSize = 4
  MaxBoots = 3
  MaxEdits = 2
PROPERTY ExistingKept
CHECK_DEADLOCK FALSE
