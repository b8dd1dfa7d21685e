SPECIFICATION FairSpec
CONSTANTS
  vga = vga
  gpu = gpu
  vf = vf
  switch = switch
  hda = hda
  usb = usb
  vfioPci = vfioPci
  vfioNv = vfioNv
  All = All
  None = None
  Native = native
  Bus <- CardOnly
  Gpus = {vga}
  Vfs = {}
  Vga = {vga}
  Switches = {}
  Consumers <- OneConsumer
  Variant <- Variants
  Procs = {p1, p2}
  Commands <- VmThenDriver
  Limit <- KilledOften
INVARIANTS
  UnbindReleases
  UnbindsConverge
  BindsConverge
PROPERTIES
  ReleaseCompletes
CHECK_DEADLOCK FALSE
