SPECIFICATION Spec
CONSTANTS
  vga = vga
  gpu = gpu
  vf = vf
  switch = switch
  hda = hda
  usb = usb
  vfioPci = vfioPci
  vfioNv = vfioNv
  All = All
  None = None
  Native = native
  Bus <- FullBus
  Gpus = {vga, gpu, vf}
  Vfs = {vf}
  Vga = {vga}
  Switches = {switch}
  Consumers <- TwoConsumers
  Variant <- Variants
  Procs = {p1}
  Commands <- EveryTarget
  Limit <- OneOfEach
INVARIANTS
  TypeOK
  UnbindReleases
  BindTakes
PROPERTIES
  OnlySelected

