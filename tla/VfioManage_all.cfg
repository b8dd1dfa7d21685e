SPECIFICATION Spec
CONSTANTS
  vga = vga
  gpu = gpu
  vf = vf
  switch = switch
  hda = hda
  usb = usb
  vfioPci = vfioPci
  vfioNv = vfioNv
  All = All
  None = None
  Native = native
  Bus <- CardAndSwitch
  Gpus = {vga}
  Vfs = {}
  Vga = {vga}
  Switches = {switch}
  Consumers <- OneConsumer
  Variant <- Variants
  Procs = {p1}
  Commands <- VmThenDriver
  Limit <- Calm
INVARIANTS
  NoDeviceOnVfio
CHECK_DEADLOCK FALSE
