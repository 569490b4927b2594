CONSTANTS
  MAX_TRIES = 3
  Bits = {usb, b1}
  UsbPhy = usb
  usb = usb
  b1 = b1
  None = None
  MAX_REFCLK_COUNT = 15
  MinTick = 1
  MaxTick = 2
  Delays <- MCDelays
  CntFrq = 5
  MICRO_UNIT = 4
  Word = 13
  SYNC_DELAY = 4
  READ_DELAY = 3
  Latency = 2
SPECIFICATION FairSpec
\* The boot ends.
CHECK_DEADLOCK FALSE
INVARIANTS DelayIsAccurate DoneMeansServed
PROPERTIES ProfileOnlyGrows PayloadStable BootEnds
