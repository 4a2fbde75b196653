\* Four bytes of bitmap, 32 frames, the first 22 reserved for the kernel.
CONSTANTS
  FRAME_BITMAP_SIZE = 4
  KERNEL_END = 82000

SPECIFICATION FairSpec

INVARIANTS
  TypeOK
  ScanInBounds
  BitmapExact
  ImageReserved
  ScanCovers
  IInv

PROPERTIES
  ImplementsAllocator
  CallsReturn
