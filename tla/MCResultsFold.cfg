\* Streams of two cases, whole, cut or spoiled, folded with and without a lockfile.
CONSTANTS
  N = 2
  Names <- MCNames
  Labels = {"a", "b", "g", "x"}
  LeafSegments = {"a", "b", "g", "x"}
  Features = {}
  Lockfiles <- MCLockfiles
  NoLock = NoLock
  Partners <- MCPartners
SPECIFICATION Spec
INVARIANTS TypeOK GreenMeansComplete InventedAreOpen NothingLost RolesAgree NeverGreener
