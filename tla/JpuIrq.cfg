SPECIFICATION Spec
INVARIANTS
  NoMissedPicture
  HonestPicture
