SPECIFICATION Spec
CONSTANTS
  ShownTemps <- MCShownTemps
  Junk <- MCJunk
  Damaged <- MCDamaged
INVARIANTS
  TypeOK
PROPERTIES
  DecodesWhatIsShown
  NoiseKeepsMode
