SPECIFICATION Spec
CONSTANTS
  ann = ann  bob = bob
  People = {ann, bob}
  NoOne = NoOne
  MaxMessages = 1
SYMMETRY Symmetry
INVARIANTS OneConnection BothAgreed
PROPERTIES BlocksSilence
