SPECIFICATION Spec
CONSTANTS
  CustomBases = {"word", "joined", "truthful", "fits", "one_more"}
  Keys = {"plugin", "customOperand"}
  Text <- MCText
  Weight <- MCWeight
  MaxLength = 63
INVARIANTS
  TypeOK
  Commutes
  TextsStandForWant
  RestoringSucceeds
  RoomForMarker
