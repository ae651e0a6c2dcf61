CONSTANTS
  MaxInt = 3
  Significand = 4
  Units = {1, 2, 4, 8, 16}
  NaN = NaN  PosInf = PosInf  NegInf = NegInf
  Exponent = 6
  Saturates = FALSE
  MaxIndex = 3
  MaxInt32 = 1
  Keys = {k1, k2}
  Numbers <- SomeNumbers
  Halves <- SomeHalves
  Texts <- SomeTexts
  Fillers <- SomeFillers
  Indexes <- SomeIndexes
  Wishes <- SomeWishes
  MaxLen = 2
  MaxNested = 1
  Untouched = Untouched
  Idle = Idle
SPECIFICATION Spec
INVARIANT BadCastIsAnError
CHECK_DEADLOCK FALSE
