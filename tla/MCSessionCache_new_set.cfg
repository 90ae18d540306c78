CONSTANTS
  f = f
  g = g
  w = w
  y = y
  x = x
  FE <- MCFE
  Aux <- MCAux
  Num <- MCNum
  Sessions <- NewSet
  MaxVersion = 2
  Resources = {1}
SPECIFICATION Spec
INVARIANT ServedFresh
