SPECIFICATION Spec
CONSTANTS
  Datapoints <- MCDatapoints
  Value <- MCValue
  Time <- MCTime
  NoValue = NoValue
  Layouts <- MCLayouts
  Blank = Blank
  NoToken = NoToken
  MaxCalls = 4
PROPERTIES ImplementsAtomicQuery QueryEnds
