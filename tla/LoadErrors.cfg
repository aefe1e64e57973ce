SPECIFICATION Spec
CONSTANTS
  x = x
  y = y
  z = z
  p = p
  q = q
  s = s
  v = v
  w = w
  NoText = NoText
  Null = Null
  Ref <- MCRef
  Key = {p, q, s}
  Text = {v, w}
  MaxNodes = 2
  MaxLinks = 2
  MaxOverrides = 2
  Files <- MCFiles
INVARIANT
  FailureHasMessage
