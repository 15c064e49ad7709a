SPECIFICATION Spec
CONSTANTS
  Bytes = {0, 1}
  HOLE = 0
  EOF = EOF
  NONE = NONE
  Units = {1, 2}
  BufferSize = 2
  MaxFile = 5
INVARIANTS TypeOK NoOverrun PushedBackIsNext
PROPERTY IsByteFile
