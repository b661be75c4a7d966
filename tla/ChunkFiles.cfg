SPECIFICATION FilesSpec
CONSTANTS
  c1 = c1
  c2 = c2
  c3 = c3
  lz4 = lz4
  zstd = zstd
  Clients = {c1, c2, c3}
  Codecs = {lz4, zstd}
  Pieces = 2
  Parity = 1
  MaxRot = 1
SYMMETRY Symmetry
INVARIANTS StoredStays ParityFits
 
CHECK_DEADLOCK FALSE
