SPECIFICATION ViewSpec
CONSTANTS
  Commands = {"up", "ir_init"}
  Size <- MCSize
  Twice = {"ir_init"}
  Custom = {"ir_init"}
  READ_SIZE = 4
  CAPACITY = 8
  MaxLines = 2
  Elsewhere = {"cam_ctl", "store", "dn_out", "save", "away"}
  Palettes = {"white", "rainbow"}
  Modes = {"auto", "night"}
  Presets = {1}
  Spots = {s1}
  Unset = Unset
  Default <- MCDefault
INVARIANTS OnceInOrder Settled ShownIsSet
