SPECIFICATION Spec
CONSTANTS
  NULL = NULL
  home = home
  codecs = codecs
  sub = sub
  formats = formats
  away = away
  p1 = p1
  p2 = p2
  p3 = p3
  p4 = p4
  other = other
  a = a
  b = b
  c = c
  Directory = {home, codecs, sub, formats, away}
  File = {p1, p2, p3, p4, other}
  Plugin = {p1, p2, p3, p4}
  Name = {a, b, c}
  Trees <- FileSystems
  Home = home
  Folders <- FoldersOf7z
  MaxOpen = 6
INVARIANTS TypeOK CwdRestored LoadsAllOnce LoadsOnlyThere
