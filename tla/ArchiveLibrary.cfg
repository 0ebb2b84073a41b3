SPECIFICATION Spec
CONSTANTS
  so7z = so7z
  rar = rar
  extra = extra
  text = text
  Dll = {so7z, rar, extra, text}
  SevenZip = so7z
  Upper <- UpperCase
  INTS = 8
  ULLS = 32
  Installations <- Installs
  Files <- Mountable
  Methods = {"lzma", "bcj", "ppmd", "copy", "rar"}
  MaxItems = 2
  MaxPosition = 5
  Offsets <- FewOffsets
INVARIANTS TypeOK CodeStaysLoaded NothingStays OneLoadPerHandler OpensWhatFits DecodersFitMethods SizeTold
