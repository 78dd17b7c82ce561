CONSTANTS
  PageBytes = 3
  Pages = 4
  LengthRange = 8
  InfoPages = 1
  RomPage = 1
  RomLen = 1
  RomBytes = 2
  FsnPage = 2
  Chars = {"A", "a", "b", "s"}
  Lower <- MCLower
  Numbers <- MCNumbers
  ZeroBytes = {"nul", "b"}
  Texts <- MCTexts
  RawWrites <- MCRawWrites
  MaxFaults = 1
SPECIFICATION FairSpec
INVARIANTS TypeOK ReadsBack
PROPERTIES KeepsFlat CommandAdvances CommandEnds
