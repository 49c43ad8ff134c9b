SPECIFICATION FairSpec
CONSTANTS
  Asked <- MCAsked
  MaxRequest = 22
  BufferSize = 4
  Wrap = 1000
  MaxInt = 99
  Numerals <- MCNumerals
  Value <- MCValue
INVARIANTS TypeOK AnsweredAsAsked ChunksDoNotMatter LongHeadRefused
PROPERTIES AlwaysAnswered
