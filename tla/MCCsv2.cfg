SPECIFICATION Spec
CONSTANTS
  Words <- MCWords
  Numbers <- MCNumbers
  Wide = {"wide"}
  Broken = {"broken"}
  Nybbles = {"0", "1", "2", "a"}
  Files <- MCFiles
  Entries <- MCEntries
  Common <- MCCommon
  Plain <- PlainRr
  Included <- MCIncluded
  Layouts <- MCLayouts
  Scribbles <- MCScribbles
  Zone <- Zone1
  MaxLines = 3
CHECK_DEADLOCK FALSE
INVARIANTS
  ReadsAsWritten
  TildesSeparate
