\* Texts of up to three fragments behind a start, lines of up to four, documents of up to two additions and
\* every 263rd code point, on a little endian host.
CONSTANTS
  LittleEndian = TRUE
  MaxFragments = 3
  MaxLineFragments = 4
  CodeStep = 263
  MaxItems = 2
  Values <- MCValues
  Keys <- MCKeys
  Texts <- MCTexts
SPECIFICATION Spec
INVARIANTS PrintParse PackUnpack ParsersAgree EscapesMeanCodePoints LinesStandAlone
PROPERTIES FoundStaysFound
CHECK_DEADLOCK FALSE
