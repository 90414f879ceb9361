CONSTANTS
  Texts <- MCTexts
  Formats = {"v2ray", "clash", "each"}
  MaxNodes = 2
  Passes = 3
SPECIFICATION Spec
INVARIANTS
  LinesAccounted
  ReadBack
  ConnectionKept
  Canonical
  LinksServed
