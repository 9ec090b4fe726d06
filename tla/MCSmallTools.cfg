CONSTANTS
  InitialCapacity = 2
  Chars <- ShellChars
  MaxArgument = 4
  MaxText = 5
  PathChars <- HeaderChars
  MaxParams = 6
  JsonBytes <- Bytes
  MaxJson = 4
SPECIFICATION Spec
INVARIANTS ParametersExact LineIsOneWord LinesInBounds JsonExact StatusIsTruthful StreamsComeBack
PROPERTY ToolsEnd
