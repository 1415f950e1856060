SPECIFICATION Spec
CONSTANTS
  Starts <- MCStarts
  Under <- MCUnder
  Yaml <- MCYaml
  Parsed <- MCParsed
  Matches <- MCMatches
INVARIANT FlagsWin
