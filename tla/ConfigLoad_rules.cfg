SPECIFICATION Spec
CONSTANTS
  Starts <- MCStarts
  Under <- MCUnder
  Yaml <- MCYaml
  Parsed <- MCParsed
  Matches <- MCMatches
INVARIANT TypeOK
INVARIANT Precedence
INVARIANT RulesInOrder
INVARIANT RefusedOnlyBad
