SPECIFICATION Spec
CONSTANTS
  ElCommands <- MCElCommands
  Chains <- MCChains
INVARIANTS
  KnownByAllNames
  ThrowsForDuplicates
  GroupsAsDispatched
