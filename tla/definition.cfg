SPECIFICATION DefinitionSpec
CONSTANTS
    MaxBlocks = 3
    MaxRunSeconds = 14000
    MaxFlaws = 2
INVARIANTS RunsAsSaved BudgetsCompose
