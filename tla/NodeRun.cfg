CONSTANTS
    Definitions <- AllDefinitions
    Inputs <- AllInputs
    Collections <- AllCollections
    CallKeys <- CKeys
    CallValues <- CValues
    MaxCalls = 3
SPECIFICATION Spec
CHECK_DEADLOCK FALSE
INVARIANTS TypeOK MissingExplained TypeErrorsExplained EffectsDeclared PreCheckForetells
           SweepExact
PROPERTY CollectionCoherent
