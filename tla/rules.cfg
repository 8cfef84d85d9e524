CONSTANTS
    Watching <- Widest
    MaxRules = 2
    MaxActions = 1
    MaxStarts = 2
SPECIFICATION EngineSpec
INVARIANTS StopEnds NoRuleTwice
PROPERTIES FiresOnEvidence EveryRuleOnce RulesKeepRunning
CHECK_DEADLOCK FALSE
