SPECIFICATION Spec
CONSTANTS
    MaxItems = 2
    NoText = NoText
INVARIANTS WholeMessageRead DamageOnlyShortens CrashOnlyInHead
