CONSTANTS
    Width = 12
    TargetBytes = 4
    BitsPerByte = 2
    TopBytes = 2
    Precision = 4
    Diff1Exponent = 4
SPECIFICATION Spec
PROPERTIES
    SharesAreNeverMissed
    HashedIsSubmitted
    TextIsUnderstood
    PlanIsSound
