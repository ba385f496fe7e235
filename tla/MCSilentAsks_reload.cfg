CONSTANTS
    Tab = {t1}
    Person = {ann, bob}
    None = None
    MaxOutages = 1
SPECIFICATION CountingSpec
INVARIANT RefusalsAreTaken
PROPERTY ReachesAgain
