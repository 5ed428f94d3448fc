CONSTANTS
    Timeout = 2
    Interval = 1
    MaxRetries = 1
    Faults = {"dup", "late", "refuse", "game_down", "blueprint"}
SPECIFICATION FairSpec
INVARIANTS TypeOK OneServerAtATime BeatsOnOpenSocket StateMatchesSockets
PROPERTIES PromptServerKept BackToAuth
