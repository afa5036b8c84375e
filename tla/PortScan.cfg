CONSTANTS
    MaxPort = 3
    Timeout = 2
    MaxTime = 3
SPECIFICATION FairSpec
INVARIANTS ReportExact ArrayFits TimelyScanCounts
PROPERTIES Ends
