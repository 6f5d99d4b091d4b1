CONSTANTS
    fast = fast
    slow = slow
    other = other
    Jobs <- MCJobs
    Interval <- MCInterval
    MaxCrashes = 1
SPECIFICATION FairSpec
INVARIANT TypeOK
PROPERTIES PollsAreSpaced DeletedStaysDeleted JobsArePolled
