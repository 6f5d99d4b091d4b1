CONSTANTS
    consumer = consumer
    request = request
    all = all
    high = high
    AAPL = AAPL
    book = book
    Consumers <- MCConsumers
    Requests <- MCRequests
    Hooks <- TwoHooks
    Subjects <- MCSubjects
    Wants <- MCWants
    Findings <- MCFindings
    MaxRetries = 2
    MaxPosts = 2
    MaxJobs = 2
    MaxFaults = 2
SPECIFICATION Spec
INVARIANTS TypeOK OneAlertPerType AlertsAreAnnounced DeliveredOnce
CHECK_DEADLOCK FALSE
