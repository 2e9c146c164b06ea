\* Two dispatchers, one on the bus, inside transactions or not, with a fault, an
\* error and an edit.
SPECIFICATION FairSpec

CONSTANTS
    e1 = e1
    d1 = d1
    d2 = d2
    Event = {e1}
    NoEvent = NoEvent
    Rule = {1, 2}
    Matching <- MatchesAll
    Dispatcher = {d1, d2}
    Bus = {d1}
    InTransaction = {FALSE, TRUE}
    MaxDuplicates = 1
    MaxFaults = 1
    MaxErrors = 1
    MaxEdits = 1

\* The bus may have nothing left to deliver.
CHECK_DEADLOCK FALSE

INVARIANTS
    TypeOK
    PlannedOnce
    AnsweredIsPlanned
    ReportedAsCommitted
    SwallowedHasCause
    NoDeadlock

PROPERTIES
    DispatchEnds
    EventsHandled
