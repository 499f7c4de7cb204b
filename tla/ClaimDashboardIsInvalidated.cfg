\* One department, one change, one request and the worker, nothing fails.
CONSTANTS
    Departments = {d1}
    Campus = campus
    Requests = {r1}
    NoEntry = NoEntry
    MaxChanges = 1
    MaxBusy = 1
    MaxFaults = 0
SPECIFICATION Spec
PROPERTY DashboardIsInvalidated
CHECK_DEADLOCK FALSE
