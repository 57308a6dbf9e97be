SPECIFICATION RoutineSpec
CONSTANTS
    MaxDay = 75
    WeekDays = 7
    MonthDays = 30
    Policies <- DefaultPolicy
INVARIANT MonthlyPointsKept
