CONSTANTS
    CommissionPercent = 18
    FreeSeconds = 180
    MinutePrice = 100
    Quotes = {q1, q2}
    Rides = {r1, r2}
    Drivers = {d1}
    NoDriver = NoDriver
    Nothing = Nothing
    Estimates <- MCEstimates
    Driven <- MCDriven
    ArrivalWaits = {255}
    Extras <- MCExtras
    Stars = {2}
    MaxExtras = 200
    DayLength = 1
    QuoteTtl = 1
    EarlyStopTtl = 1
    CurrentTtl = 1
    FinalTtl = 1
    Figures <- MCFigures
    MaxPages = 1
    MaxTime = 1
SYMMETRY Alike
SPECIFICATION FiguresSpec
INVARIANTS
    FinanceAddsUp
    PriorityFollowsOutcome
    FinalFiguresStand
PROPERTIES
    EarlyStopCostsNoMore
    ScoreMovesRightly
CHECK_DEADLOCK FALSE
