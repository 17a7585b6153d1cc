SPECIFICATION BooksSpec
CONSTANTS
    Whole = 20
    Orders <- RoundTrip
    Strategies = {"s1"}
    Prices = {45, 70}
    Fees = {21}
    Chunk = 10
    Deposit = 200
    MaxPosition = 30
    MaxShort = 0
    MaxGross = 150
    MaxDailyLoss = 45
    MaxDrawdown = 4
    MarginRate = 10
    MaxMargin = 14
    SplitRatios = {10}
    Dividends = {3}
    LotSize = 1
    Courses <- OneCourse
INVARIANTS
    EveryRecordReopens
CHECK_DEADLOCK FALSE
