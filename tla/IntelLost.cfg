\* Two runs one after the other: the second replaces what the first had written.
SPECIFICATION ScrapeSpec
CONSTANTS
    Scrapers = {s1}
    Items = {j1, j2}
    NoFile = NoFile
    MaxScrapes = 2
PROPERTIES
    DayFileKeepsItems
CHECK_DEADLOCK FALSE
