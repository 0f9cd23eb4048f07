SPECIFICATION PagesSpec
CONSTANTS
    None = None
    Directories <- TheDirectories
    Reveals <- WhatTextsReveal
    Spellings <- OtherSpellings
    MaxFruitless = 2
PROPERTY LoopsAreRevisits
CHECK_DEADLOCK FALSE
