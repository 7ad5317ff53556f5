\* Every list of up to four elements over three values; patterns over the letters a
\* and b, and the star as a byte of the string.
SPECIFICATION Spec
CONSTANTS
    Values = {x, y, z}
    MaxLen = 4
    Alphabet = {42, 97, 98}
    Pieces <- ElementsOfAB
    Torn <- TornEnds
    MaxTokens = 4
    MaxLength = 3
\* Lists have a longest one, and the matcher returns.
CHECK_DEADLOCK FALSE
INVARIANTS RangesAreTheWindow LRemRemovesInOrder AnswerIsMeaning
