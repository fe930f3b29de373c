CONSTANTS
    MaxNumber = 10
    SetTokens <- MCSetTokens
    ItemTokens <- MCItemTokens
    MaxTokens = 6
    Extensions = {"8BITMIME", "STARTTLS"}
    Sizes = {"0", "1024"}
    NotASize = "1k"
    MaxMadeUp = 4
    MaxLetters = 3
SPECIFICATION Spec
INVARIANTS SetWhole ListWhole SetReadsBack StringsReadBack ReadsBack SaysWhatItRead
CHECK_DEADLOCK FALSE
