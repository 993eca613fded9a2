SPECIFICATION Spec
CONSTANTS
    Texts <- MCTexts
    Specials <- MCSpecials
    Letters <- MCLetters
    Digits <- MCDigits
    Spaces <- MCSpaces
    Contractions <- MCContractions
    Merges <- MCMerges
    Vocabulary <- MCVocabulary
    MaxAll = 3
    MaxSome = 4
INVARIANTS
    TypeOK
    AddedTokensCutOut
    MergesByRank
    DecodeKeepsText
