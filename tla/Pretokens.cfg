SPECIFICATION Spec
CONSTANTS
    Texts <- MCTexts
    Specials <- MCSpecials
    Letters <- MCLetters
    Digits <- MCDigits
    Spaces <- MCSpaces
    Contractions <- MCContractions
    Merges <- MCMerges
    Vocabulary <- MCVocabulary
    MaxAll = 2
    MaxSome = 2
INVARIANT
    PartsFollowPattern
