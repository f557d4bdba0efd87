SPECIFICATION ConfigSpec
CONSTANTS
    SortedKeys <- MCKeys
    Required = {"port"}
    Optional = {"debug"}
    Texts <- MCTexts
    Numeral <- MCNumeral
    Decimal <- MCDecimal
    Cuts <- MCCuts
    Watchers = {"svc", "own"}
    Managed = {"svc"}
    Lines <- MCLines
    MaxPatches = 1
    MaxEdits = 1
INVARIANTS
    ReadingsSurvive
    HealIsSound
PROPERTIES
    FixStoresAll
