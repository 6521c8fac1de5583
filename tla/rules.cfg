CONSTANTS
    Absent = Absent
    Word <- MCWord
    Size <- MCSize
    Opening <- MCOpening
    Width <- MCWidth
    FailWord <- MCFailWord
    IpWord = {"10.0.0.1"}
    TimeWord = {"t1", "t2"}
    HashWord = {"badhash"}
    Numbers <- MCNumbers
    Digits <- MCDigits
    Hits <- MCHits
    BadPattern = {"["}
    Now = "now"
    Cases <- MCCases
SPECIFICATION Spec
INVARIANTS
    TypeOK
    NeverMissesWhatItSays
    RefusedRuleIsInert
    AnchorsInKey
CHECK_DEADLOCK FALSE
