SPECIFICATION TableSpec
CONSTANTS
    Registry <- MCRegistry
    Domains <- MCDomains
    Facts <- MCFacts
    Members <- MCMembers
    Division <- MCDivision
    Nodes <- MCNodes
    Children <- MCChildren
    Calendar <- MCCalendar
    Names <- MCNames
    Asks <- MCClosingAsks
INVARIANT ClosingIsLastPeriod
