SPECIFICATION TextSpec
CONSTANTS
    MaxMessages = 2
    Threshold = 2
    Reports <- MCReports
    OtherNames = {"BoardMfg", "ProductPartNumber"}
    MaxEntries = 4
    Kibibyte = 4
    Size64 = 64
    SizeInt = 8
    Parameters <- MCParameters
    Files <- MCFiles
INVARIANTS
    RefusedForForeignName
    OnlyIrPdMisplaced
    RemembersNumbers
    SsdRowsRight
    FruUnderItsName
    SettingsAsTold
CHECK_DEADLOCK FALSE
