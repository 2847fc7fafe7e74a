\* Every line of up to four words, and two directories in every form, for one
\* process; two and three processes that start together and may be stopped.
SPECIFICATION Spec
CONSTANTS
    Instance <- MCInstance
    Lines <- MCLines
    Word <- MCWord
    Drive <- C
    Current <- MCCurrent
    Folders <- MCFolders
    Wild <- MCWild
    Blocked <- MCBlocked
    Parts <- MCParts
    Number <- MCNumber
    Lower <- MCLower
    Extension <- MCExtension
    Earlier = 1
    Unlucky <- MCUnlucky
INVARIANTS
    TypeOK
    TakenAsMeant
    MaskTakesEntries
    AloneHasLog
PROPERTIES
    KeepsLogs
    Ends
CHECK_DEADLOCK FALSE
