\* A directory with a dot in its name, in another directory.
SPECIFICATION Spec
CONSTANTS
    Instance <- MCInstance
    Lines <- MCLines
    Word <- MCWord
    Drive <- C
    Current <- MCCurrent
    Folders <- MCFolders
    Wild <- MCWild
    Blocked <- MCBlocked
    Parts <- MCParts
    Number <- MCNumber
    Lower <- MCLower
    Extension <- MCExtension
    Earlier = 1
    Unlucky <- MCUnlucky
INVARIANT
    SearchedAsNamed
CHECK_DEADLOCK FALSE
