CONSTANTS
    Blank_ = Blank_
    Blank <- MCBlank
    Argv <- MCArgv
    FS <- MCFSUnreadable
    Lists <- MCLists
    CompOrder <- MCCompOrder
SPECIFICATION Spec
INVARIANT MappingsFollowRequests
