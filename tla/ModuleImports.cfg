SPECIFICATION FairSpec
CONSTANTS
    a = a
    b = b
    c = c
    None = None
    MaxImports = 2
    Modules <- MCModules
    Graphs <- MCChain
PROPERTY AwaitedImportSettles
CHECK_DEADLOCK FALSE
