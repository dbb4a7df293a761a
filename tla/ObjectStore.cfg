SPECIFICATION Spec
CONSTANTS
    MaxStore = 3
    MaxAnswer = 4
    MaxAwaits = 1
    MaxIds = 6
    watch = watch
    ClientGroups <- MCClientGroups
INVARIANTS
    GroupsMatch
    RecentResolve
