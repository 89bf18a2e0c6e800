SPECIFICATION Spec
CONSTANTS
    c1 = c1
    c2 = c2
    ann = ann
    bob = bob
    Conns = {c1, c2}
    Names = {ann, bob}
    AddFriendExtra = {{}, {"friendid"}}
    MaxUsers = 2
    MaxGroups = 2
    MaxFailures = 1
INVARIANTS
    DirTypeOK
    RegAnswersOwnRow
    CreatorIsMaker
    OrphanOnlyAfterFailure
    LoginListsTrue
SYMMETRY Symmetry
