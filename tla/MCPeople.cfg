CONSTANTS
    ann = ann
    bob = bob
    viewer = viewer
    editor = editor
    read = read
    write = write
    User = {ann, bob}
    Key = {viewer, editor}
    Perm = {read, write}
    Files <- MCFiles
    Manifests <- MCManifests
    Columns <- MCColumns
    MaxTemporary = 1
    NoAccess = NoAccess
    None = None
    Absent = Absent
    c1 = c1
    g1 = g1
    Code = {ann, bob}
    Company = {c1}
    Private = {g1}
    MaxActs = 3
SPECIFICATION MCSpec
CHECK_DEADLOCK FALSE
INVARIANT SessionsCurrent
INVARIANT DeclaredRoles
INVARIANT ImportSettles
INVARIANT VerifiedByCode
INVARIANT OwnPinStands
