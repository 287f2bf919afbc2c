SPECIFICATION Spec
CONSTANTS
    Repo = Repo
    Outer = Outer
    Inner = Inner
    ModM = ModM
    ModN = ModN
    ModP = ModP
    Away = Away
    None = None
    Dirs = {Repo, Outer, Inner, ModM, ModN, ModP, Away}
    Parent <- ParentOf
    Aggregators = {Repo, Outer, Inner}
    Git = {Repo}
    ClientRoot = Repo
    Initials = {ModM, Inner, Away}
    Wanted = {ModN, ModP, Inner}
    Importable = {ModN}
    Changing = {ModN}
    Requests = {q1, q2}
    MaxGroups = 1
    Sessions = 2
    Off = {}
    Texts <- SourceTexts
    Edits <- UserEdits
    Environments <- CallEnvironments
    MaxEdits = 1
    MaxFixes = 2
    R = R
    A = A
    B = B
    B2 = B2
    O = O
    L = L
    NoGA = "none"
    Placeholder = Placeholder
    PomFiles = {R, A, B, B2, O, L}
    RootPom = R
    DirOf <- DirOfPom
    Outside = {"out"}
    Symlinks = {L}
    Checkouts <- CheckoutSet
    MaxPoms = 3
    MaxParentDepth = 2
SYMMETRY RequestSymmetry
INVARIANTS
    GroupsTypeOK
    GroupsBounded
    FoldersAreApart
    GroupsAreCovered
    ReadyIsImported
    WaitersWake
    DiffIsApplied
    SnapshotNotAhead
    
    FixesConverge
    IndexIsExact
    EdgesAreExact
