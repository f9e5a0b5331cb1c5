SPECIFICATION Spec
CONSTANTS
    Editors = {e, f}
    Keys = {a, A, b, c}
    SameKey = {{a, A}}
    MaxItems = 2
    Inodes = {i1, i2, i3}
    NoFile = NoFile
SYMMETRY Symmetric
INVARIANT CronReadsWholeLists
