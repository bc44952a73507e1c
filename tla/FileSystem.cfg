\* The directory tree: every call, with two mounts and four nodes.
CONSTANTS
    Node = {n1, n2, n3, n4}
    NULL = NULL
    Name <- MCName
    Component <- MCComponent
    Stored <- MCStored
    Paths <- MCPaths
    MAX_MOUNTS = 2
SPECIFICATION Spec
SYMMETRY Symmetry
INVARIANTS TreeLinked UniqueNames ResolveFindsNode
PROPERTY LostOnlyBelowUnlinked
