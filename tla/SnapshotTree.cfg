CONSTANTS
    n1 = n1
    n2 = n2
    n3 = n3
    n4 = n4
    Names = {n1, n2, n3, n4}
    NoParent = NoParent
    Labels = {img}
    NoLabel = NoLabel
    Changes = {x}
SYMMETRY NameSymmetry
SPECIFICATION Spec
INVARIANTS TypeOK ParentsCommitted Acyclic
PROPERTIES CommittedImmutable AncestorsKept
