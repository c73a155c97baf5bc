SPECIFICATION StreamSpec
CONSTANTS
    s1 = s1
    s2 = s2
    n1 = n1
    n2 = n2
    n3 = n3
    i1 = i1
    i2 = i2
    a = a
    b = b
    Sessions = {s1, s2}
    NodeIds = {n1, n2, n3}
    Contents = {a}
    Streams = {i1, i2}
    None = None
INVARIANT ReconnectedMapIsTheStore
SYMMETRY MCSymmetry
