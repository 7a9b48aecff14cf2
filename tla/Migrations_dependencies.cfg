SPECIFICATION Spec
CONSTANTS
    a = a  b = b  c = c  d = d  x = x  k1 = k1  k2 = k2
    v1 = v1  v2 = v2  v3 = v3  v4 = v4  p1 = p1  p2 = p2  p3 = p3  p4 = p4
    P = P  stable = stable  beta = beta
    NULL = NULL  EMPTY = EMPTY
    Names = {a, b, c, d, x}
    Csv <- MCCsv
    Catalogs <- MCCatalogs
INVARIANT
    DependenciesKept
CHECK_DEADLOCK FALSE
