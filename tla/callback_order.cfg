SPECIFICATION Spec
CONSTANTS
    i1 = i1  i2 = i2  i3 = i3  n1 = n1  n2 = n2  n3 = n3  a1 = a1  a2 = a2
    p0 = p0  p1 = p1  p2 = p2  pb = pb  g1 = g1  g2 = g2
    Id = {i1, i2}
    Name = {n1, n2}
    Addr = {a1, a2}
    Profile = {p0, p1, p2}
    EmptyProfile = p0
    Broken = {}
    Goroutine = {g1, g2}
    Main = Main
    Nil = Nil
    Seed <- OneSeed
    Offered <- Discovered
    Ops = {"UpdateAdminState"}
    Others = {"ChangeAdmin"}
    Faults = FALSE
    NotFoundError = FALSE
    MaxCalls = 0
    MaxChanges = 2
    MaxCrashes = 0
INVARIANT AdminAgrees
