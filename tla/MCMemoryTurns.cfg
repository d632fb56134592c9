SPECIFICATION TurnsSpec
CONSTANTS
    a1 = a1  a2 = a2  a3 = a3  b1 = b1  A = A  B = B
    Requests = {a1, a2, a3, b1}
    Tenants = {A, B}
    TenantOf <- MCTenantOf
    QueueLimit = 3
    MaxRotation = 4
    t1 = t1  t2 = t2  t3 = t3  bodies = bodies  spool = spool
    Tasks = {t1, t2, t3}
    Categories = {bodies, spool}
    CategoryOf <- MCCategoryOf
    Amounts = {1, 2}
    Limits = {8}
    Usages = {3, 6}
    Fallback = 2
    SoftLimit = 0
    GuardBytes = 2
    GuardRatio <- MCGuardRatio
PROPERTIES
    RoundRobin
