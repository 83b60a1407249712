\* One browser with a late request, two identities over three emails, a lockout after one
\* wrong key, an unlock that lasts one tick.
SPECIFICATION Spec
CONSTANTS
    u1 = u1  u2 = u2  u3 = u3  g1 = g1  g2 = g2  e1 = e1  e2 = e2  e3 = e3  c1 = c1
    Accounts = {u1, u2, u3}
    NoAccount = NoAccount
    Subs = {g1, g2}
    NoSub = NoSub
    Emails = {e1, e2, e3}
    NoEmail = NoEmail
    Clients = {c1}
    NoClient = NoClient
    LockoutAfter = 1
    LockoutSeconds = 2
    Second = 2
    NoTime = NoTime
    SessionTtl = 1
    MaxTime = 4
    MaxRequests = 4
SYMMETRY Interchangeable
INVARIANTS
    ComesHome
    GuessesBounded
    PagesEndWithUnlock
