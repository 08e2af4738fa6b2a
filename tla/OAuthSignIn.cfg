SPECIFICATION Spec
CONSTANTS
    Browsers = {b1, b2}
    ann = ann
    bob = bob
    annMail = annMail
    bobMail = bobMail
    Subjects = {ann, bob}
    Emails = {annMail, bobMail}
    Email <- MCEmail
    Verified = {ann, bob}
    LocalEmail = annMail
    AutoCreate = TRUE
    Https = TRUE
    Kids = {k1, k2}
    Ttl = 1
    MaxFetch = 1
    Slots = {s1, s2}
    BumpSlots = {j1}
    MaxFlows = 2
    MaxUsers = 3
    MaxVersion = 1
    MaxChanges = 1
    NoOne = NoOne
    NoKid = NoKid
SYMMETRY OAuthSymmetry
CONSTRAINT Budget
INVARIANTS
    BoundToBrowser
    NeverByEmail
    OneAccount
    VersionIsCurrent
    KeyWasPublished
CHECK_DEADLOCK FALSE
