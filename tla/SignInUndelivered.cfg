SPECIFICATION Spec
CONSTANTS
    r1 = r1
    r2 = r2
    anna = anna
    bo = bo
    annaTyped = annaTyped
    annaShouted = annaShouted
    junk = junk
    c1 = c1
    c2 = c2
    BadEmail = BadEmail
    NoRecord = NoRecord
    Nobody = Nobody
    Request = {r1, r2}
    RawEmail = {annaTyped, annaShouted, junk}
    Address = {anna}
    Normalize <- OneAddress
    Code = {c1, c2}
    UserMaps <- OneUser
    CodeTTL = 2
    ResendAfter = 1
    MaxAttempts = 2
    MaxTime = 3
    MaxIssues = 2
SYMMETRY RequestAndCodeSymmetry
INVARIANT
    UndeliveredCodeUnusable
