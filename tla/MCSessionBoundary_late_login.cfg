SPECIFICATION Spec
CONSTANTS
    c1 = c1
    c2 = c2
    l1 = l1
    l2 = l2
    r1 = r1
    r2 = r2
    sso1 = sso1
    sso2 = sso2
    Callback = {c1}
    Tx = {l1}
    Request = {r1}
    Sso = {sso1}
    Role = {"operator"}
    None = None
    Limit = 1
    MaxVersions = 2
    MaxResets = 1
CHECK_DEADLOCK FALSE
INVARIANT
    EndsWithSso
