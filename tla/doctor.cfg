\* Two accounts, one of them privileged, six directories, a run of the doctor and two starts.
SPECIFICATION Spec
CONSTANTS
    admin = admin
    svc = svc
    base = base
    exchange = exchange
    out = out
    in = in
    root = root
    sub = sub
    Account = {admin, svc}
    Service = svc
    Privileged = {admin}
    Dir = {base, exchange, out, in, root, sub}
    Above <- AboveOf
    Bases <- BasesOf
    Out = out
    In = in
    Root = root
    Subs <- SubsOf
    Configs <- SomeConfigs
    MaxSessions = 1
    MaxLaunches = 2
    MaxOdd = 1
INVARIANTS
    TypeOK
    CleanMeansUsable
PROPERTIES
    StartsIfClean
CHECK_DEADLOCK FALSE
