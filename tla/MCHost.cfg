SPECIFICATION Spec
CONSTANTS
    Servers = {s1, s2}
    Groups = {1, 2, 3}
    Inodes = {1, 2}
    Outside = outside
    Commands = {k1, k2, k3, k4}
    Pids = {1, 2}
    Calls = {c1, c2, c3}
    MaxVersion = 2
    Renames = {"u1"}
    Titlers = {"t1"}
    EngineNames = {"e1", "e2"}
    AutoName = "a"
    MaxGen = 2
    r1 = r1
    r2 = r2
    r3 = r3
    d1 = d1
    d2 = d2
    Requests = {r1, r2, r3}
    Chats = {1, 2, 3, 4}
    Durables = {d1, d2}
SYMMETRY Alike
INVARIANTS NoEngineLeaks RestartReplaces SparesCooperators ServerReachable LastGoodKept NamesKept EnrollmentSound ForceSpent
