SPECIFICATION Spec
CONSTANTS
    c1 = c1
    c2 = c2
    s1 = s1
    s2 = s2
    t1 = t1
    t2 = t2
    Convs = {c1, c2}
    Sends = {s1, s2}
    Slots <- TwoSends
    TurnLimit = 1
    Fails <- MayFail
    Texts = {t1, t2}
    Drafts = {t1}
    Edits = {t2}
    MaxTurns = 1
    AtOnce = 2
    MaxVersion = 1
    None = None
INVARIANTS TypeOK ConversationsAddUp QuietMeansTrue SentIsKept
SYMMETRY Alike
CHECK_DEADLOCK FALSE
