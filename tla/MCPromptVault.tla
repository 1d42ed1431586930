---------------------------- MODULE MCPromptVault ----------------------------
EXTENDS PromptVault, TLC
CONSTANTS b1, b2, p1, p2, u1, e1, e2

OneEach == p1 :> b1 @@ p2 :> b2

\* The first page does what its editor offers and may be closed, the second does
\* what the pages that show entries and the settings offer.
Habits == p1 :> {"save", "restore", "duplicate", "draft", "discard", "reset", "close"}
       @@ p2 :> {"suggest", "toggle", "record", "prefs"}

\* Both pages only save, which is enough for two texts of one version.
Writers == p1 :> {"save"} @@ p2 :> {"save"}
===============================================================================
