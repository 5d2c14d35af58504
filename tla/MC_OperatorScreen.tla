--------------------------- MODULE MC_OperatorScreen --------------------------
EXTENDS OperatorScreen

MCTexts    == {"new", "changed"}
MCShortcuts == {"create", "save", "reload"}
MCOthersDo == {"message", "delete", "clear"}
MCContents == {<<Rule(1, "new", 1), Rule(2, "new", 2)>>}
=============================================================================
