----------------------------- MODULE MC_DataPath ----------------------------
EXTENDS DataPath

Settings(profile, auto) ==
    [auto |-> auto, scripted |-> profile # "disabled", profile |-> profile, name |-> ""]
Conveying == Settings("conveyor", {})
Stocking  == Settings("stocker", {<<1, 13>>})
MCSettings == {Conveying, Stocking}

Rule(id, stream, function, ack, actions) ==
    [id |-> id, stream |-> stream, function |-> function, actions |-> actions,
     reply |-> [stream |-> stream, function |-> function + 1, ack |-> ack]]
Report == Ask(6, 11, List(<<ASCII("DONE")>>))
OnCommand == Rule(1, 2, 41, 0, <<Report>>)
OnEvent   == Rule(2, 6, 11, 4, <<>>)
OnContact == Rule(3, 1, 13, 1, <<>>)
Full == <<OnContact, OnCommand, OnEvent>>
MCRules  == {Full, <<OnEvent>>}
MCStarts == {<<Conveying, Full>>, <<Stocking, Full>>}

MCPrimaries == {S1F13, S2F41("GO")}
=============================================================================
