--------------------------- MODULE MC_SimRuntime ---------------------------
(* Instances of SimRuntime for TLC. *)
EXTENDS SimRuntime

Head0(sf, rcmd, needs) == [enabled |-> TRUE, sf |-> sf, rcmd |-> rcmd, needs |-> needs]
Blank == Head0("S0F0", "", {})
AtPort == Head0("S2F41", "TRANSFER", {"LP01"})
BlankOnly == {Blank}

Acts(delay, kind, body) == [delay |-> delay, kind |-> kind, body |-> body]
Soon == Acts(0, "send", "ok")
Late == Acts(1, "send", "ok")
Broken == Acts(1, "send", "unbalanced")
Unknown == Acts(1, "mutate", "ok")
NoPayloads == {}
BadPayloads == {Broken, Unknown}

FileRule(head, payloads) == [head |-> head, copies |-> 0, actions |-> payloads]
FileWith(rules) ==
  [hsms |-> [conn |-> "c1", tuning |-> "t1"], device |-> "d1", rules |-> rules]

\* A rule for one port whose actions come at once and later, and a fallback.
OneRule == FileWith(<<FileRule(AtPort, <<Soon, Late>>)>>)
LateRule == FileWith(<<FileRule(AtPort, <<Late>>)>>)

Transfer(facts) == [sf |-> "S2F41", rcmd |-> "TRANSFER", facts |-> facts]
AtAndOff == {Transfer({"LP01"}), Transfer({})}

NoLog == <<>>
DemoLog == <<Record(1, "IN", 1, {}), Record(2, "OUT", 1, {})>>
NoFiles == {NoFile}

=============================================================================
