--------------------------- MODULE MC_SimConfig ---------------------------
(* Instances of SimConfig for TLC. *)
EXTENDS SimConfig

Blank == [sf |-> "S0F0"]
Transfer == [sf |-> "S2F41"]
BlankOnly == {Blank}

Acts(delay, kind) == [delay |-> delay, kind |-> kind, body |-> "ok"]
SendNow == Acts(0, "send")
EventNow == Acts(0, "event")

OneEvent == {EventNow}

FileRule(payloads) == [head |-> Transfer, copies |-> 0, actions |-> payloads]
FileWith(conn, rules) ==
  [hsms |-> [conn |-> conn, tuning |-> "t1"], device |-> "d1", rules |-> rules]

SeedFile == FileWith("c1", <<FileRule(<<SendNow>>)>>)

\* No file, the built-in contents, and a file that leaves the rules to the program.
FreshDisk == {NoFile, SeedFile,
              [hsms |-> [conn |-> "c1", tuning |-> "t1"], device |-> "d1", rules |-> Kept]}

\* Hand edits: another connection and nothing else, a file that is not YAML, and one
\* that cannot be read.
HandEdits == {[hsms |-> [conn |-> "c2", tuning |-> "t1"], device |-> Kept, rules |-> Kept],
              Garbled, Unreadable}

\* A rule with nine actions of the same delay, the last of them different.
NineActions == FileWith("c1", <<FileRule([j \in 1 .. 9 |-> SendNow])>>)
NineOnly == {NineActions}
TwoBodies == {SendNow, [SendNow EXCEPT !.body = "other"]}
=============================================================================
