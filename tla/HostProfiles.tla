---------------------------- MODULE HostProfiles ----------------------------
(* The start-up scripts of the active simulator                              *)
(* (internal/sim/host_startup_profiles.go): sequences of steps, each with a  *)
(* message to send, or none, and the message it waits for.                   *)
EXTENDS SecsItem, SequencesExt

(* A primary the script sends: its system bytes are given when it is sent.   *)
Ask(stream, function, body) ==
    [stream |-> stream, function |-> function, wbit |-> TRUE, system |-> 0, body |-> body]
Silent == Ask(0, 0, NoBody)

(* What a step waits for: a stream, a function and a body of some form.      *)
Step(send, stream, function, form) ==
    [send |-> send, stream |-> stream, function |-> function, form |-> form]
Form(kind, n) == [kind |-> kind, n |-> n]
Acked(send, function)    == Step(send, send.stream, function, Form("ack", 0))
AckedAfter(stream, function) == Step(Silent, stream, function, Form("ack", 0))
EventAfter(send, ceid)   == Step(send, 6, 11, Form("event", ceid))

U2(n) == Number("U2", n)
U4(n) == Number("U4", n)
Empty == List(<<>>)

S1F13 == Ask(1, 13, Empty)
S1F17 == Ask(1, 17, NoBody)
S2F31 == Ask(2, 31, ASCII("time"))
S2F15(name) == Ask(2, 15, List(<<U2(62), ASCII(IF name = "" THEN "TEST_CNVC" ELSE name)>>))
S2F33 == Ask(2, 33, List(<<U4(1), Empty>>))
S2F35 == Ask(2, 35, List(<<U4(1), Empty>>))
S2F37 == Ask(2, 37, List(<<Boolean(TRUE), Empty>>))
S5F3  == Ask(5, 3, List(<<Binary(<<1>>), U4(0)>>))
S2F41(command) == Ask(2, 41, List(<<ASCII(command), Empty>>))
S1F3(svid)     == Ask(1, 3, List(<<U2(svid)>>))

StatusSVIDs == <<4, 5, 6, 51, 52, 53, 507>>

Stocker == <<Step(S1F13, 1, 14, Form("establish", 0)), Acked(S1F17, 18), Acked(S2F31, 32)>>

(* The conveyor's event comes before the answer to the request it follows.   *)
Conveyor(name) ==
    <<EventAfter(S1F17, 3), AckedAfter(1, 18), Acked(S2F31, 32), Acked(S2F15(name), 16),
      Acked(S2F37, 38), Acked(S2F33, 34), Acked(S2F35, 36), Acked(S2F37, 38), Acked(S5F3, 4),
      Step(S2F41("PAUSE"), 2, 42, Form("command", 0)), EventAfter(Silent, 57)>>
    \o [k \in DOMAIN StatusSVIDs |-> Step(S1F3(StatusSVIDs[k]), 1, 4, Form("status", StatusSVIDs[k]))]

Profiles == {"disabled", "stocker", "conveyor"}
Steps(profile, name) ==
    CASE profile = "stocker" -> Stocker [] profile = "conveyor" -> Conveyor(name) [] OTHER -> <<>>

-----------------------------------------------------------------------------
(* The forms of the bodies. *)
Established(b) ==
    /\ IsListOf(b, 2) /\ IsByte(b.items[1], 0)
    /\ IsListOf(b.items[2], 2) /\ \A k \in 1..2 : IsText(b.items[2].items[k])

(* One report, the first, without values. *)
Reported(b, ceid) ==
    /\ IsListOf(b, 3)
    /\ ScalarValue(b.items[1]) = "0" /\ ScalarValue(b.items[2]) = ToString(ceid)
    /\ IsListOf(b.items[3], 1)
    /\ LET report == b.items[3].items[1]
       IN  /\ IsListOf(report, 2) /\ ScalarValue(report.items[1]) = "1"
           /\ report.items[2] = Empty

Rows(item, width) ==
    /\ IsList(item) /\ item.items # <<>>
    /\ \A k \in DOMAIN item.items :
          IsListOf(item.items[k], width) /\ IsText(item.items[k].items[1])

StatusValue(svid, item) ==
    CASE svid = 6 -> item.type = "U1"
      [] svid = 98 -> IsListOf(item, 1) /\ IsText(item.items[1])
      [] svid \in {81, 83, 4, 628, 631, 632} -> item = Empty
      [] svid \in {401, 76} -> item.type = "U2"
      [] svid = 507 -> Rows(item, 9)
      [] svid \in {509, 511} -> Rows(item, 6)
      [] OTHER -> TRUE

HasForm(form, m) ==
    LET b == m.body IN
    CASE form.kind = "ack"       -> IsByte(b, form.n)
      [] form.kind = "establish" -> Established(b)
      [] form.kind = "command"   -> IsListOf(b, 2) /\ IsByte(b.items[1], form.n) /\ b.items[2] = Empty
      [] form.kind = "event"     -> EventOf(m) = ToString(form.n) /\ Reported(b, form.n)
      [] form.kind = "status"    -> IsListOf(b, 1) /\ StatusValue(form.n, b.items[1])

Matches_Replies(step, m) == m.stream = step.stream /\ m.function = step.function /\ ~m.wbit /\ HasForm(step.form, m)
Matches(step, m) == m.stream = step.stream /\ m.function = step.function /\ HasForm(step.form, m)
=============================================================================
