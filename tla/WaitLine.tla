------------------------------- MODULE WaitLine -------------------------------
(***************************************************************************)
(* What a pool promises its callers: whoever asks is served at once or     *)
(* joins the end of the line, the line is served from its head, nobody is  *)
(* served twice and a dismissed line is never served.                      *)
(***************************************************************************)
EXTENDS Naturals, Sequences

CONSTANT Call

VARIABLES line, served, gone

vars == <<line, served, gone>>

InLine(s) == {s[j] : j \in DOMAIN s}

Outside == Call \ (InLine(line) \cup served \cup gone)

Init == line = <<>> /\ served = {} /\ gone = {}

Refuse(c) ==
  /\ c \in Outside
  /\ gone' = gone \cup {c}
  /\ UNCHANGED <<line, served>>

Walk(c) ==
  /\ c \in Outside /\ line = <<>>
  /\ served' = served \cup {c}
  /\ UNCHANGED <<line, gone>>

Join(c) ==
  /\ c \in Outside
  /\ line' = Append(line, c)
  /\ UNCHANGED <<served, gone>>

(* The first n of the line are served while the calls in done leave.       *)
Serve(n, done) ==
  /\ line' = SubSeq(line, n + 1, Len(line))
  /\ served' = (served \ done) \cup InLine(SubSeq(line, 1, n))
  /\ gone' = gone \cup done

Dismiss ==
  /\ gone' = gone \cup InLine(line)
  /\ line' = <<>>
  /\ UNCHANGED served

Next ==
  \/ \E c \in Call : Refuse(c) \/ Walk(c) \/ Join(c)
  \/ \E n \in 0..Len(line), done \in SUBSET served : Serve(n, done)
  \/ Dismiss

Spec == Init /\ [][Next]_vars
=============================================================================
