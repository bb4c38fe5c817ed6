------------------------- MODULE StreamTranscoding --------------------------
(***************************************************************************)
(* What the transcoder promises, seen from outside: the groups of frames   *)
(* (GOFs) of the input stream are transcoded one after the other, in       *)
(* order, each exactly once, and the output file appears only when every   *)
(* one of them is in it.  The run may fail at any time before that; then   *)
(* there is no file.                                                       *)
(***************************************************************************)
EXTENDS Naturals, Sequences

CONSTANT MaxGofs  \* bound: the GOFs of the input stream

VARIABLES
  todo,    \* the GOFs of the input that are not yet transcoded
  result,  \* the GOFs transcoded so far
  status   \* "running", "published" (the file is written) or "failed"

svars == <<todo, result, status>>

\* The GOFs a..b of the stream.
Gofs(a, b) == [i \in 1..(b + 1 - a) |-> a + i - 1]

Init ==
  /\ \E n \in 0..MaxGofs : todo = Gofs(1, n)
  /\ result = <<>>
  /\ status = "running"

TranscodeGof ==
  /\ status = "running"
  /\ todo # <<>>
  /\ result' = Append(result, Head(todo))
  /\ todo' = Tail(todo)
  /\ UNCHANGED status

Publish ==
  /\ status = "running"
  /\ todo = <<>>
  /\ status' = "published"
  /\ UNCHANGED <<todo, result>>

Fail ==
  /\ status = "running"
  /\ status' = "failed"
  /\ UNCHANGED <<todo, result>>

Next == TranscodeGof \/ Publish \/ Fail

Spec == Init /\ [][Next]_svars
=============================================================================
