----------------------------- MODULE ByteQueue -----------------------------
(***************************************************************************)
(* What Buffer promises its users: a queue of bytes that can be extended   *)
(* at both ends and consumed at the front, whatever happens to the storage *)
(* behind it.                                                              *)
(***************************************************************************)
EXTENDS Sequences

VARIABLES
    content,            \* the readable bytes
    call                \* the last call: its name and the bytes it moved

\* A new queue is empty (Buffer.md).
Init == content = <<>> /\ call = [name |-> "ctor", data |-> <<>>]

Put == call'.name \in {"append", "readfd"} /\ content' = content \o call'.data
Prepend == call'.name = "prepend" /\ content' = call'.data \o content
Get == call'.name = "retrieve" /\ content = call'.data \o content'
GetAll == /\ call'.name \in {"retrieveAll", "retrieveAsString"}
          /\ call'.data = content /\ content' = <<>>

Next == Put \/ Prepend \/ Get \/ GetAll

Spec == Init /\ [][Next]_<<content, call>>
============================================================================
