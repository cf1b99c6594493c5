------------------------------ MODULE Mailbox ------------------------------
(***************************************************************************)
(* What storing a message and sending it later promises: a message that is *)
(* kept stays kept until it has been sent.  It may be sent more than once, *)
(* and a message may be sent without ever being kept.                      *)
(***************************************************************************)

CONSTANT Contents

VARIABLES
  kept,   (* the messages that wait on the card *)
  sent    (* the messages that were handed to a live connection *)

Init == kept = {} /\ sent = {}

Keep(content) == kept' = kept \cup {content} /\ UNCHANGED sent

Send(content) == sent' = sent \cup {content} /\ UNCHANGED kept

Forget(content) ==
  /\ content \in kept \cap sent
  /\ kept' = kept \ {content}
  /\ UNCHANGED sent

Next == \E content \in Contents : Keep(content) \/ Send(content) \/ Forget(content)

Spec == Init /\ [][Next]_<<kept, sent>>
=============================================================================
