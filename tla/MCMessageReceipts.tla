-------------------------- MODULE MCMessageReceipts --------------------------
(* Three calls of one message id, one of them with another request, and two *)
(* crashes.  Keys do not interact, so one key is enough; three calls are the *)
(* fewest for which a chain can be dropped under a call still waiting in it. *)
EXTENDS MessageReceipts

MCCalls == {"a1", "a2", "ax"}
MCKeys == {"a"}
MCRequests == {"hello", "other"}
MCKeyOf == [c \in MCCalls |-> "a"]
MCRequestOf == [c \in MCCalls |-> IF c = "ax" THEN "other" ELSE "hello"]

=============================================================================
