--------------------------- MODULE MessageReceipts ---------------------------
(***************************************************************************)
(* Delivery receipts of prompts sent to an agent                           *)
(* (src/packages/server/src/server/message-receipts/index.ts).             *)
(*                                                                         *)
(* A client that loses its connection retries a message under the same     *)
(* message id.  The daemon keeps, per (agent, message id), a receipt file  *)
(* that says whether a send was started ("pending") or finished            *)
(* ("completed"), and a chain of promises in memory that runs the calls of *)
(* one key one after the other.  The daemon may crash at any point: the    *)
(* files survive, the chain and the calls do not.                          *)
(***************************************************************************)
EXTENDS Naturals, FiniteSets

CONSTANTS
    Calls,        \* calls of MessageReceipts.send, retries included
    Keys,         \* digests of (agent id, message id)
    Requests,     \* fingerprints of the request of a call
    KeyOf,        \* the key of each call
    RequestOf,    \* the request of each call
    NoCall,       \* no promise is chained
    MaxCrashes    \* bound on the crashes of the daemon

ASSUME CallsAssumption ==
    /\ KeyOf \in [Calls -> Keys]
    /\ RequestOf \in [Calls -> Requests]
    /\ NoCall \notin Calls
    /\ MaxCrashes \in Nat

NoReceipt == [state |-> "none"]

Receipt == [state : {"pending", "completed"}, fingerprint : Requests]

VARIABLES
    receipts,   \* the receipt files
    pending,    \* the map of the last chained promise of each key
    previous,   \* the promise each call is chained behind
    pc,         \* where each call is
    reply,      \* what each call resolved or rejected with
    submitted,  \* the calls whose prompt left for the provider
    accepted,   \* the calls whose prompt the provider has accepted
    crashes

vars == <<receipts, pending, previous, pc, reply, submitted, accepted, crashes>>

Answered == {"settled", "forgotten", "lost"}
Replies == {"none", "sent", "key_conflict", "outcome_unknown", "failed"}

TypeOK ==
    /\ receipts \in [Keys -> Receipt \cup {NoReceipt}]
    /\ pending \in [Keys -> Calls \cup {NoCall}]
    /\ previous \in [Calls -> Calls \cup {NoCall}]
    /\ pc \in [Calls -> {"idle", "chained", "preparing", "recording", "sending",
                         "sent"} \cup Answered]
    /\ reply \in [Calls -> Replies]
    /\ submitted \subseteq Calls
    /\ accepted \subseteq Calls
    /\ crashes \in 0 .. MaxCrashes

Init ==
    /\ receipts = [k \in Keys |-> NoReceipt]
    /\ pending = [k \in Keys |-> NoCall]
    /\ previous = [c \in Calls |-> NoCall]
    /\ pc = [c \in Calls |-> "idle"]
    /\ reply = [c \in Calls |-> "none"]
    /\ submitted = {}
    /\ accepted = {}
    /\ crashes = 0

Goto(c, l) == pc' = [pc EXCEPT ![c] = l]

Settle(c, r) ==
    /\ Goto(c, "settled")
    /\ reply' = [reply EXCEPT ![c] = r]

-----------------------------------------------------------------------------

\* send(): chain the call behind the last one of its key.
Send(c) ==
    /\ pc[c] = "idle"
    /\ previous' = [previous EXCEPT ![c] = pending[KeyOf[c]]]
    /\ pending' = [pending EXCEPT ![KeyOf[c]] = c]
    /\ Goto(c, "chained")
    /\ UNCHANGED <<receipts, reply, submitted, accepted, crashes>>

\* Mutant: a rejected call keeps the chain of its key blocked.
RunnableAfterSuccess(c) == previous[c] # NoCall => reply[previous[c]] = "sent"

Runnable(c) == previous[c] # NoCall => pc[previous[c]] \in Answered

\* Mutant: a pending receipt is taken for a delivered message.
ReadReceiptIgnoringState(c) ==
    /\ pc[c] = "chained"
    /\ Runnable(c)
    /\ IF receipts[KeyOf[c]] = NoReceipt
       THEN Goto(c, "preparing") /\ UNCHANGED reply
       ELSE Settle(c, "sent")
    /\ UNCHANGED <<receipts, pending, previous, submitted, accepted, crashes>>

\* sendOnce(): read the receipt and decide.
ReadReceipt(c) ==
    LET existing == receipts[KeyOf[c]] IN
    /\ pc[c] = "chained"
    /\ Runnable(c)
    /\ \/ Settle(c, "failed")
       \/ /\ existing = NoReceipt
          /\ Goto(c, "preparing")
          /\ UNCHANGED reply
       \/ /\ existing # NoReceipt
          /\ existing.fingerprint # RequestOf[c]
          /\ Settle(c, "key_conflict")
       \/ /\ existing # NoReceipt
          /\ existing.fingerprint = RequestOf[c]
          /\ Settle(c, IF existing.state = "completed" THEN "sent" ELSE "outcome_unknown")
    /\ UNCHANGED <<receipts, pending, previous, submitted, accepted, crashes>>

\* prepare(): loads the agent; it fails without touching the receipt.
Prepare(c) ==
    /\ pc[c] = "preparing"
    /\ \/ Goto(c, "recording") /\ UNCHANGED reply
       \/ Settle(c, "failed")
    /\ UNCHANGED <<receipts, pending, previous, submitted, accepted, crashes>>

WriteReceipt(c, state) ==
    receipts' = [receipts EXCEPT ![KeyOf[c]] = [state |-> state, fingerprint |-> RequestOf[c]]]

\* Mutant: the prompt leaves without a receipt.
RecordPendingLate(c) ==
    /\ pc[c] = "recording"
    /\ submitted' = submitted \cup {c}
    /\ Goto(c, "sending")
    /\ UNCHANGED <<receipts, pending, previous, reply, accepted, crashes>>

\* The pending receipt reaches the disk before the prompt leaves the daemon.
RecordPending(c) ==
    /\ pc[c] = "recording"
    /\ \/ /\ WriteReceipt(c, "pending")
          /\ submitted' = submitted \cup {c}
          /\ Goto(c, "sending")
          /\ UNCHANGED reply
       \/ /\ Settle(c, "failed")
          /\ UNCHANGED <<receipts, submitted>>
    /\ UNCHANGED <<pending, previous, accepted, crashes>>

\* The provider accepts a prompt that left the daemon, if it ever does:
\* while send() is awaited, after it gave up, or after the daemon died.
ProviderAccepts(c) ==
    /\ c \in submitted \ accepted
    /\ accepted' = accepted \cup {c}
    /\ UNCHANGED <<receipts, pending, previous, pc, reply, submitted, crashes>>

\* send() resolves once the provider has accepted, or throws either way.
SendReturns(c) ==
    /\ pc[c] = "sending"
    /\ \/ c \in accepted /\ Goto(c, "sent") /\ UNCHANGED reply
       \/ Settle(c, "failed")
    /\ UNCHANGED <<receipts, pending, previous, submitted, accepted, crashes>>

RecordCompleted(c) ==
    /\ pc[c] = "sent"
    /\ \/ WriteReceipt(c, "completed") /\ Settle(c, "sent")
       \/ UNCHANGED receipts /\ Settle(c, "failed")
    /\ UNCHANGED <<pending, previous, submitted, accepted, crashes>>

\* Mutant: the chain is dropped even when a later call extended it.
ForgetAlways(c) ==
    /\ pc[c] = "settled"
    /\ pending' = [pending EXCEPT ![KeyOf[c]] = NoCall]
    /\ Goto(c, "forgotten")
    /\ UNCHANGED <<receipts, previous, reply, submitted, accepted, crashes>>

\* result.finally: drop the chain unless a later call extended it.
Forget(c) ==
    /\ pc[c] = "settled"
    /\ pending' = IF pending[KeyOf[c]] = c THEN [pending EXCEPT ![KeyOf[c]] = NoCall]
                                           ELSE pending
    /\ Goto(c, "forgotten")
    /\ UNCHANGED <<receipts, previous, reply, submitted, accepted, crashes>>

\* The daemon dies: running calls are lost with the chains, files stay.
Crash ==
    /\ crashes < MaxCrashes
    /\ crashes' = crashes + 1
    /\ pending' = [k \in Keys |-> NoCall]
    /\ previous' = [c \in Calls |-> NoCall]
    /\ pc' = [c \in Calls |-> IF pc[c] = "idle" \/ pc[c] \in Answered THEN pc[c] ELSE "lost"]
    /\ UNCHANGED <<receipts, reply, submitted, accepted>>

Step(c) ==
    \/ ReadReceipt(c) \/ Prepare(c) \/ RecordPending(c) \/ SendReturns(c)
    \/ RecordCompleted(c) \/ Forget(c)

Next ==
    \/ \E c \in Calls : Send(c) \/ Step(c) \/ ProviderAccepts(c)
    \/ Crash

Spec == Init /\ [][Next]_vars

\* A started call keeps running: every awaited operation comes back.
FairSpec == Spec /\ \A c \in Calls : WF_vars(Step(c))

-----------------------------------------------------------------------------

\* A message is never given to the provider twice, whatever the retries,
\* failures and crashes (the receipt is written before the send, and one
\* call of a key runs at a time).
AtMostOnce ==
    \A c, d \in accepted : KeyOf[c] = KeyOf[d] => c = d

\* A client told that its message was sent can rely on it: the provider has
\* accepted a call of that key that carried this very request.
SentMeansAccepted ==
    \A c \in Calls : reply[c] = "sent" =>
        \E d \in accepted : KeyOf[d] = KeyOf[c] /\ RequestOf[d] = RequestOf[c]

\* A key whose receipt is absent is safe to retry: the provider holds no
\* message of it.  This is what lets a failed prepare() be retried.
NoReceiptMeansNotAccepted ==
    \A c \in accepted : receipts[KeyOf[c]] # NoReceipt

\* Every call is answered, or lost with the daemon: a failed call of the
\* same key never blocks the calls chained behind it.
EveryCallAnswered ==
    \A c \in Calls : pc[c] = "chained" ~> pc[c] \in {"forgotten", "lost"}

=============================================================================
