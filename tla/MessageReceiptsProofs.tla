------------------------ MODULE MessageReceiptsProofs ------------------------
(***************************************************************************)
(* Proofs about MessageReceipts, for any number of calls, keys and         *)
(* crashes.  The argument has two layers: Chain says that the promises of  *)
(* one key form a chain with one runnable call, and Journal says what the  *)
(* receipt of a key means while that one call runs.                        *)
(***************************************************************************)
EXTENDS MessageReceipts, TLAPS

Active == {"preparing", "recording", "sending", "sent"}
IsLive(c) == pc[c] \in {"chained"} \cup Active
SameKey(c, d) == KeyOf[c] = KeyOf[d]

\* A call is chained behind a call of its own key that was made before it,
\* no two calls behind the same one, and none behind itself in a circle.
Behind ==
    /\ \A c \in Calls : IsLive(c) /\ previous[c] # NoCall =>
          SameKey(previous[c], c) /\ pc[previous[c]] # "idle"
    /\ \A c, d \in Calls : IsLive(c) /\ IsLive(d) /\ previous[c] = previous[d]
                            /\ previous[c] # NoCall => c = d
    /\ \A S \in SUBSET Calls : S # {} /\ (\A c \in S : IsLive(c)) =>
          \E c \in S : previous[c] \notin S

\* pending holds the last call of a key: nothing is chained behind it, and it
\* is running or waiting as long as any call of the key is.
Tail ==
    /\ \A k \in Keys : pending[k] # NoCall => KeyOf[pending[k]] = k /\ pc[pending[k]] # "idle"
    /\ \A c \in Calls : IsLive(c) /\ previous[c] # NoCall => pending[KeyOf[c]] # previous[c]
    /\ \A c \in Calls : IsLive(c) => pending[KeyOf[c]] # NoCall /\ IsLive(pending[KeyOf[c]])

\* One call of a key may run, and only that one is past its receipt check.
OneRunnable ==
    /\ \A c, d \in Calls : IsLive(c) /\ IsLive(d) /\ Runnable(c) /\ Runnable(d)
                            /\ SameKey(c, d) => c = d
    /\ \A c \in Calls : pc[c] \in Active => Runnable(c)

Chain == Behind /\ Tail /\ OneRunnable

-----------------------------------------------------------------------------

\* Every variable keeps its type, whatever the calls and the crashes.
THEOREM TypeCorrect == Spec => []TypeOK
<1>1. Init => TypeOK
  BY CallsAssumption DEF Init, TypeOK, Receipt, Answered, Replies
<1>2. TypeOK /\ [Next]_vars => TypeOK'
  <2> SUFFICES ASSUME TypeOK, [Next]_vars PROVE TypeOK'
    OBVIOUS
  <2> USE CallsAssumption DEF TypeOK, Receipt, Answered, Replies, Goto, Settle
  <2>1. ASSUME NEW c \in Calls, Send(c) PROVE TypeOK'
    BY <2>1 DEF Send
  <2>2. ASSUME NEW c \in Calls, ReadReceipt(c) PROVE TypeOK'
    BY <2>2 DEF ReadReceipt
  <2>3. ASSUME NEW c \in Calls, Prepare(c) PROVE TypeOK'
    BY <2>3 DEF Prepare
  <2>4. ASSUME NEW c \in Calls, RecordPending(c) PROVE TypeOK'
    BY <2>4 DEF RecordPending, WriteReceipt
  <2>5. ASSUME NEW c \in Calls, ProviderAccepts(c) PROVE TypeOK'
    BY <2>5 DEF ProviderAccepts
  <2>6. ASSUME NEW c \in Calls, SendReturns(c) PROVE TypeOK'
    BY <2>6 DEF SendReturns
  <2>7. ASSUME NEW c \in Calls, RecordCompleted(c) PROVE TypeOK'
    BY <2>7 DEF RecordCompleted, WriteReceipt
  <2>8. ASSUME NEW c \in Calls, Forget(c) PROVE TypeOK'
    BY <2>8 DEF Forget
  <2>9. CASE Crash
    BY <2>9 DEF Crash
  <2>10. CASE UNCHANGED vars
    BY <2>10 DEF vars
  <2>11. QED
    BY <2>1, <2>2, <2>3, <2>4, <2>5, <2>6, <2>7, <2>8, <2>9, <2>10 DEF Next, Step
<1>3. QED
  BY <1>1, <1>2, PTL DEF Spec
-----------------------------------------------------------------------------

\* A call that settles passes the right to run to at most one call.
LEMMA SettleKeepsChain ==
    ASSUME TypeOK, Chain, NEW c \in Calls, IsLive(c), Runnable(c),
           pc' = [pc EXCEPT ![c] = "settled"], UNCHANGED <<pending, previous>>
    PROVE  Chain'
<1> USE CallsAssumption DEF TypeOK, Answered, Active, IsLive, SameKey
<1>1. \A d \in Calls : IsLive(d)' <=> IsLive(d) /\ d # c
  OBVIOUS
<1>2. Behind'
  <2>1. ASSUME NEW S \in SUBSET Calls, S # {}, \A d \in S : IsLive(d)'
        PROVE  \E d \in S : previous'[d] \notin S
    BY <2>1, <1>1 DEF Chain, Behind
  <2>2. QED
    BY <2>1, <1>1 DEF Chain, Behind
<1>3. Tail'
  <2>1. ASSUME NEW d \in Calls, IsLive(d)'
        PROVE  pending[KeyOf[d]] # c
    <3> SUFFICES ASSUME pending[KeyOf[d]] = c PROVE FALSE
      OBVIOUS
    <3> DEFINE S == {e \in Calls : IsLive(e) /\ e # c /\ KeyOf[e] = KeyOf[d]}
    <3>0. KeyOf[c] = KeyOf[d]
      BY <2>1 DEF Chain, Tail
    <3>1. d \in S /\ S \in SUBSET Calls /\ \A e \in S : IsLive(e)
      BY <1>1, <2>1
    <3>2. PICK e \in S : previous[e] \notin S
      BY <3>1 DEF Chain, Behind
    <3>3. ~ Runnable(e)
      <4>1. KeyOf[c] = KeyOf[e]
        BY <3>0, <3>2
      <4>2. QED
        BY <3>2, <4>1 DEF Chain, OneRunnable
    <3>4. previous[e] # NoCall /\ IsLive(previous[e]) /\ KeyOf[previous[e]] = KeyOf[e]
      <4>1. previous[e] \in Calls /\ pc[previous[e]] \notin Answered /\ previous[e] # NoCall
        BY <3>3, <3>2 DEF Runnable
      <4>2. QED
        BY <4>1, <3>2 DEF Chain, Behind
    <3>5. previous[e] = c
      BY <3>2, <3>4
    <3>6. KeyOf[e] = KeyOf[d] /\ pending[KeyOf[e]] # previous[e]
      BY <3>2, <3>4 DEF Chain, Tail
    <3>7. QED
      BY <3>5, <3>6
  <2>2. QED
    BY <2>1, <1>1 DEF Chain, Tail
<1>4. OneRunnable'
  <2>1. \A d \in Calls : IsLive(d)' /\ Runnable(d)' /\ SameKey(c, d) => previous[d] = c
    BY <1>1 DEF Chain, OneRunnable, Runnable
  <2>2. \A d \in Calls : Runnable(d) => Runnable(d)'
    BY DEF Runnable
  <2>3. \A d \in Calls : IsLive(d)' /\ Runnable(d)' /\ ~ SameKey(c, d) => Runnable(d)
    BY <1>1 DEF Chain, Behind, Runnable
  <2>4. QED
    BY <2>1, <2>2, <2>3, <1>1 DEF Chain, OneRunnable, Behind
<1>5. QED
  BY <1>2, <1>3, <1>4 DEF Chain

\* A call that stays live while it advances leaves the chain alone.
LEMMA AdvanceKeepsChain ==
    ASSUME TypeOK, Chain, NEW c \in Calls, IsLive(c), Runnable(c), NEW l \in Active,
           pc' = [pc EXCEPT ![c] = l], UNCHANGED <<pending, previous>>
    PROVE  Chain'
<1> USE CallsAssumption DEF TypeOK, Answered, Active, IsLive, SameKey
<1>1. \A d \in Calls : (IsLive(d)' <=> IsLive(d)) /\ (Runnable(d)' <=> Runnable(d))
  BY DEF Runnable
<1>2. Behind'
  <2>1. ASSUME NEW S \in SUBSET Calls, S # {}, \A d \in S : IsLive(d)'
        PROVE  \E d \in S : previous'[d] \notin S
    BY <2>1, <1>1 DEF Chain, Behind
  <2>2. QED
    BY <2>1, <1>1 DEF Chain, Behind
<1>3. Tail'
  BY <1>1 DEF Chain, Tail
<1>4. OneRunnable'
  BY <1>1 DEF Chain, OneRunnable
<1>5. QED
  BY <1>2, <1>3, <1>4 DEF Chain

\* A new call goes behind the last one.
LEMMA SendKeepsChain ==
    ASSUME TypeOK, Chain, NEW c \in Calls, Send(c)
    PROVE  Chain'
<1> USE CallsAssumption DEF TypeOK, Answered, Active, IsLive, SameKey, Send, Goto
<1>1. \A d \in Calls : IsLive(d)' <=> IsLive(d) \/ d = c
  OBVIOUS
<1>2. \A d \in Calls : d # c /\ IsLive(d) =>
         previous'[d] = previous[d] /\ previous[d] # c /\ (Runnable(d)' <=> Runnable(d))
  BY DEF Chain, Behind, Runnable
<1>3. previous'[c] = pending[KeyOf[c]] /\ previous'[c] # c /\ ~ IsLive(c)
  <2>1. previous'[c] = pending[KeyOf[c]] /\ ~ IsLive(c) /\ KeyOf[c] \in Keys
    OBVIOUS
  <2>2. pending[KeyOf[c]] # c
    BY <2>1 DEF Chain, Tail
  <2>3. QED
    BY <2>1, <2>2
<1>4. Behind'
  <2>1. ASSUME NEW S \in SUBSET Calls, S # {}, \A d \in S : IsLive(d)'
        PROVE  \E d \in S : previous'[d] \notin S
    <3>1. CASE S = {c}
      BY <3>1, <1>3
    <3>2. CASE S # {c}
      <4> DEFINE T == S \ {c}
      <4>1. T # {} /\ T \in SUBSET Calls /\ \A d \in T : IsLive(d)
        BY <3>2, <2>1, <1>1
      <4>2. PICK d \in T : previous[d] \notin T
        BY <4>1 DEF Chain, Behind
      <4>3. QED
        BY <4>1, <4>2, <1>2
    <3>3. QED
      BY <3>1, <3>2
  <2>2. \A d \in Calls : IsLive(d)' /\ previous'[d] # NoCall =>
           SameKey(previous'[d], d) /\ pc'[previous'[d]] # "idle"
    <3>1. ASSUME NEW d \in Calls, IsLive(d), d # c, previous[d] # NoCall
          PROVE  SameKey(previous[d], d) /\ pc'[previous[d]] # "idle"
      BY <3>1 DEF Chain, Behind
    <3>2. previous'[c] # NoCall => SameKey(previous'[c], c) /\ pc'[previous'[c]] # "idle"
      BY <1>3, ZenonT(40) DEF Chain, Tail
    <3>3. QED
      BY <3>1, <3>2, <1>1, <1>2
  <2>3. \A d, e \in Calls : IsLive(d)' /\ IsLive(e)' /\ previous'[d] = previous'[e]
                            /\ previous'[d] # NoCall => d = e
    <3>1. ASSUME NEW d \in Calls, IsLive(d), d # c, previous'[d] # NoCall
          PROVE  previous'[d] # previous'[c]
      <4>1. previous'[d] = previous[d] /\ KeyOf[previous[d]] = KeyOf[d] /\ pending[KeyOf[d]] # previous[d]
        BY <3>1, <1>2 DEF Chain, Behind, Tail
      <4>2. pending[KeyOf[c]] # NoCall => KeyOf[pending[KeyOf[c]]] = KeyOf[c]
        BY DEF Chain, Tail
      <4>3. QED
        BY <4>1, <4>2, <1>3, <3>1
    <3>2. QED
      BY <3>1, <1>1, <1>2 DEF Chain, Behind
  <2>4. QED
    BY <2>1, <2>2, <2>3 DEF Behind
<1>5. Tail'
  <2>1. \A k \in Keys : pending'[k] # NoCall => KeyOf[pending'[k]] = k /\ pc'[pending'[k]] # "idle"
    BY DEF Chain, Tail
  <2>2. \A d \in Calls : IsLive(d)' /\ previous'[d] # NoCall => pending'[KeyOf[d]] # previous'[d]
    <3>1. ASSUME NEW d \in Calls, IsLive(d), previous[d] # NoCall, d # c
          PROVE  pending'[KeyOf[d]] # previous[d]
      BY <3>1, <1>2 DEF Chain, Tail
    <3>2. QED
      BY <3>1, <1>1, <1>2, <1>3
  <2>3. \A d \in Calls : IsLive(d)' => pending'[KeyOf[d]] # NoCall /\ IsLive(pending[KeyOf[d]])'
    <3>1. ASSUME NEW d \in Calls, IsLive(d), KeyOf[d] # KeyOf[c]
          PROVE  pending'[KeyOf[d]] # NoCall /\ IsLive(pending[KeyOf[d]])'
      BY <3>1 DEF Chain, Tail
    <3>2. ASSUME NEW d \in Calls, KeyOf[d] = KeyOf[c]
          PROVE  pending'[KeyOf[d]] # NoCall /\ IsLive(pending[KeyOf[d]])'
      BY <3>2
    <3>3. QED
      BY <3>1, <3>2, <1>1
  <2>4. QED
    BY ONLY <2>1, <2>2, <2>3 DEF Tail
<1>6. OneRunnable'
  <2>1. ASSUME NEW d \in Calls, IsLive(d), SameKey(c, d) PROVE ~ Runnable(c)'
    BY <2>1, <1>3 DEF Chain, Tail, Runnable
  <2>2. QED
    BY <2>1, <1>1, <1>2, <1>3 DEF Chain, OneRunnable
<1>7. QED
  BY <1>4, <1>5, <1>6 DEF Chain

\* Forgetting a settled call and losing every call keep the chain.
LEMMA ForgetKeepsChain ==
    ASSUME TypeOK, Chain, NEW c \in Calls, Forget(c)
    PROVE  Chain'
<1> USE CallsAssumption DEF TypeOK, Answered, Active, IsLive, SameKey, Forget, Goto
<1>1. \A d \in Calls : (IsLive(d)' <=> IsLive(d)) /\ (Runnable(d)' <=> Runnable(d)) /\ d # NoCall
  BY DEF Runnable
<1>2. Behind'
  <2>1. ASSUME NEW S \in SUBSET Calls, S # {}, \A d \in S : IsLive(d)'
        PROVE  \E d \in S : previous'[d] \notin S
    BY <2>1, <1>1 DEF Chain, Behind
  <2>2. QED
    BY <2>1, <1>1 DEF Chain, Behind
<1>3. Tail'
  <2>1. \A d \in Calls : IsLive(d) => pending'[KeyOf[d]] = pending[KeyOf[d]]
    BY DEF Chain, Tail
  <2>2. QED
    BY <2>1, <1>1 DEF Chain, Tail
<1>4. OneRunnable'
  BY <1>1 DEF Chain, OneRunnable
<1>5. QED
  BY <1>2, <1>3, <1>4 DEF Chain

LEMMA CrashKeepsChain ==
    ASSUME TypeOK, Crash
    PROVE  Chain'
<1>1. \A d \in Calls : ~ IsLive(d)' /\ pc'[d] \notin Active
  BY DEF Crash, TypeOK, IsLive, Active, Answered
<1>2. \A k \in Keys : pending'[k] = NoCall
  BY DEF Crash
<1>3. QED
  BY <1>1, <1>2 DEF Chain, Behind, Tail, OneRunnable

\* The promises of a key always form a chain with one runnable call.
LEMMA ChainStep ==
    ASSUME TypeOK, Chain, [Next]_vars
    PROVE  Chain'
<1>1. ASSUME NEW c \in Calls, Send(c) PROVE Chain'
  BY <1>1, SendKeepsChain
<1>2. ASSUME NEW c \in Calls, ReadReceipt(c) PROVE Chain'
  <2>1. IsLive(c) /\ Runnable(c)
    BY <1>2 DEF ReadReceipt, IsLive
  <2>2. pc' = [pc EXCEPT ![c] = "settled"] \/ pc' = [pc EXCEPT ![c] = "preparing"]
    BY <1>2 DEF ReadReceipt, Goto, Settle
  <2>3. QED
    BY <1>2, <2>1, <2>2, SettleKeepsChain, AdvanceKeepsChain DEF ReadReceipt, Active
<1>3. ASSUME NEW c \in Calls,
             Prepare(c) \/ RecordPending(c) \/ SendReturns(c) \/ RecordCompleted(c)
      PROVE  Chain'
  <2>1. pc[c] \in Active /\ UNCHANGED <<pending, previous>>
    BY <1>3 DEF Prepare, RecordPending, SendReturns, RecordCompleted, Active
  <2>2. IsLive(c) /\ Runnable(c)
    BY <2>1 DEF IsLive, Chain, OneRunnable
  <2>3. pc' = [pc EXCEPT ![c] = "settled"] \/ \E l \in Active : pc' = [pc EXCEPT ![c] = l]
    BY <1>3 DEF Prepare, RecordPending, SendReturns, RecordCompleted, Goto, Settle, Active
  <2>4. QED
    BY <2>1, <2>2, <2>3, SettleKeepsChain, AdvanceKeepsChain
<1>4. ASSUME NEW c \in Calls, Forget(c) PROVE Chain'
  BY <1>4, ForgetKeepsChain
<1>5. CASE Crash
  BY <1>5, CrashKeepsChain
<1>6. ASSUME UNCHANGED <<pc, pending, previous>> PROVE Chain'
  BY <1>6 DEF Chain, Behind, Tail, OneRunnable, Runnable, IsLive, SameKey
<1>7. QED
  BY <1>1, <1>2, <1>3, <1>4, <1>5, <1>6 DEF Next, Step, ProviderAccepts, vars

-----------------------------------------------------------------------------

\* What the receipt of a key says about the calls of the key: nothing left the
\* daemon while there is none, and at most one call ever did.
Journal ==
    /\ accepted \subseteq submitted
    /\ \A c \in submitted : receipts[KeyOf[c]] # NoReceipt
    /\ \A c \in Calls : pc[c] \in {"preparing", "recording"} => receipts[KeyOf[c]] = NoReceipt
    /\ \A c, d \in submitted : KeyOf[c] = KeyOf[d] => c = d

\* What a completed receipt and a positive answer are worth.
Answers ==
    /\ \A c \in Calls : pc[c] = "sent" => c \in accepted
    /\ \A k \in Keys : receipts[k].state = "completed" =>
          \E d \in accepted : KeyOf[d] = k /\ RequestOf[d] = receipts[k].fingerprint
    /\ SentMeansAccepted

IInv == TypeOK /\ Chain /\ Journal /\ Answers

LEMMA JournalStep ==
    ASSUME TypeOK, Chain, Journal, [Next]_vars
    PROVE  Journal'
<1> USE CallsAssumption DEF TypeOK, Journal, Goto, Settle
<1>1. ASSUME NEW c \in Calls, Send(c) PROVE Journal'
  BY <1>1 DEF Send
<1>2. ASSUME NEW c \in Calls, ReadReceipt(c) PROVE Journal'
  BY <1>2 DEF ReadReceipt
<1>3. ASSUME NEW c \in Calls, Prepare(c) PROVE Journal'
  BY <1>3 DEF Prepare
<1>4. ASSUME NEW c \in Calls, RecordPending(c) PROVE Journal'
  <2>1. CASE Settle(c, "failed") /\ UNCHANGED <<receipts, submitted>>
    BY <1>4, <2>1 DEF RecordPending
  <2>2. CASE WriteReceipt(c, "pending") /\ submitted' = submitted \cup {c} /\ Goto(c, "sending")
    <3>1. \A d \in Calls : pc'[d] \in {"preparing", "recording"} => KeyOf[d] # KeyOf[c]
      BY <1>4, <2>2 DEF RecordPending, Chain, OneRunnable, SameKey, IsLive, Active
    <3>2. \A d \in submitted : KeyOf[d] # KeyOf[c]
      BY <1>4 DEF RecordPending
    <3>3. receipts'[KeyOf[c]] # NoReceipt /\ \A k \in Keys : k # KeyOf[c] => receipts'[k] = receipts[k]
      BY <2>2 DEF WriteReceipt, NoReceipt
    <3>4. accepted' = accepted
      BY <1>4 DEF RecordPending
    <3>5. \A d \in Calls : pc'[d] \in {"preparing", "recording"} => pc'[d] = pc[d]
      BY <2>2
    <3>6. QED
      BY <2>2, <3>1, <3>2, <3>3, <3>4, <3>5
  <2>3. QED
    BY <1>4, <2>1, <2>2 DEF RecordPending
<1>5. ASSUME NEW c \in Calls, ProviderAccepts(c) PROVE Journal'
  BY <1>5 DEF ProviderAccepts
<1>6. ASSUME NEW c \in Calls, SendReturns(c) PROVE Journal'
  BY <1>6 DEF SendReturns
<1>7. ASSUME NEW c \in Calls, RecordCompleted(c) PROVE Journal'
  <2>1. \A d \in Calls : pc'[d] \in {"preparing", "recording"} =>
           KeyOf[d] # KeyOf[c] /\ pc'[d] = pc[d]
    BY <1>7 DEF RecordCompleted, Chain, OneRunnable, SameKey, IsLive, Active
  <2>2. \A k \in Keys : receipts'[k] = receipts[k] \/ (k = KeyOf[c] /\ receipts'[k] # NoReceipt)
    BY <1>7 DEF RecordCompleted, WriteReceipt, NoReceipt
  <2>3. UNCHANGED <<submitted, accepted>>
    BY <1>7 DEF RecordCompleted
  <2>4. QED
    BY <2>1, <2>2, <2>3
<1>8. ASSUME NEW c \in Calls, Forget(c) PROVE Journal'
  BY <1>8 DEF Forget
<1>9. CASE Crash
  BY <1>9 DEF Crash
<1>10. CASE UNCHANGED vars
  BY <1>10 DEF vars
<1>11. QED
  BY <1>1, <1>2, <1>3, <1>4, <1>5, <1>6, <1>7, <1>8, <1>9, <1>10 DEF Next, Step

LEMMA AnswersStep ==
    ASSUME TypeOK, Answers, [Next]_vars
    PROVE  Answers'
<1> USE CallsAssumption DEF TypeOK, Answers, SentMeansAccepted, Goto, Settle
<1>1. ASSUME NEW c \in Calls, Send(c) PROVE Answers'
  BY <1>1 DEF Send
<1>2. ASSUME NEW c \in Calls, ReadReceipt(c) PROVE Answers'
  <2>1. reply'[c] = "sent" /\ reply' # reply =>
           receipts[KeyOf[c]].state = "completed" /\ receipts[KeyOf[c]].fingerprint = RequestOf[c]
    BY <1>2 DEF ReadReceipt
  <2>2. \A d \in Calls : d # c => reply'[d] = reply[d]
    BY <1>2 DEF ReadReceipt
  <2>3. UNCHANGED <<receipts, accepted>> /\ \A d \in Calls : pc'[d] = "sent" => pc[d] = "sent"
    BY <1>2 DEF ReadReceipt
  <2>4. QED
    BY <2>1, <2>2, <2>3
<1>3. ASSUME NEW c \in Calls, Prepare(c) PROVE Answers'
  BY <1>3 DEF Prepare
<1>4. ASSUME NEW c \in Calls, RecordPending(c) PROVE Answers'
  BY <1>4 DEF RecordPending, WriteReceipt
<1>5. ASSUME NEW c \in Calls, ProviderAccepts(c) PROVE Answers'
  BY <1>5 DEF ProviderAccepts
<1>6. ASSUME NEW c \in Calls, SendReturns(c) PROVE Answers'
  BY <1>6 DEF SendReturns
<1>7. ASSUME NEW c \in Calls, RecordCompleted(c) PROVE Answers'
  BY <1>7 DEF RecordCompleted, WriteReceipt
<1>8. ASSUME NEW c \in Calls, Forget(c) PROVE Answers'
  BY <1>8 DEF Forget
<1>9. CASE Crash
  BY <1>9 DEF Crash
<1>10. CASE UNCHANGED vars
  BY <1>10 DEF vars
<1>11. QED
  BY <1>1, <1>2, <1>3, <1>4, <1>5, <1>6, <1>7, <1>8, <1>9, <1>10 DEF Next, Step

\* The inductive invariant behind the delivery guarantees.
THEOREM Invariant == Spec => []IInv
<1>1. Init => Chain /\ Journal /\ Answers
  BY CallsAssumption DEF Init, Chain, Behind, Tail, OneRunnable, IsLive, Active, Journal,
     Answers, SentMeansAccepted, NoReceipt
<1>2. TypeOK /\ Chain /\ Journal /\ Answers /\ [Next]_vars => Chain' /\ Journal' /\ Answers'
  BY ChainStep, JournalStep, AnswersStep
<1>3. QED
  BY TypeCorrect, <1>1, <1>2, PTL DEF Spec, IInv

\* No message is given to the provider twice.
THEOREM DeliveredAtMostOnce == Spec => []AtMostOnce
<1>1. IInv => AtMostOnce
  BY DEF IInv, Journal, AtMostOnce
<1>2. QED
  BY Invariant, <1>1, PTL

\* An absent receipt proves that the provider holds nothing of the message.
THEOREM RetryIsSafe == Spec => []NoReceiptMeansNotAccepted
<1>1. IInv => NoReceiptMeansNotAccepted
  BY DEF IInv, Journal, NoReceiptMeansNotAccepted
<1>2. QED
  BY Invariant, <1>1, PTL

\* A client that is told "sent" can rely on it.
THEOREM SentIsTrue == Spec => []SentMeansAccepted
<1>1. IInv => SentMeansAccepted
  BY DEF IInv, Answers
<1>2. QED
  BY Invariant, <1>1, PTL
=============================================================================
