------------------------- MODULE DispatchQueueProofs ------------------------
(***************************************************************************)
(* Facts about the queues that the proofs about both ways of draining them *)
(* rest on: which handles a queue has after appending to it and taking its *)
(* oldest, what completing a result appends to the calls done, and how the *)
(* stamps of a queue rise.                                                 *)
(***************************************************************************)
EXTENDS DispatchQueue, SequenceTheorems, TLAPS

-----------------------------------------------------------------------------
(* Queues *)

(* The handles of a queue after the operations the dispatcher uses. *)
LEMMA CallsOfEmpty == CallsOf(<< >>) = {} /\ Distinct(<< >>)
  BY DEF CallsOf, Distinct

LEMMA CallsOfOne ==
  ASSUME NEW m \in Message
  PROVE  CallsOf(<<m>>) = {m.hCall} \ {NoCall}
  BY DEF CallsOf

LEMMA CallsOfAppend ==
  ASSUME NEW q \in Seq(Message), NEW m \in Message
  PROVE  /\ CallsOf(Append(q, m)) = CallsOf(q) \cup ({m.hCall} \ {NoCall})
         /\ Distinct(q) /\ m.hCall \notin CallsOf(q) => Distinct(Append(q, m))
<1>1. /\ DOMAIN Append(q, m) = 1..(Len(q) + 1)
      /\ DOMAIN q = 1..Len(q)
      /\ Len(q) \in Nat
  BY LenProperties, AppendProperties
<1>2. /\ Append(q, m)[Len(q) + 1] = m
      /\ \A i \in 1..Len(q) : Append(q, m)[i] = q[i]
  BY AppendProperties
<1>3. CallsOf(Append(q, m)) = CallsOf(q) \cup ({m.hCall} \ {NoCall})
  BY <1>1, <1>2 DEF CallsOf
<1>4. ASSUME Distinct(q), m.hCall \notin CallsOf(q)
      PROVE  Distinct(Append(q, m))
  BY <1>1, <1>2, <1>4 DEF CallsOf, Distinct
<1>. QED  BY <1>3, <1>4

LEMMA CallsOfHeadTail ==
  ASSUME NEW q \in Seq(Message), q # << >>
  PROVE  /\ Head(q) \in Message
         /\ Tail(q) \in Seq(Message)
         /\ CallsOf(q) = CallsOf(Tail(q)) \cup ({Head(q).hCall} \ {NoCall})
         /\ Distinct(q) => /\ Distinct(Tail(q))
                           /\ Head(q).hCall \notin CallsOf(Tail(q))
<1>1. /\ Head(q) \in Message
      /\ Tail(q) \in Seq(Message)
      /\ Len(Tail(q)) = Len(q) - 1
      /\ \A i \in 1..Len(Tail(q)) : Tail(q)[i] = q[i + 1]
  BY HeadTailProperties
<1>2. /\ DOMAIN q = 1..Len(q)
      /\ DOMAIN Tail(q) = 1..(Len(q) - 1)
      /\ Len(q) \in Nat \ {0}
      /\ Head(q) = q[1]
  BY <1>1, LenProperties, EmptySeq
<1>3. CallsOf(q) = CallsOf(Tail(q)) \cup ({Head(q).hCall} \ {NoCall})
  <2>1. ASSUME NEW i \in DOMAIN q
        PROVE  i = 1 \/ (i - 1 \in DOMAIN Tail(q) /\ q[i] = Tail(q)[i - 1])
    BY <1>1, <1>2
  <2>2. ASSUME NEW i \in DOMAIN Tail(q)
        PROVE  i + 1 \in DOMAIN q /\ q[i + 1] = Tail(q)[i]
    BY <1>1, <1>2
  <2>3. ASSUME NEW h \in CallsOf(q)
        PROVE  h \in CallsOf(Tail(q)) \cup ({Head(q).hCall} \ {NoCall})
    <3>1. PICK i \in DOMAIN q : h = q[i].hCall /\ h # NoCall
      BY DEF CallsOf
    <3>. QED  BY <1>2, <2>1, <3>1 DEF CallsOf
  <2>4. CallsOf(Tail(q)) \cup ({Head(q).hCall} \ {NoCall}) \subseteq CallsOf(q)
    BY <1>2, <2>2 DEF CallsOf
  <2>. QED  BY <2>3, <2>4
<1>4. ASSUME Distinct(q)
      PROVE  Distinct(Tail(q)) /\ Head(q).hCall \notin CallsOf(Tail(q))
  BY <1>1, <1>2, <1>4 DEF CallsOf, Distinct
<1>. QED  BY <1>1, <1>3, <1>4

LEMMA StampType ==
  ASSUME QueueTypeOK, NEW h \in Nat, NEW id \in Ids, NEW gs \in BOOLEAN,
         NEW delay \in Nat
  PROVE  Stamp(h, id, gs, delay) \in Message
  BY DEF QueueTypeOK, Stamp, Message

(* The completed calls, in order: what AsyncCalls calls done. *)
Done == [i \in DOMAIN g_completed |-> g_completed[i].hCall]

LEMMA DoneAppend ==
  ASSUME QueueTypeOK, NEW m \in Message, g_completed' = Append(g_completed, m)
  PROVE  Done' = Append(Done, m.hCall)
<1>1. /\ Len(g_completed) \in Nat
      /\ DOMAIN g_completed = 1..Len(g_completed)
      /\ \A i \in 1..Len(g_completed) : g_completed[i] \in Message
  BY LenProperties, ElementOfSeq DEF QueueTypeOK
<1>2. /\ DOMAIN g_completed' = 1..(Len(g_completed) + 1)
      /\ g_completed'[Len(g_completed) + 1] = m
      /\ \A i \in 1..Len(g_completed) : g_completed'[i] = g_completed[i]
      /\ Len(g_completed') = Len(g_completed) + 1
  BY <1>1, AppendProperties, LenProperties DEF QueueTypeOK
<1>3. /\ Done = [i \in 1..Len(g_completed) |-> g_completed[i].hCall]
      /\ Done' = [i \in 1..(Len(g_completed) + 1) |-> g_completed'[i].hCall]
  BY <1>1, <1>2 DEF Done
<1>4. Done \in Seq(Nat) /\ Len(Done) = Len(g_completed)
  <2>1. \A i \in 1..Len(g_completed) : g_completed[i].hCall \in Nat
    BY <1>1 DEF Message
  <2>2. Done \in Seq(Nat)
    BY <1>1, <1>3, <2>1, IsASeq
  <2>. QED  BY <1>1, <1>3, <2>2, LenProperties
<1>5. m.hCall \in Nat
  BY DEF Message
<1>6. /\ Append(Done, m.hCall) \in Seq(Nat)
      /\ Len(Append(Done, m.hCall)) = Len(g_completed) + 1
      /\ \A i \in 1..Len(g_completed) : Append(Done, m.hCall)[i] = g_completed[i].hCall
      /\ Append(Done, m.hCall)[Len(g_completed) + 1] = m.hCall
  BY <1>3, <1>4, <1>5, AppendProperties
<1>7. /\ Done' \in Seq(Nat)
      /\ Len(Done') = Len(g_completed) + 1
      /\ \A i \in 1..Len(g_completed) : Done'[i] = g_completed[i].hCall
      /\ Done'[Len(g_completed) + 1] = m.hCall
  <2>1. \A i \in 1..(Len(g_completed) + 1) : g_completed'[i].hCall \in Nat
    BY <1>1, <1>2, <1>5 DEF Message
  <2>2. Done' \in Seq(Nat)
    BY <1>1, <1>3, <2>1, IsASeq
  <2>. QED  BY <1>1, <1>2, <1>3, <2>2, LenProperties
<1>. QED  BY <1>1, <1>6, <1>7, SeqEqual

-----------------------------------------------------------------------------
(* Stamps *)

(* A queue is in the order of its stamps; every stamp in it is below n. *)
Ascending(queue) == \A i, j \in DOMAIN queue : i < j => queue[i].seq < queue[j].seq
StampsBelow(queue, n) == \A i \in DOMAIN queue : queue[i].seq < n

LEMMA StampsOf ==
  ASSUME NEW q \in Seq(Message)
  PROVE  \A i \in DOMAIN q : q[i] \in Message /\ q[i].seq \in Nat
<1>1. \A i \in DOMAIN q : q[i] \in Message
  BY ElementOfSeq, LenProperties
<1>. QED  BY <1>1 DEF Message

LEMMA AppendStamped ==
  ASSUME NEW q \in Seq(Message), NEW m \in Message, StampsBelow(q, m.seq)
  PROVE  /\ Append(q, m) \in Seq(Message)
         /\ Ascending(q) => Ascending(Append(q, m))
         /\ StampsBelow(Append(q, m), m.seq + 1)
<1>1. /\ DOMAIN Append(q, m) = 1..(Len(q) + 1)
      /\ DOMAIN q = 1..Len(q)
      /\ Len(q) \in Nat
      /\ Append(q, m) \in Seq(Message)
  BY LenProperties, AppendProperties
<1>2. /\ Append(q, m)[Len(q) + 1] = m
      /\ \A i \in 1..Len(q) : Append(q, m)[i] = q[i]
  BY AppendProperties
<1>3. m.seq \in Nat /\ \A i \in 1..Len(q) : q[i].seq \in Nat /\ q[i].seq < m.seq
  BY <1>1, StampsOf DEF Message, StampsBelow
<1>4. Ascending(q) => Ascending(Append(q, m))
  BY <1>1, <1>2, <1>3 DEF Ascending
<1>5. StampsBelow(Append(q, m), m.seq + 1)
  BY <1>1, <1>2, <1>3 DEF StampsBelow
<1>. QED  BY <1>1, <1>4, <1>5

LEMMA BelowMore ==
  ASSUME NEW q \in Seq(Message), NEW m \in Nat, NEW n \in Nat, m <= n, StampsBelow(q, m)
  PROVE  StampsBelow(q, n)
<1>. QED  BY StampsOf DEF StampsBelow

(* The stamps in a queue, and those after its oldest message has left it.  *)
Stamps(queue) == {queue[i].seq : i \in DOMAIN queue}

LEMMA StampsAppend ==
  ASSUME NEW q \in Seq(Message), NEW m \in Message
  PROVE  Stamps(Append(q, m)) = Stamps(q) \cup {m.seq}
<1>1. /\ DOMAIN Append(q, m) = 1..(Len(q) + 1)
      /\ DOMAIN q = 1..Len(q)
      /\ Len(q) \in Nat
      /\ Append(q, m)[Len(q) + 1] = m
      /\ \A i \in 1..Len(q) : Append(q, m)[i] = q[i]
  BY LenProperties, AppendProperties
<1>. QED  BY <1>1 DEF Stamps

LEMMA StampsHeadTail ==
  ASSUME NEW q \in Seq(Message), q # << >>, Ascending(q)
  PROVE  /\ Ascending(Tail(q))
         /\ Head(q).seq \in Stamps(q)
         /\ Stamps(Tail(q)) \subseteq Stamps(q)
         /\ \A n \in Stamps(q) : Head(q).seq <= n
<1>1. /\ DOMAIN q = 1..Len(q) /\ Len(q) \in Nat \ {0}
      /\ Head(q) = q[1]
      /\ DOMAIN Tail(q) = 1..(Len(q) - 1)
      /\ \A i \in 1..(Len(q) - 1) : Tail(q)[i] = q[i + 1]
  BY HeadTailProperties, LenProperties, EmptySeq
<1>2. \A i \in 1..Len(q) : q[i].seq \in Nat /\ (1 < i => q[1].seq < q[i].seq)
  BY <1>1, StampsOf DEF Ascending
<1>. QED  BY <1>1, <1>2 DEF Stamps, Ascending

LEMMA StampsAreNats ==
  ASSUME NEW q \in Seq(Message)
  PROVE  Stamps(q) \subseteq Nat
BY StampsOf DEF Stamps

LEMMA StampsEmpty == Stamps(<< >>) = {}
  BY DEF Stamps
=============================================================================
