------------------------ MODULE LineTransportsProofs ------------------------
(***************************************************************************)
(* Proofs about LineTransports for any sequence of message sizes, any      *)
(* limit of the queue and any number of connections.                       *)
(***************************************************************************)
EXTENDS LineTransports, FiniteSetTheorems, TLAPS

\* The number of the oldest message queued, or of the next one if none is.
Oldest == next_msg - Len(write_queue)

\* What the writer took from the queue, in the order in which it did.
Taken == written \o in_fwrite

\* q holds the messages before n, up to n - 1, without a gap.
Consecutive(q, n) ==
  /\ Len(q) < n
  /\ \A i \in 1..Len(q) : q[i] = n - Len(q) + i - 1

\* The messages queued are the last ones sent.
QueueInv == Consecutive(write_queue, next_msg)

\* Every older message was either dropped or taken, in order.
TakenInv ==
  /\ dropped \subseteq 1..(Oldest - 1)
  /\ ToSet(Taken) = (1..(Oldest - 1)) \ dropped
  /\ \A i, j \in 1..Len(Taken) : i < j => Taken[i] < Taken[j]

\* A writer that is not running holds no message; one that has left was asked to
\* and leaves nothing behind, and stop(), which joins it in stdio only, returns
\* only then.
WriterInv ==
  /\ writer # "on" => in_fwrite = <<>>
  /\ writer = "done" => stopping /\ write_queue = <<>>
  /\ kind = "pipe" => writer = "off"
  /\ stop_pc = "closed" => kind = "stdio"
  /\ stop_pc = "done" /\ kind = "stdio" => writer # "on"

\* The count is what is queued and what was ever dropped.
CountInv == bytes = QueuedBytes + Bytes(dropped)

\* A connection of the pipe that may still work is in the list or about to be
\* registered, until stop() has emptied the list; before start() there is none.
ListedInv ==
  kind = "pipe" =>
    /\ stop_pc # "idle" => ~running
    /\ stop_pc = "idle" /\ ~running => open = {} /\ ~accepting
    /\ stop_pc # "done" =>
         \A c \in Conns : c \in open /\ conn_active[c] => pc[c] = "accepted" \/ c \in listed
    /\ \A c \in open : pc[c] # "new" /\ (pc[c] = "done" => ~conn_active[c])

IInv ==
  /\ TypeOK /\ QueueInv /\ TakenInv /\ WriterInv /\ CountInv
  /\ ListedInv /\ NoGhostConnection

-----------------------------------------------------------------------------
(* Counting bytes *)

\* A set of messages has finitely many bytes; none has none.
LEMMA BytesNat ==
  ASSUME NEW S \in SUBSET Msgs
  PROVE  /\ IsFiniteSet(UNION {{m} \X (1..Size[m]) : m \in S})
         /\ Bytes(S) \in Nat
<1> DEFINE T == {{m} \X (1..Size[m]) : m \in S}
           f == [m \in S |-> {m} \X (1..Size[m])]
<1>1. IsFiniteSet(S)
  <2>1. IsFiniteSet(Msgs)
    BY LineAssumption, FS_Interval DEF Msgs
  <2>2. QED
    BY <2>1, FS_Subset
<1>2. IsFiniteSet(T)
  <2>1. f \in Surjection(S, T)
    BY Zenon DEF Surjection
  <2>2. QED
    BY <1>1, <2>1, FS_Surjection
<1>3. ASSUME NEW m \in S PROVE IsFiniteSet({m} \X (1..Size[m]))
  <2>1. Size[m] \in Nat
    BY LineAssumption DEF Msgs
  <2>2. IsFiniteSet(1..Size[m])
    BY <2>1, FS_Interval
  <2>3. QED
    BY <2>2, FS_Singleton, FS_Product
<1>4. IsFiniteSet(UNION T)
  <2>1. \A U \in T : IsFiniteSet(U)
    BY <1>3
  <2>2. QED
    BY <1>2, <2>1, FS_UNION
<1>5. QED
  BY <1>4, FS_CardinalityType DEF Bytes

\* No message, no bytes.
LEMMA BytesNone == Bytes({}) = 0
<1>1. UNION {{m} \X (1..Size[m]) : m \in {}} = {}
  OBVIOUS
<1>2. QED
  BY <1>1, FS_EmptySet DEF Bytes

\* One more message adds its size.
LEMMA BytesAdd ==
  ASSUME NEW S \in SUBSET Msgs, NEW m \in Msgs, m \notin S
  PROVE  Bytes(S \cup {m}) = Bytes(S) + Size[m]
<1> DEFINE U == UNION {{n} \X (1..Size[n]) : n \in S}
           V == {m} \X (1..Size[m])
           W == UNION {{n} \X (1..Size[n]) : n \in S \cup {m}}
<1>1. IsFiniteSet(U) /\ Bytes(S) = Cardinality(U) /\ Cardinality(U) \in Nat
  BY BytesNat DEF Bytes
<1>2. Size[m] \in Nat
  BY LineAssumption DEF Msgs
<1>3. IsFiniteSet(V) /\ Cardinality(V) = Size[m]
  <2>1. IsFiniteSet(1..Size[m]) /\ Cardinality(1..Size[m]) = Size[m]
    BY <1>2, FS_Interval
  <2>2. IsFiniteSet({m}) /\ Cardinality({m}) = 1
    BY FS_Singleton
  <2>3. IsFiniteSet(V) /\ Cardinality(V) = 1 * Size[m]
    BY <2>1, <2>2, FS_Product
  <2>4. QED
    BY <1>2, <2>3
<1>4. W = U \cup V
  OBVIOUS
<1>5. U \cap V = {}
  OBVIOUS
<1>6. Cardinality(U \cup V) = Cardinality(U) + Cardinality(V) - Cardinality(U \cap V)
  BY <1>1, <1>3, FS_Union
<1>7. Cardinality(U \cap V) = 0
  BY <1>5, FS_EmptySet
<1>8. Bytes(S \cup {m}) = Cardinality(W)
  BY DEF Bytes
<1> HIDE DEF U, V, W
<1>9. QED
  BY <1>1, <1>2, <1>3, <1>4, <1>6, <1>7, <1>8

-----------------------------------------------------------------------------
(* The queue *)

\* The elements of a sequence.
LEMMA InToSet ==
  ASSUME NEW S, NEW s \in Seq(S), NEW x
  PROVE  x \in ToSet(s) <=> \E i \in 1..Len(s) : x = s[i]
<1>1. DOMAIN s = 1..Len(s)
  OBVIOUS
<1>2. QED
  BY <1>1 DEF ToSet

\* The elements of a sequence with one more.
LEMMA ToSetAppend ==
  ASSUME NEW S, NEW s \in Seq(S), NEW e \in S
  PROVE  ToSet(Append(s, e)) = ToSet(s) \cup {e}
<1>1. /\ Len(s) \in Nat /\ Len(Append(s, e)) = Len(s) + 1
      /\ \A i \in 1..Len(s) : Append(s, e)[i] = s[i]
      /\ Append(s, e)[Len(s) + 1] = e
      /\ DOMAIN s = 1..Len(s) /\ DOMAIN Append(s, e) = 1..(Len(s) + 1)
  OBVIOUS
<1>2. QED
  BY <1>1 DEF ToSet

\* An increasing sequence stays so with something larger at its end.
LEMMA AppendIncreases ==
  ASSUME NEW s \in Seq(Nat), NEW e \in Nat,
         \A i, j \in 1..Len(s) : i < j => s[i] < s[j],
         \A i \in 1..Len(s) : s[i] < e
  PROVE  \A i, j \in 1..Len(Append(s, e)) : i < j => Append(s, e)[i] < Append(s, e)[j]
<1>1. /\ Len(s) \in Nat /\ Len(Append(s, e)) = Len(s) + 1
      /\ \A i \in 1..Len(s) : Append(s, e)[i] = s[i]
      /\ Append(s, e)[Len(s) + 1] = e
  OBVIOUS
<1>2. ASSUME NEW i \in 1..(Len(s) + 1), NEW j \in 1..(Len(s) + 1), i < j
      PROVE  Append(s, e)[i] < Append(s, e)[j]
  <2>1. i \in 1..Len(s) /\ (j \in 1..Len(s) \/ j = Len(s) + 1)
    BY <1>1, <1>2
  <2>2. QED
    BY <1>1, <1>2, <2>1
<1>3. QED
  BY <1>1, <1>2

\* The set of consecutive messages, and the oldest of them.
LEMMA ConsecutiveSet ==
  ASSUME NEW q \in Seq(Nat), NEW n \in Nat, Consecutive(q, n)
  PROVE  /\ n - Len(q) \in 1..n
         /\ ToSet(q) = (n - Len(q))..(n - 1)
         /\ q # <<>> => n - Len(q) < n /\ Head(q) = n - Len(q)
<1>1. Len(q) \in Nat /\ Len(q) < n
  BY DEF Consecutive
<1>2. ToSet(q) \subseteq (n - Len(q))..(n - 1)
  BY <1>1 DEF Consecutive, ToSet
<1>3. ASSUME NEW m \in (n - Len(q))..(n - 1) PROVE m \in ToSet(q)
  <2>1. m - (n - Len(q)) + 1 \in 1..Len(q)
    BY <1>1
  <2>2. q[m - (n - Len(q)) + 1] = m
    BY <1>1, <2>1 DEF Consecutive
  <2>3. QED
    BY <2>1, <2>2 DEF ToSet
<1>4. ASSUME q # <<>> PROVE n - Len(q) < n /\ Head(q) = n - Len(q)
  <2>1. Len(q) > 0 /\ Head(q) = q[1]
    BY <1>4
  <2>2. QED
    BY <1>1, <2>1 DEF Consecutive
<1>5. n - Len(q) \in 1..n
  BY <1>1
<1>6. QED
  BY <1>2, <1>3, <1>4, <1>5

\* They stay consecutive without the oldest one, and with the next one.
LEMMA ConsecutiveTail ==
  ASSUME NEW q \in Seq(Nat), NEW n \in Nat, Consecutive(q, n), q # <<>>
  PROVE  Consecutive(Tail(q), n) /\ n - Len(Tail(q)) = n - Len(q) + 1
<1>1. /\ Len(q) \in Nat \ {0} /\ Len(Tail(q)) = Len(q) - 1
      /\ \A i \in 1..(Len(q) - 1) : Tail(q)[i] = q[i + 1]
  OBVIOUS
<1>2. ASSUME NEW i \in 1..Len(Tail(q))
      PROVE  Tail(q)[i] = n - Len(Tail(q)) + i - 1
  <2>1. i + 1 \in 1..Len(q) /\ Tail(q)[i] = q[i + 1] /\ i \in Int
    BY <1>1
  <2>2. q[i + 1] = n - Len(q) + (i + 1) - 1
    BY <2>1 DEF Consecutive
  <2>3. QED
    BY <1>1, <2>1, <2>2
<1>3. Len(Tail(q)) < n /\ n - Len(Tail(q)) = n - Len(q) + 1
  BY <1>1 DEF Consecutive
<1>4. QED
  BY <1>2, <1>3 DEF Consecutive

\* The next message is consecutive.
LEMMA ConsecutiveAppend ==
  ASSUME NEW q \in Seq(Nat), NEW n \in Nat, Consecutive(q, n)
  PROVE  /\ Consecutive(Append(q, n), n + 1)
         /\ (n + 1) - Len(Append(q, n)) = n - Len(q)
<1>1. /\ Len(q) \in Nat /\ Len(Append(q, n)) = Len(q) + 1
      /\ \A i \in 1..Len(q) : Append(q, n)[i] = q[i]
      /\ Append(q, n)[Len(q) + 1] = n
  OBVIOUS
<1>2. ASSUME NEW i \in 1..(Len(q) + 1)
      PROVE  Append(q, n)[i] = (n + 1) - (Len(q) + 1) + i - 1
  <2>1. CASE i \in 1..Len(q)
    <3>1. q[i] = n - Len(q) + i - 1
      BY <2>1 DEF Consecutive
    <3>2. QED
      BY <1>1, <2>1, <3>1
  <2>2. CASE i = Len(q) + 1
    BY <1>1, <2>2
  <2>3. QED
    BY <1>1, <2>1, <2>2
<1>3. Len(q) + 1 < n + 1
  BY <1>1 DEF Consecutive
<1>4. QED
  BY <1>1, <1>2, <1>3 DEF Consecutive

\* The messages queued are the ones from the oldest to the last one sent.
LEMMA QueueSet ==
  ASSUME TypeOK, QueueInv
  PROVE  /\ next_msg \in Nat /\ write_queue \in Seq(Nat)
         /\ Oldest \in 1..next_msg
         /\ ToSet(write_queue) = Oldest..(next_msg - 1)
         /\ write_queue # <<>> => Oldest < next_msg /\ Head(write_queue) = Oldest /\ Oldest \in Msgs
<1>1. next_msg \in Nat /\ write_queue \in Seq(Nat)
  BY LineAssumption DEF TypeOK, Msgs
<1>2. write_queue # <<>> => Head(write_queue) \in Msgs
  BY DEF TypeOK
<1>3. QED
  BY <1>1, <1>2, ConsecutiveSet DEF QueueInv, Oldest

\* The messages queued, dropped and taken are messages.
LEMMA SetsOfMessages ==
  ASSUME TypeOK
  PROVE  ToSet(write_queue) \in SUBSET Msgs /\ dropped \in SUBSET Msgs
BY DEF TypeOK, ToSet

-----------------------------------------------------------------------------
(* The invariant is inductive *)

\* A transport that was not started satisfies the invariant.
LEMMA InitInv == Init => IInv
<1> SUFFICES ASSUME Init PROVE IInv
  OBVIOUS
<1>1. TypeOK
  <2>1. kind \in {"stdio", "pipe"} /\ mode \in {"single", "multi"}
    BY LineAssumption DEF Init
  <2>2. next_msg \in 1..(Len(Size) + 1)
    BY LineAssumption DEF Init
  <2>3. /\ write_queue \in Seq(Msgs) /\ bytes \in Nat /\ in_fwrite \in Seq(Msgs)
        /\ written \in Seq(Msgs) /\ dropped \in SUBSET Msgs
    BY DEF Init
  <2>4. QED
    BY <2>1, <2>2, <2>3 DEF Init, TypeOK
<1>2. QueueInv
  BY DEF Init, QueueInv, Consecutive
<1>3. TakenInv
  <2>1. Taken = <<>> /\ Oldest = 1 /\ dropped = {}
    BY DEF Init, Taken, Oldest
  <2>2. QED
    BY <2>1 DEF TakenInv, ToSet
<1>4. WriterInv /\ ListedInv /\ NoGhostConnection
  BY DEF Init, WriterInv, ListedInv, NoGhostConnection
<1>5. CountInv
  <2>1. ToSet(write_queue) = {} /\ dropped = {} /\ bytes = 0
    BY DEF Init, ToSet
  <2>2. QED
    BY <2>1, BytesNone DEF CountInv, QueuedBytes
<1>6. QED
  BY <1>1, <1>2, <1>3, <1>4, <1>5 DEF IInv

\* A step that leaves the queue, the writer's message and stdout alone keeps what
\* is said about them.
LEMMA OutputInv ==
  ASSUME QueueInv, TakenInv, CountInv,
         UNCHANGED <<next_msg, write_queue, bytes, in_fwrite, written, dropped>>
  PROVE  QueueInv' /\ TakenInv' /\ CountInv'
BY DEF QueueInv, Consecutive, TakenInv, CountInv, Taken, Oldest, QueuedBytes

\* start() of StdioTransport keeps the invariant.
LEMMA StartStdioInv ==
  ASSUME IInv, StartStdio
  PROVE  IInv'
<1> USE DEF IInv
<1>1. TypeOK'
  BY LineAssumption DEF TypeOK, StartStdio, Conns, Stdin
<1>2. QueueInv' /\ TakenInv' /\ CountInv'
  BY OutputInv DEF StartStdio
<1>3. WriterInv' /\ ListedInv' /\ NoGhostConnection'
  BY DEF StartStdio, WriterInv, ListedInv, NoGhostConnection
<1>4. QED
  BY <1>1, <1>2, <1>3

\* send_message of StdioTransport keeps the invariant: what it drops is the
\* oldest message, whose bytes stay in the count.
LEMMA SendInv ==
  ASSUME IInv, Send
  PROVE  IInv'
<1> USE DEF IInv
<1> DEFINE drops == bytes + Size[next_msg] > MaxBytes /\ write_queue # <<>>
           kept == IF drops THEN Tail(write_queue) ELSE write_queue
<1>1. /\ next_msg \in Msgs /\ next_msg' = next_msg + 1 /\ writer # "done"
      /\ write_queue' = Append(kept, next_msg) /\ bytes' = bytes + Size[next_msg]
      /\ dropped' = dropped \cup (ToSet(write_queue) \ ToSet(kept))
      /\ UNCHANGED <<in_fwrite, written>>
  BY DEF Send, Kept, WriterInv, TypeOK
<1>2. /\ next_msg \in Nat /\ Size[next_msg] \in Nat /\ Len(Size) \in Nat
      /\ next_msg <= Len(Size)
  BY <1>1, LineAssumption DEF Msgs
<1>3. write_queue \in Seq(Nat) /\ kept \in Seq(Msgs) /\ kept \in Seq(Nat)
  BY QueueSet DEF TypeOK
<1>4. /\ Consecutive(kept, next_msg)
      /\ next_msg - Len(kept) = IF drops THEN Oldest + 1 ELSE Oldest
  BY <1>2, <1>3, ConsecutiveTail DEF QueueInv, Oldest
<1> HIDE DEF kept
<1>5. Oldest' = IF drops THEN Oldest + 1 ELSE Oldest
  <2>1. next_msg' = next_msg + 1 /\ Len(write_queue') = Len(Append(kept, next_msg))
    BY <1>1
  <2>2. Oldest' = (next_msg + 1) - Len(Append(kept, next_msg))
    BY <2>1, Zenon DEF Oldest
  <2>3. QED
    BY <1>2, <1>3, <1>4, <2>2, ConsecutiveAppend
<1>6. QueueInv'
  BY <1>1, <1>2, <1>3, <1>4, ConsecutiveAppend DEF QueueInv
<1>7. /\ ToSet(kept) = (next_msg - Len(kept))..(next_msg - 1)
      /\ ToSet(write_queue') = Oldest'..next_msg
  <2>1. next_msg' \in Nat /\ write_queue' \in Seq(Nat) /\ next_msg' - 1 = next_msg
    BY <1>1, <1>2, <1>3
  <2>2. ToSet(write_queue') = Oldest'..(next_msg' - 1)
    BY <1>6, <2>1, ConsecutiveSet DEF QueueInv, Oldest
  <2>3. QED
    BY <1>2, <1>3, <1>4, <2>1, <2>2, ConsecutiveSet
<1>8. /\ Oldest \in 1..next_msg /\ ToSet(write_queue) = Oldest..(next_msg - 1)
      /\ drops => Oldest < next_msg /\ Oldest \in Msgs
  BY QueueSet
<1>9. dropped' = IF drops THEN dropped \cup {Oldest} ELSE dropped
  <2>1. CASE drops
    <3>1. ToSet(write_queue) \ ToSet(kept) = {Oldest}
      BY <1>2, <1>4, <1>7, <1>8, <2>1
    <3>2. QED
      BY <1>1, <2>1, <3>1
  <2>2. CASE ~drops
    <3>1. ToSet(write_queue) \ ToSet(kept) = {}
      BY <1>2, <1>4, <1>7, <1>8, <2>2
    <3>2. QED
      BY <1>1, <2>2, <3>1
  <2>3. QED
    BY <2>1, <2>2
<1>10. dropped' \in SUBSET Msgs
  BY <1>8, <1>9 DEF TypeOK
<1>11. TypeOK'
  <2>1. write_queue' \in Seq(Msgs) /\ bytes' \in Nat /\ next_msg' \in 1..(Len(Size) + 1)
    BY <1>1, <1>2, <1>3 DEF TypeOK
  <2>2. QED
    BY <1>10, <2>1 DEF TypeOK, Send, input
<1>12. TakenInv'
  <2>1. Taken' = Taken
    BY <1>1 DEF Taken
  <2>2. /\ dropped' \subseteq 1..(Oldest' - 1)
        /\ ToSet(Taken) = (1..(Oldest' - 1)) \ dropped'
    BY <1>2, <1>5, <1>8, <1>9 DEF TakenInv
  <2>3. QED
    BY <2>1, <2>2 DEF TakenInv
<1>13. CountInv'
  <2>1. ToSet(write_queue') = Oldest'..next_msg
    BY <1>7
  <2>2. /\ bytes = Bytes(ToSet(write_queue)) + Bytes(dropped)
        /\ ToSet(write_queue) \in SUBSET Msgs /\ dropped \in SUBSET Msgs
        /\ Bytes(dropped) \in Nat
    BY SetsOfMessages, BytesNat DEF CountInv, QueuedBytes
  <2>3. bytes' = bytes + Size[next_msg]
    BY <1>1
  <2>4. CASE drops
    <3> DEFINE rest == (Oldest + 1)..(next_msg - 1)
    <3>1. /\ ToSet(write_queue) = rest \cup {Oldest} /\ Oldest \notin rest
          /\ ToSet(write_queue') = rest \cup {next_msg} /\ next_msg \notin rest
          /\ rest \in SUBSET Msgs
      BY <1>2, <1>5, <1>8, <2>1, <2>2, <2>4
    <3>2. Oldest \notin dropped
      BY <1>8 DEF TakenInv
    <3> HIDE DEF rest
    <3>3. Bytes(ToSet(write_queue)) = Bytes(rest) + Size[Oldest] /\ Bytes(rest) \in Nat
      BY <1>8, <2>4, <3>1, BytesAdd, BytesNat
    <3>4. Bytes(ToSet(write_queue')) = Bytes(rest) + Size[next_msg]
      BY <1>1, <3>1, BytesAdd
    <3>5. Bytes(dropped') = Bytes(dropped) + Size[Oldest]
      BY <1>8, <1>9, <2>2, <2>4, <3>2, BytesAdd
    <3>6. Size[Oldest] \in Nat
      BY <1>8, <2>4, LineAssumption DEF Msgs
    <3>7. bytes = Bytes(rest) + Size[Oldest] + Bytes(dropped)
      BY <2>2, <3>3
    <3>8. bytes' = Bytes(rest) + Size[next_msg] + (Bytes(dropped) + Size[Oldest])
      <4>1. Size[next_msg] \in Nat /\ Bytes(rest) \in Nat /\ Bytes(dropped) \in Nat
        BY <1>2, <2>2, <3>3
      <4>2. QED
        BY <2>3, <3>6, <3>7, <4>1
    <3>9. bytes' = Bytes(ToSet(write_queue')) + Bytes(dropped')
      BY <3>4, <3>5, <3>8, Zenon
    <3>10. QED
      BY <3>9, Zenon DEF CountInv, QueuedBytes
  <2>5. CASE ~drops
    <3>1. ToSet(write_queue') = ToSet(write_queue) \cup {next_msg} /\ next_msg \notin ToSet(write_queue)
      BY <1>2, <1>5, <1>8, <2>1, <2>5
    <3>2. Bytes(ToSet(write_queue')) = Bytes(ToSet(write_queue)) + Size[next_msg]
      BY <1>1, <2>2, <3>1, BytesAdd
    <3>3. Bytes(ToSet(write_queue)) \in Nat /\ dropped' = dropped
      BY <1>9, <2>2, <2>5, BytesNat
    <3>4. bytes' = Bytes(ToSet(write_queue')) + Bytes(dropped')
      BY <1>2, <2>2, <2>3, <3>2, <3>3
    <3>5. QED
      BY <3>4, Zenon DEF CountInv, QueuedBytes
  <2>6. QED
    BY <2>4, <2>5
<1>14. WriterInv' /\ ListedInv' /\ NoGhostConnection'
  BY <1>1 DEF Send, input, WriterInv, ListedInv, NoGhostConnection
<1>15. QED
  BY <1>6, <1>11, <1>12, <1>13, <1>14

\* Taking the next message keeps the invariant: it is the oldest one, and it is
\* younger than everything taken before.
LEMMA WriterTakesInv ==
  ASSUME IInv, WriterTakes
  PROVE  IInv'
<1> USE DEF IInv
<1>1. /\ write_queue # <<>> /\ in_fwrite = <<>> /\ writer = "on"
      /\ write_queue' = Tail(write_queue) /\ in_fwrite' = <<Head(write_queue)>>
      /\ bytes' = bytes - Size[Head(write_queue)]
      /\ UNCHANGED <<next_msg, written, dropped>>
  BY DEF WriterTakes, Woken, MayLeave, Released
<1>2. /\ next_msg \in Nat /\ write_queue \in Seq(Nat) /\ Oldest \in 1..next_msg
      /\ ToSet(write_queue) = Oldest..(next_msg - 1)
      /\ Oldest < next_msg /\ Head(write_queue) = Oldest /\ Oldest \in Msgs
  BY <1>1, QueueSet
<1>3. Oldest' = Oldest + 1 /\ QueueInv'
  <2>1. next_msg - Len(Tail(write_queue)) = next_msg - Len(write_queue) + 1
    BY <1>1, <1>2, ConsecutiveTail DEF QueueInv
  <2>2. Consecutive(Tail(write_queue), next_msg)
    BY <1>1, <1>2, ConsecutiveTail DEF QueueInv
  <2>3. QED
    BY <1>1, <2>1, <2>2, Zenon DEF QueueInv, Oldest
<1>4. ToSet(write_queue') = (Oldest + 1)..(next_msg - 1)
  <2>1. Tail(write_queue) \in Seq(Nat) /\ Consecutive(Tail(write_queue), next_msg)
    BY <1>1, <1>2, ConsecutiveTail DEF QueueInv
  <2>2. ToSet(Tail(write_queue)) = (next_msg - Len(Tail(write_queue)))..(next_msg - 1)
    BY <1>2, <2>1, ConsecutiveSet
  <2>3. next_msg - Len(Tail(write_queue)) = Oldest + 1
    BY <1>1, <1>2, ConsecutiveTail DEF QueueInv, Oldest
  <2>4. QED
    BY <1>1, <2>2, <2>3
<1>5. TakenInv'
  <2>1. Taken \in Seq(Nat) /\ Taken' = Append(Taken, Oldest)
    <3>1. Taken = written /\ written \in Seq(Nat)
      BY <1>1, LineAssumption DEF Taken, TypeOK, Msgs
    <3>2. Taken' = written \o <<Oldest>>
      BY <1>1, <1>2, Zenon DEF Taken
    <3>3. QED
      BY <1>2, <3>1, <3>2
  <2>2. ToSet(Append(Taken, Oldest)) = ToSet(Taken) \cup {Oldest}
    BY <1>2, <2>1, ToSetAppend
  <2>3. /\ dropped' \subseteq 1..(Oldest' - 1)
        /\ ToSet(Taken') = (1..(Oldest' - 1)) \ dropped'
    <3>1. dropped' = dropped /\ Oldest' = Oldest + 1
      BY <1>1, <1>3
    <3>2. dropped \subseteq 1..Oldest /\ Oldest \notin dropped
      BY <1>2 DEF TakenInv
    <3>3. ToSet(Taken) \cup {Oldest} = (1..Oldest) \ dropped
      BY <1>2, <3>2 DEF TakenInv
    <3>4. Oldest' - 1 = Oldest
      BY <1>2, <3>1
    <3>5. QED
      BY <2>1, <2>2, <3>1, <3>2, <3>3, <3>4
  <2>4. \A i \in 1..Len(Taken) : Taken[i] < Oldest
    <3>1. ASSUME NEW i \in 1..Len(Taken) PROVE Taken[i] \in 1..(Oldest - 1)
      BY <2>1 DEF TakenInv, ToSet
    <3>2. QED
      BY <1>2, <3>1
  <2>5. \A i, j \in 1..Len(Taken') : i < j => Taken'[i] < Taken'[j]
    <3>1. /\ \A i, j \in 1..Len(Taken) : i < j => Taken[i] < Taken[j]
          /\ Taken \in Seq(Nat) /\ Oldest \in Nat
      BY <1>2, <2>1 DEF TakenInv
    <3>2. \A i, j \in 1..Len(Append(Taken, Oldest)) :
             i < j => Append(Taken, Oldest)[i] < Append(Taken, Oldest)[j]
      BY <2>4, <3>1, AppendIncreases
    <3>3. QED
      BY <2>1, <3>2
  <2>6. QED
    BY <2>3, <2>5 DEF TakenInv
<1>6. CountInv' /\ bytes' \in Nat
  <2> DEFINE rest == (Oldest + 1)..(next_msg - 1)
  <2>1. ToSet(write_queue) = rest \cup {Oldest} /\ Oldest \notin rest /\ rest \in SUBSET Msgs
    <3>1. ToSet(write_queue) \in SUBSET Msgs
      BY SetsOfMessages
    <3>2. QED
      BY <1>2, <3>1
  <2>2. ToSet(write_queue') = rest
    BY <1>4
  <2> HIDE DEF rest
  <2>3. Bytes(ToSet(write_queue)) = Bytes(rest) + Size[Oldest] /\ Bytes(rest) \in Nat
    BY <1>2, <2>1, BytesAdd, BytesNat
  <2>4. Size[Oldest] \in Nat /\ Bytes(dropped) \in Nat
    <3>1. Size[Oldest] \in Nat
      BY <1>2, LineAssumption DEF Msgs
    <3>2. QED
      BY <3>1, SetsOfMessages, BytesNat
  <2>5. bytes = Bytes(rest) + Size[Oldest] + Bytes(dropped)
    BY <2>3 DEF CountInv, QueuedBytes
  <2>6. bytes' = bytes - Size[Oldest]
    BY <1>1, <1>2
  <2>7. bytes' = Bytes(rest) + Bytes(dropped) /\ bytes' \in Nat
    BY <2>3, <2>4, <2>5, <2>6
  <2>8. dropped' = dropped
    BY <1>1
  <2>9. QED
    BY <2>2, <2>7, <2>8, Zenon DEF CountInv, QueuedBytes
<1>7. TypeOK'
  <2>1. write_queue' \in Seq(Msgs) /\ in_fwrite' \in Seq(Msgs)
    BY <1>1, <1>2 DEF TypeOK
  <2>2. QED
    BY <1>6, <2>1 DEF TypeOK, WriterTakes, input
<1>8. WriterInv' /\ ListedInv' /\ NoGhostConnection'
  BY <1>1 DEF WriterTakes, input, WriterInv, ListedInv, NoGhostConnection
<1>9. QED
  BY <1>3, <1>5, <1>6, <1>7, <1>8

\* When fwrite returns, the invariant holds: the message is counted as taken
\* before and after.
LEMMA WriterWritesInv ==
  ASSUME IInv, WriterWrites
  PROVE  IInv'
<1> USE DEF IInv
<1>1. /\ written' = written \o in_fwrite /\ in_fwrite' = <<>>
      /\ written \in Seq(Msgs) /\ in_fwrite \in Seq(Msgs)
  BY DEF WriterWrites, TypeOK
<1>2. Taken' = Taken
  <2>1. (written \o in_fwrite) \o <<>> = written \o in_fwrite
    BY <1>1
  <2>2. QED
    BY <1>1, <2>1, Zenon DEF Taken
<1>3. UNCHANGED <<next_msg, write_queue, bytes, dropped, kind, stop_pc, writer, stopping>>
  BY DEF WriterWrites
<1>4. QueueInv' /\ CountInv'
  BY <1>3 DEF QueueInv, Consecutive, CountInv, QueuedBytes
<1>5. TakenInv'
  BY <1>2, <1>3 DEF TakenInv, Oldest
<1>6. TypeOK'
  <2>1. written' \in Seq(Msgs) /\ in_fwrite' \in Seq(Msgs)
    BY <1>1
  <2>2. QED
    BY <2>1 DEF TypeOK, WriterWrites, input
<1>7. WriterInv' /\ ListedInv' /\ NoGhostConnection'
  BY <1>1, <1>3 DEF WriterWrites, input, WriterInv, ListedInv, NoGhostConnection
<1>8. QED
  BY <1>4, <1>5, <1>6, <1>7

\* The writer's leaving keeps the invariant: it leaves nothing in the queue.
LEMMA WriterLeavesInv ==
  ASSUME IInv, WriterLeaves
  PROVE  IInv'
<1> USE DEF IInv
<1>1. TypeOK'
  BY DEF TypeOK, WriterLeaves, input
<1>2. QueueInv' /\ TakenInv' /\ CountInv'
  BY OutputInv DEF WriterLeaves
<1>3. WriterInv' /\ ListedInv' /\ NoGhostConnection'
  BY DEF WriterLeaves, MayLeave, input, WriterInv, ListedInv, NoGhostConnection
<1>4. QED
  BY <1>1, <1>2, <1>3

-----------------------------------------------------------------------------
(* Connections *)

\* A step of the pipe or of a reader leaves the output side alone: it keeps the
\* invariant if it keeps what is said about connections.
LEMMA InputInv ==
  ASSUME IInv, UNCHANGED <<kind, mode, stop_pc, output>>, TypeOK', ListedInv',
         NoGhostConnection'
  PROVE  IInv'
<1>1. QueueInv' /\ TakenInv' /\ CountInv'
  BY OutputInv DEF IInv, output
<1>2. WriterInv'
  BY DEF IInv, WriterInv, output
<1>3. QED
  BY <1>1, <1>2 DEF IInv

\* start() of LocalPipeTransport, and a failed accept, keep the invariant.
LEMMA AcceptorInv ==
  ASSUME IInv, StartPipe \/ AcceptNothing
  PROVE  IInv'
<1>1. UNCHANGED <<kind, mode, stop_pc, output, pc, conn_active, listed, open, late>>
  BY DEF StartPipe, AcceptNothing
<1>2. TypeOK'
  BY DEF IInv, TypeOK, StartPipe, AcceptNothing, output
<1>3. ListedInv'
  BY <1>1 DEF IInv, ListedInv, StartPipe, AcceptNothing
<1>4. NoGhostConnection'
  BY <1>1 DEF IInv, NoGhostConnection
<1>5. QED
  BY <1>1, <1>2, <1>3, <1>4, InputInv

\* Accepting keeps the invariant: a connection is only accepted while the
\* transport runs, and then stop() is not done.
LEMMA AcceptInv ==
  ASSUME IInv, NEW c \in Conns, Accept(c)
  PROVE  IInv'
<1>1. UNCHANGED <<kind, mode, stop_pc, running, output, conn_active, listed, late>>
  BY DEF Accept
<1>2. TypeOK'
  BY DEF IInv, TypeOK, Accept, output
<1>3. ListedInv'
  BY <1>1 DEF IInv, TypeOK, ListedInv, Accept
<1>4. NoGhostConnection'
  BY <1>1 DEF IInv, ListedInv, NoGhostConnection, Accept
<1>5. QED
  BY <1>1, <1>2, <1>3, <1>4, InputInv

\* Registering keeps the invariant, also after stop() has emptied the list.
LEMMA RegisterInv ==
  ASSUME IInv, NEW c \in Conns, Register(c)
  PROVE  IInv'
<1>1. UNCHANGED <<kind, mode, stop_pc, running, output, conn_active, open, late>>
  BY DEF Register
<1>2. TypeOK'
  BY DEF IInv, TypeOK, Register, output
<1>3. ListedInv'
  BY <1>1 DEF IInv, TypeOK, ListedInv, Register
<1>4. NoGhostConnection'
  BY <1>1 DEF IInv, NoGhostConnection
<1>5. QED
  BY <1>1, <1>2, <1>3, <1>4, InputInv

\* A failed write and an overflow of a broadcast keep the invariant: the
\* connection is no longer active, whether or not it leaves the list.
LEMMA FailureInv ==
  ASSUME IInv, NEW c \in Conns, WriteFails(c) \/ BroadcastOverflows(c)
  PROVE  IInv'
<1>1. /\ UNCHANGED <<kind, mode, stop_pc, running, output, accepting, pc, open, late>>
      /\ conn_active' = [conn_active EXCEPT ![c] = FALSE]
      /\ listed \ {c} \subseteq listed' /\ listed' \subseteq listed
  BY DEF WriteFails, BroadcastOverflows, OnError
<1>2. TypeOK'
  BY <1>1 DEF IInv, TypeOK, output, WriteFails, BroadcastOverflows
<1>3. ListedInv'
  BY <1>1 DEF IInv, TypeOK, ListedInv
<1>4. NoGhostConnection'
  BY <1>1 DEF IInv, TypeOK, NoGhostConnection
<1>5. QED
  BY <1>1, <1>2, <1>3, <1>4, InputInv

\* A line that arrives or is handled keeps the invariant: a connection stops
\* reading only when it is not active.
LEMMA LineInv ==
  ASSUME IInv, NEW c \in Conns, LineArrives(c) \/ HandleLine(c)
  PROVE  IInv'
<1>1. UNCHANGED <<kind, mode, stop_pc, running, output, accepting, conn_active, listed, open,
                  wedged, late>>
  BY DEF LineArrives, HandleLine
<1>2. TypeOK'
  <2>1. pc' \in [Conns -> {"new", "accepted", "read", "line", "done"}]
    BY DEF IInv, TypeOK, LineArrives, HandleLine
  <2>2. QED
    BY <1>1, <2>1 DEF IInv, TypeOK, output
<1>3. ListedInv'
  BY <1>1 DEF IInv, TypeOK, ListedInv, LineArrives, HandleLine, Continues
<1>4. NoGhostConnection'
  BY <1>1 DEF IInv, NoGhostConnection
<1>5. QED
  BY <1>1, <1>2, <1>3, <1>4, InputInv

\* The end of a stream keeps the invariant.
LEMMA ReadFailsInv ==
  ASSUME IInv, NEW c \in Conns, ReadFails(c)
  PROVE  IInv'
<1>1. UNCHANGED <<kind, mode, stop_pc, output, accepting, open, wedged, late>>
  BY DEF ReadFails
<1>2. TypeOK'
  BY <1>1 DEF IInv, TypeOK, output, ReadFails, OnError
<1>3. /\ kind = "pipe" => /\ UNCHANGED running
                          /\ conn_active' = [conn_active EXCEPT ![c] = FALSE]
                          /\ listed \ {c} \subseteq listed'
      /\ pc' = [pc EXCEPT ![c] = "done"]
  BY DEF ReadFails, OnError
<1>4. ListedInv'
  BY <1>1, <1>3 DEF IInv, TypeOK, ListedInv
<1>5. NoGhostConnection'
  BY <1>1, <1>3 DEF IInv, TypeOK, NoGhostConnection
<1>6. QED
  BY <1>1, <1>2, <1>4, <1>5, InputInv

-----------------------------------------------------------------------------
(* stop() *)

\* The beginning of stop() keeps the invariant: it returns at once only from a
\* pipe that was never started.
LEMMA StopBeginsInv ==
  ASSUME IInv, StopBegins
  PROVE  IInv'
<1>1. UNCHANGED <<kind, mode, output, input>>
  BY DEF StopBegins
<1>2. TypeOK'
  BY <1>1 DEF IInv, TypeOK, output, input, StopBegins
<1>3. QueueInv' /\ TakenInv' /\ CountInv'
  BY <1>1, OutputInv DEF IInv, output
<1>4. WriterInv'
  BY <1>1 DEF IInv, WriterInv, output, StopBegins
<1>5. ListedInv'
  BY <1>1 DEF IInv, ListedInv, input, StopBegins
<1>6. NoGhostConnection'
  BY <1>1 DEF IInv, TypeOK, ListedInv, NoGhostConnection, input, StopBegins
<1>7. QED
  BY <1>2, <1>3, <1>4, <1>5, <1>6 DEF IInv

\* Closing the connections keeps the invariant: what stays open and active was
\* being accepted.
LEMMA StopClosesInv ==
  ASSUME IInv, StopCloses
  PROVE  IInv'
<1>1. UNCHANGED <<kind, mode, running, output, accepting, pc, wedged>>
  BY DEF StopCloses
<1>2. TypeOK'
  BY <1>1 DEF IInv, TypeOK, output, StopCloses, Closed
<1>3. QueueInv' /\ TakenInv' /\ CountInv'
  BY <1>1, OutputInv DEF IInv, output
<1>4. WriterInv'
  BY <1>1 DEF IInv, WriterInv, output, StopCloses
<1>5. ListedInv'
  BY <1>1 DEF IInv, TypeOK, ListedInv, StopCloses, Closed
<1>6. NoGhostConnection'
  BY <1>1 DEF IInv, TypeOK, ListedInv, NoGhostConnection, StopCloses, Closed
<1>7. QED
  BY <1>2, <1>3, <1>4, <1>5, <1>6 DEF IInv

\* Asking the writer to leave, and its join, keep the invariant.
LEMMA StopWriterInv ==
  ASSUME IInv, StopAsksWriter \/ StopJoins
  PROVE  IInv'
<1>1. /\ UNCHANGED <<kind, mode, running, next_msg, write_queue, bytes, writer, in_fwrite,
                     written, dropped>>
      /\ kind = "stdio"
  BY DEF IInv, WriterInv, StopAsksWriter, StopJoins, output
<1>2. TypeOK'
  BY <1>1 DEF IInv, TypeOK, output, input, StopAsksWriter, StopJoins
<1>3. QueueInv' /\ TakenInv' /\ CountInv'
  BY <1>1, OutputInv DEF IInv
<1>4. WriterInv'
  BY <1>1 DEF IInv, WriterInv, output, StopAsksWriter, StopJoins
<1>5. ListedInv' /\ NoGhostConnection'
  BY <1>1 DEF ListedInv, NoGhostConnection
<1>6. QED
  BY <1>2, <1>3, <1>4, <1>5 DEF IInv

-----------------------------------------------------------------------------
(* Theorems *)

\* Every step keeps the invariant.
LEMMA NextInv ==
  ASSUME IInv, [Next]_vars
  PROVE  IInv'
<1>1. CASE UNCHANGED vars
  <2>1. TypeOK' /\ ListedInv' /\ NoGhostConnection'
    BY <1>1 DEF vars, output, input, IInv, TypeOK, ListedInv, NoGhostConnection
  <2>2. QED
    BY <1>1, <2>1, InputInv DEF vars
<1>2. ASSUME NEW c \in Conns,
             \/ Accept(c) \/ Register(c) \/ WriteFails(c) \/ BroadcastOverflows(c)
             \/ LineArrives(c) \/ HandleLine(c) \/ ReadFails(c)
      PROVE  IInv'
  BY <1>2, AcceptInv, RegisterInv, FailureInv, LineInv, ReadFailsInv
<1>3. QED
  BY <1>1, <1>2, StartStdioInv, SendInv, WriterTakesInv, WriterWritesInv,
     WriterLeavesInv, AcceptorInv, StopBeginsInv, StopClosesInv, StopWriterInv
     DEF Next

\* The invariant of the line transports holds in every behaviour.
THEOREM Invariance == Spec => []IInv
BY InitInv, NextInv, PTL DEF Spec

\* write_queue_bytes_ never wraps and never falls short of what is queued.
THEOREM BytesAreCovered == Spec => []BytesCoverQueue
<1>1. ASSUME IInv PROVE BytesCoverQueue
  <2>1. QueuedBytes \in Nat /\ Bytes(dropped) \in Nat
    BY <1>1, SetsOfMessages, BytesNat DEF IInv, QueuedBytes
  <2>2. QED
    BY <1>1, <2>1 DEF IInv, CountInv, BytesCoverQueue
<1>2. QED
  BY <1>1, Invariance, PTL

\* What StdioTransport queues and does not drop reaches stdout in the order it was
\* queued, all of it before the stop() of a started transport returns.
THEOREM StdoutKeepsOrder == Spec => []StdoutInOrder
<1>1. ASSUME IInv PROVE StdoutInOrder
  <2> DEFINE out == Taken \o write_queue
  <2>1. /\ next_msg \in Nat /\ write_queue \in Seq(Nat) /\ Oldest \in 1..next_msg
        /\ ToSet(write_queue) = Oldest..(next_msg - 1)
    BY <1>1, QueueSet DEF IInv
  <2>2. Taken \in Seq(Nat) /\ written \in Seq(Nat) /\ in_fwrite \in Seq(Nat)
    BY <1>1, LineAssumption DEF IInv, TypeOK, Taken, Msgs
  <2>3. /\ Len(out) = Len(Taken) + Len(write_queue)
        /\ Len(Taken) \in Nat /\ Len(write_queue) \in Nat
        /\ \A i \in 1..Len(Taken) : out[i] = Taken[i]
        /\ \A i \in 1..Len(write_queue) : out[Len(Taken) + i] = write_queue[i]
        /\ DOMAIN out = 1..Len(out)
    BY <2>1, <2>2
  <2>4. out = written \o in_fwrite \o write_queue
    BY DEF Taken
  <2> HIDE DEF out
  <2>5. ASSUME NEW i \in 1..Len(out), i \notin 1..Len(Taken)
        PROVE  i - Len(Taken) \in 1..Len(write_queue) /\ out[i] = write_queue[i - Len(Taken)]
    <3>1. i - Len(Taken) \in 1..Len(write_queue) /\ i = Len(Taken) + (i - Len(Taken))
      BY <2>3, <2>5
    <3>2. QED
      BY <2>3, <3>1
  <2>6. ASSUME NEW i \in 1..Len(Taken) PROVE Taken[i] \in (1..(Oldest - 1)) \ dropped
    BY <1>1, <2>2, <2>6 DEF IInv, TakenInv, ToSet
  <2>7. ASSUME NEW i \in 1..Len(write_queue) PROVE write_queue[i] \in Oldest..(next_msg - 1)
    BY <2>1, <2>7 DEF ToSet
  <2>8. \A d \in dropped, m \in ToSet(write_queue) : d < m
    BY <1>1, <2>1 DEF IInv, TakenInv
  <2>9. ToSet(out) = (1..(next_msg - 1)) \ dropped
    <3>1. ToSet(out) = ToSet(Taken) \cup ToSet(write_queue)
      <4>1. ToSet(out) \subseteq ToSet(Taken) \cup ToSet(write_queue)
        <5>1. SUFFICES ASSUME NEW i \in 1..Len(out)
                       PROVE  out[i] \in ToSet(Taken) \cup ToSet(write_queue)
          BY <2>3 DEF ToSet
        <5>2. CASE i \in 1..Len(Taken)
          BY <2>2, <2>3, <5>2, InToSet
        <5>3. CASE i \notin 1..Len(Taken)
          BY <2>1, <2>5, <5>1, <5>3, InToSet
        <5>4. QED
          BY <5>2, <5>3
      <4>2. ASSUME NEW i \in 1..Len(Taken) PROVE Taken[i] \in ToSet(out)
        BY <2>3, <4>2 DEF ToSet
      <4>3. ASSUME NEW i \in 1..Len(write_queue) PROVE write_queue[i] \in ToSet(out)
        <5>1. Len(Taken) + i \in 1..Len(out)
          BY <2>3, <4>3
        <5>2. QED
          BY <2>3, <4>3, <5>1 DEF ToSet
      <4>4. QED
        <5>1. ToSet(Taken) \subseteq ToSet(out)
          BY <2>2, <4>2, InToSet
        <5>2. ToSet(write_queue) \subseteq ToSet(out)
          <6>1. SUFFICES ASSUME NEW m \in ToSet(write_queue) PROVE m \in ToSet(out)
            OBVIOUS
          <6>2. PICK i \in 1..Len(write_queue) : m = write_queue[i]
            <7>1. write_queue \in Seq(Nat)
              BY <2>1
            <7>2. QED
              BY <6>1, <7>1, InToSet
          <6>3. QED
            BY <4>3, <6>2
        <5>3. QED
          BY <4>1, <5>1, <5>2
    <3>2. QED
      BY <1>1, <2>1, <3>1 DEF IInv, TakenInv
  <2>10. ASSUME NEW i \in 1..Len(out), NEW j \in 1..Len(out), i < j
        PROVE  out[i] < out[j]
    <3>1. CASE j \in 1..Len(Taken)
      <4>1. i \in 1..Len(Taken)
        BY <2>3, <2>10, <3>1
      <4>2. Taken[i] < Taken[j]
        BY <1>1, <2>10, <3>1, <4>1 DEF IInv, TakenInv
      <4>3. QED
        BY <2>3, <3>1, <4>1, <4>2
    <3>2. CASE i \in 1..Len(Taken) /\ j \notin 1..Len(Taken)
      <4>1. out[i] \in 1..(Oldest - 1)
        BY <2>3, <2>6, <3>2
      <4>2. out[j] \in Oldest..(next_msg - 1)
        BY <2>5, <2>7, <2>10, <3>2
      <4>3. QED
        BY <2>1, <4>1, <4>2
    <3>3. CASE i \notin 1..Len(Taken) /\ j \notin 1..Len(Taken)
      <4>1. /\ i - Len(Taken) \in 1..Len(write_queue) /\ out[i] = write_queue[i - Len(Taken)]
            /\ j - Len(Taken) \in 1..Len(write_queue) /\ out[j] = write_queue[j - Len(Taken)]
        BY <2>5, <2>10, <3>3
      <4>2. /\ write_queue[i - Len(Taken)] = next_msg - Len(write_queue) + (i - Len(Taken)) - 1
            /\ write_queue[j - Len(Taken)] = next_msg - Len(write_queue) + (j - Len(Taken)) - 1
        BY <1>1, <4>1 DEF IInv, QueueInv, Consecutive
      <4>3. i \in Int /\ j \in Int
        OBVIOUS
      <4>4. QED
        BY <2>1, <2>3, <2>10, <4>1, <4>2, <4>3
    <3>4. QED
      BY <3>1, <3>2, <3>3
  <2>11. stop_pc = "done" /\ writer # "off" => written = out
    <3>1. SUFFICES ASSUME stop_pc = "done", writer # "off" PROVE written = out
      OBVIOUS
    <3>2. write_queue = <<>> /\ in_fwrite = <<>>
      BY <1>1, <3>1 DEF IInv, WriterInv, TypeOK
    <3>3. QED
      BY <2>2, <2>4, <3>2
  <2>12. QED
    BY <2>4, <2>8, <2>9, <2>10, <2>11 DEF StdoutInOrder
<1>2. QED
  BY <1>1, Invariance, PTL

\* After LocalPipeTransport::stop only a connection that was being accepted when
\* the list was emptied is live.
THEOREM NoGhostAfterStop == Spec => []NoGhostConnection
<1>1. IInv => NoGhostConnection
  BY DEF IInv
<1>2. QED
  BY <1>1, Invariance, PTL

=============================================================================
