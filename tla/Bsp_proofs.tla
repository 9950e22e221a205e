----------------------------- MODULE Bsp_proofs -----------------------------
(***************************************************************************)
(* The barrier of Bsp, for every number of nodes and of messages.          *)
(*                                                                         *)
(* The argument is about Net, the set of all messages on their way.        *)
(* Links deliver in order (Ordered), so what a node has told the control   *)
(* node and what is still to come of it fit together (Base); therefore the *)
(* counters of the control node are exact but for the notices still on     *)
(* their way, and it never counts more waiting nodes than it will see      *)
(* waiting (IInv); and so, when they say that nothing can come any more,   *)
(* nothing can (Quiet).                                                    *)
(***************************************************************************)
EXTENDS Bsp, FiniteSetTheorems, TLAPS

-----------------------------------------------------------------------------
(* Streams and buffers *)

\* The types of the streams s, of the buffers b and of what was written, w.
Typed(s, b, w) ==
  s \in [Links -> Seq(Messages)] /\ b \in [Nodes -> Seq(Messages)] /\ w \in [Links -> Nat]
\* What a stream holds was written on its link.
StreamOf(s, w) == \A l \in Links : \A k \in 1..Len(s[l]) :
  s[l][k].sender_id = l[1] /\ s[l][k].receiver_id = l[2] /\ s[l][k].num \in 1..w[l]
StreamSorted(s) == \A l \in Links : \A j, k \in 1..Len(s[l]) :
  j < k => s[l][j].num < s[l][k].num
\* What a buffer holds was written to its node by another.
BufferOf(b, w) == \A i \in Nodes : \A k \in 1..Len(b[i]) :
  /\ b[i][k].sender_id # i /\ b[i][k].receiver_id = i
  /\ b[i][k].num \in 1..w[<<b[i][k].sender_id, i>>]
\* A buffer is sorted by epoch and, of one sender, in the order of writing.
BufferSorted(b) == \A i \in Nodes : \A j, k \in 1..Len(b[i]) : j < k =>
  /\ b[i][j].epoch <= b[i][k].epoch
  /\ b[i][j].sender_id = b[i][k].sender_id =>
       /\ b[i][j].num # b[i][k].num
       /\ b[i][j].epoch = b[i][k].epoch => b[i][j].num < b[i][k].num
\* What the read thread moved was written before what it has not moved.
BufferFirst(s, b) == \A l \in Links : \A j \in 1..Len(b[l[2]]), k \in 1..Len(s[l]) :
  b[l[2]][j].sender_id = l[1] => b[l[2]][j].num < s[l][k].num
\* Each link delivers what was written on it, once and in order.
Ordered(s, b, w) ==
  /\ Typed(s, b, w) /\ StreamOf(s, w) /\ StreamSorted(s) /\ BufferOf(b, w)
  /\ BufferSorted(b) /\ BufferFirst(s, b)

\* The messages on their way.
Flow(s, b) == {m \in Messages :
  \/ \E l \in Links : \E k \in 1..Len(s[l]) : s[l][k] = m
  \/ \E i \in Nodes : \E k \in 1..Len(b[i]) : b[i][k] = m}

\* Links and nodes.
LEMMA LinkFacts ==
  /\ \A l \in Links : l[1] \in Nodes /\ l[2] \in Nodes /\ l[1] # l[2] /\ l = <<l[1], l[2]>>
  /\ \A i, j \in Nodes : i # j => <<i, j>> \in Links
  /\ \A i, j : <<i, j>>[1] = i /\ <<i, j>>[2] = j
  /\ 0 \in Nodes /\ Nodes \subseteq Nat /\ \A i \in Workers : i \in Nodes /\ i # 0
  BY BspAssumption DEF Links, Nodes, Workers

\* The fields of a message.
LEMMA MessageFacts ==
  ASSUME NEW l \in Links, NEW type \in Types, NEW e \in Nat, NEW n \in Nat
  PROVE  /\ Message(l, type, e, n) \in Messages
         /\ Message(l, type, e, n).msg_type = type
         /\ Message(l, type, e, n).sender_id = l[1]
         /\ Message(l, type, e, n).receiver_id = l[2]
         /\ Message(l, type, e, n).epoch = e
         /\ Message(l, type, e, n).num = n
  BY LinkFacts DEF Message, Messages

\* A sequence without its first element.
LEMMA HeadTail ==
  ASSUME NEW S, NEW q \in Seq(S), q # <<>>
  PROVE  /\ Len(q) \in Nat \ {0} /\ 1 \in 1..Len(q) /\ Head(q) = q[1] /\ q[1] \in S
         /\ Tail(q) \in Seq(S) /\ Len(Tail(q)) = Len(q) - 1
         /\ \A k \in 1..Len(Tail(q)) : k + 1 \in 1..Len(q) /\ k + 1 > 1 /\ Tail(q)[k] = q[k + 1]
         /\ \A k \in 1..Len(q) : k > 1 => k - 1 \in 1..Len(Tail(q)) /\ Tail(q)[k - 1] = q[k]
<1>1. Len(q) \in Nat \ {0} /\ 1 \in 1..Len(q) /\ Head(q) = q[1] /\ q[1] \in S
  OBVIOUS
<1>2. Tail(q) \in Seq(S) /\ Len(Tail(q)) = Len(q) - 1
  OBVIOUS
<1>3. \A k \in 1..Len(q)-1 : Tail(q)[k] = q[k + 1]
  OBVIOUS
<1> QED BY <1>1, <1>2, <1>3

\* Writing a message on each link of L keeps the order.
LEMMA WriteOrdered ==
  ASSUME NEW s, NEW b, NEW w, Ordered(s, b, w), NEW L, L \subseteq Links,
         NEW type \in Types, NEW e \in Nat
  PROVE  Ordered(Written(s, w, L, type, e), b, Counted(w, L))
<1> DEFINE t == Written(s, w, L, type, e)
           v == Counted(w, L)
           m(l) == Message(l, type, e, w[l] + 1)
<1>t. /\ s \in [Links -> Seq(Messages)] /\ b \in [Nodes -> Seq(Messages)] /\ w \in [Links -> Nat]
  BY DEF Ordered, Typed
<1>m. \A l \in Links : /\ m(l) \in Messages /\ m(l).sender_id = l[1] /\ m(l).receiver_id = l[2]
                       /\ m(l).num = w[l] + 1
  <2> TAKE l \in Links
  <2>1. w[l] + 1 \in Nat
    BY <1>t
  <2>2. ASSUME NEW n, n \in Nat
        PROVE  /\ Message(l, type, e, n) \in Messages /\ Message(l, type, e, n).sender_id = l[1]
               /\ Message(l, type, e, n).receiver_id = l[2] /\ Message(l, type, e, n).num = n
    BY <2>2, MessageFacts
  <2> QED BY <2>1, <2>2
<1> HIDE DEF m
<1>v. v \in [Links -> Nat] /\ \A l \in Links : v[l] = IF l \in L THEN w[l] + 1 ELSE w[l]
  BY <1>t DEF Counted
<1>s. t \in [Links -> Seq(Messages)] /\ \A l \in Links : t[l] = IF l \in L THEN Append(s[l], m(l)) ELSE s[l]
  BY <1>t, <1>m DEF Written, m
<1>k. \A l \in Links : \A k \in 1..Len(t[l]) :
        \/ k \in 1..Len(s[l]) /\ t[l][k] = s[l][k]
        \/ l \in L /\ k = Len(s[l]) + 1 /\ t[l][k] = m(l)
  BY <1>t, <1>s, <1>m
<1> HIDE DEF t, v
<1>1. \A l \in Links : \A k \in 1..Len(t[l]) :
       t[l][k].sender_id = l[1] /\ t[l][k].receiver_id = l[2] /\ t[l][k].num \in 1..v[l]
  <2> TAKE l \in Links
  <2> TAKE k \in 1..Len(t[l])
  <2>1. w[l] \in Nat /\ v[l] \in Nat /\ w[l] <= v[l] /\ (l \in L => v[l] = w[l] + 1)
    BY <1>t, <1>v
  <2>2. CASE k \in 1..Len(s[l]) /\ t[l][k] = s[l][k]
    <3>1. s[l][k].sender_id = l[1] /\ s[l][k].receiver_id = l[2] /\ s[l][k].num \in 1..w[l]
      BY <2>2 DEF Ordered, StreamOf
    <3> QED BY <3>1, <2>1, <2>2
  <2>3. CASE l \in L /\ t[l][k] = m(l)
    BY <2>1, <2>3, <1>m
  <2> QED BY <1>k, <2>2, <2>3
<1>2. \A l \in Links : \A j, k \in 1..Len(t[l]) : j < k => t[l][j].num < t[l][k].num
  <2> TAKE l \in Links
  <2> TAKE j, k \in 1..Len(t[l])
  <2> HAVE j < k
  <2>1. Len(s[l]) \in Nat /\ w[l] \in Nat
    BY <1>t
  <2>2. j \in 1..Len(s[l]) /\ t[l][j] = s[l][j] /\ s[l][j].num \in 1..w[l]
    <3>1. j \in 1..Len(s[l]) /\ t[l][j] = s[l][j]
      BY <1>k, <2>1
    <3> QED BY <3>1 DEF Ordered, StreamOf
  <2>3. CASE k \in 1..Len(s[l]) /\ t[l][k] = s[l][k]
    BY <2>2, <2>3 DEF Ordered, StreamSorted
  <2>4. CASE t[l][k] = m(l)
    BY <2>1, <2>2, <2>4, <1>m
  <2> QED BY <1>k, <2>3, <2>4
<1>3. BufferOf(b, v)
  <2> SUFFICES \A i \in Nodes : \A k \in 1..Len(b[i]) :
       /\ b[i][k].sender_id # i /\ b[i][k].receiver_id = i
       /\ b[i][k].num \in 1..v[<<b[i][k].sender_id, i>>]
    BY DEF BufferOf
  <2> TAKE i \in Nodes
  <2> TAKE k \in 1..Len(b[i])
  <2> DEFINE l == <<b[i][k].sender_id, i>>
  <2>1. b[i][k] \in Messages
    BY <1>t
  <2>2. b[i][k].sender_id \in Nodes
    BY <2>1 DEF Messages
  <2>3. /\ b[i][k].sender_id # i /\ b[i][k].receiver_id = i
        /\ b[i][k].num \in 1..w[l]
    BY DEF Ordered, BufferOf
  <2>4. l \in Links
    BY <2>2, <2>3, LinkFacts
  <2> HIDE DEF l
  <2>5. b[i][k].num \in 1..v[l]
    <3>1. w[l] \in Nat
      BY <2>4, <1>t
    <3>2. v[l] = IF l \in L THEN w[l] + 1 ELSE w[l]
      BY <2>4, <1>v
    <3> QED BY <2>3, <3>1, <3>2
  <2> QED BY <2>3, <2>5 DEF l
<1>5. \A l \in Links : \A j \in 1..Len(b[l[2]]), k \in 1..Len(t[l]) :
       b[l[2]][j].sender_id = l[1] => b[l[2]][j].num < t[l][k].num
  <2> TAKE l \in Links
  <2> TAKE j \in 1..Len(b[l[2]]), k \in 1..Len(t[l])
  <2> HAVE b[l[2]][j].sender_id = l[1]
  <2>1. b[l[2]][j].num \in 1..w[l]
    <3>1. l[2] \in Nodes /\ <<l[1], l[2]>> = l
      BY LinkFacts
    <3>2. b[l[2]][j].num \in 1..w[<<b[l[2]][j].sender_id, l[2]>>]
      BY <3>1 DEF Ordered, BufferOf
    <3> QED BY <3>1, <3>2
  <2>2. CASE k \in 1..Len(s[l]) /\ t[l][k] = s[l][k]
    BY <2>2 DEF Ordered, BufferFirst
  <2>3. CASE t[l][k] = m(l)
    BY <2>1, <2>3, <1>m, <1>t
  <2> QED BY <1>k, <2>2, <2>3
<1> QED BY <1>t, <1>s, <1>v, <1>1, <1>2, <1>3, <1>5 DEF Ordered, Typed, StreamOf, StreamSorted, BufferFirst, t, v

\* It adds these messages to those on their way.
LEMMA WriteFlow ==
  ASSUME NEW s, NEW b, NEW w, Ordered(s, b, w), NEW L, L \subseteq Links,
         NEW type \in Types, NEW e \in Nat
  PROVE  Flow(Written(s, w, L, type, e), b)
           = Flow(s, b) \cup {Message(l, type, e, w[l] + 1) : l \in L}
<1> DEFINE t == Written(s, w, L, type, e)
           m(l) == Message(l, type, e, w[l] + 1)
<1>t. s \in [Links -> Seq(Messages)] /\ w \in [Links -> Nat]
  BY DEF Ordered, Typed
<1>m. \A l \in Links : m(l) \in Messages
  <2> TAKE l \in Links
  <2>1. w[l] + 1 \in Nat
    BY <1>t
  <2>2. ASSUME NEW n, n \in Nat
        PROVE  /\ Message(l, type, e, n) \in Messages /\ Message(l, type, e, n).sender_id = l[1]
               /\ Message(l, type, e, n).receiver_id = l[2] /\ Message(l, type, e, n).num = n
    BY <2>2, MessageFacts
  <2> QED BY <2>1, <2>2
<1> HIDE DEF m
<1>s. t \in [Links -> Seq(Messages)] /\ \A l \in Links : t[l] = IF l \in L THEN Append(s[l], m(l)) ELSE s[l]
  BY <1>t, <1>m DEF Written, m
<1> HIDE DEF t
<1>k. \A l \in Links : \A k \in 1..Len(t[l]) :
        \/ k \in 1..Len(s[l]) /\ t[l][k] = s[l][k]
        \/ l \in L /\ t[l][k] = m(l)
  BY <1>t, <1>s, <1>m
<1>n. \A l \in Links : \A k \in 1..Len(s[l]) : k \in 1..Len(t[l]) /\ t[l][k] = s[l][k]
  <2> TAKE l \in Links
  <2>1. /\ t[l] = s[l] \/ t[l] = Append(s[l], m(l))
        /\ s[l] \in Seq(Messages) /\ m(l) \in Messages
    BY <1>t, <1>s, <1>m
  <2> QED BY <2>1
<1>p. \A l \in L : Len(s[l]) + 1 \in 1..Len(t[l]) /\ t[l][Len(s[l]) + 1] = m(l)
  <2> TAKE l \in L
  <2>1. l \in Links
    OBVIOUS
  <2>2. t[l] = Append(s[l], m(l)) /\ s[l] \in Seq(Messages) /\ m(l) \in Messages
    BY <2>1, <1>t, <1>s, <1>m
  <2> QED BY <2>2
<1>1. Flow(t, b) = Flow(s, b) \cup {m(l) : l \in L}
  BY <1>k, <1>n, <1>p, <1>m DEF Flow
<1> QED BY <1>1 DEF t, m

\* Taking the first entry of a buffer keeps the order.
LEMMA PopOrdered ==
  ASSUME NEW s, NEW b, NEW w, Ordered(s, b, w), NEW i \in Nodes, b[i] # <<>>,
         NEW c, c = [b EXCEPT ![i] = Tail(b[i])]
  PROVE  Ordered(s, c, w)
<1>t. Typed(s, b, w)
  BY DEF Ordered
<1>c. Typed(s, c, w) /\ \A j \in Nodes : c[j] = IF j = i THEN Tail(b[i]) ELSE b[j]
  BY <1>t DEF Typed
<1> DEFINE at(j, x) == IF j = i THEN x + 1 ELSE x
<1>k. \A j \in Nodes : \A x \in 1..Len(c[j]) : at(j, x) \in 1..Len(b[j]) /\ c[j][x] = b[j][at(j, x)]
  <2> TAKE j \in Nodes
  <2> TAKE x \in 1..Len(c[j])
  <2> DEFINE q == b[j]
  <2>1. q \in Seq(Messages) /\ c[j] \in Seq(Messages)
    BY <1>t, <1>c DEF Typed
  <2>2. CASE j = i
    <3>1. c[j] = Tail(q) /\ q # <<>>
      BY <1>c, <2>2
    <3> DEFINE h == x + 1
    <3>2. h \in 1..Len(q) /\ Tail(q)[x] = q[h]
      <4> HIDE DEF q
      <4> QED BY <2>1, <3>1, HeadTail
    <3>3. at(j, x) = h
      BY <2>2
    <3> HIDE DEF h, at
    <3> QED BY <3>1, <3>2, <3>3
  <2>3. CASE j # i
    <3>1. c[j] = b[j]
      BY <1>c, <2>3
    <3> QED BY <3>1, <2>3
  <2> QED BY <2>2, <2>3
<1>l. \A j \in Nodes : \A x, y \in 1..Len(c[j]) : x < y => at(j, x) < at(j, y)
  OBVIOUS
<1> HIDE DEF at
<1>1. BufferOf(c, w)
  <2> SUFFICES ASSUME NEW j \in Nodes, NEW x \in 1..Len(c[j])
               PROVE  /\ c[j][x].sender_id # j /\ c[j][x].receiver_id = j
                      /\ c[j][x].num \in 1..w[<<c[j][x].sender_id, j>>]
    BY DEF BufferOf
  <2> DEFINE h == at(j, x)
  <2>1. h \in 1..Len(b[j]) /\ c[j][x] = b[j][h]
    BY <1>k
  <2> HIDE DEF h
  <2>2. /\ b[j][h].sender_id # j /\ b[j][h].receiver_id = j
        /\ b[j][h].num \in 1..w[<<b[j][h].sender_id, j>>]
    BY <2>1 DEF Ordered, BufferOf
  <2> QED BY <2>1, <2>2
<1>2. BufferSorted(c)
  <2> SUFFICES ASSUME NEW j \in Nodes, NEW x \in 1..Len(c[j]), NEW y \in 1..Len(c[j]), x < y
               PROVE  /\ c[j][x].epoch <= c[j][y].epoch
                      /\ c[j][x].sender_id = c[j][y].sender_id =>
                           /\ c[j][x].num # c[j][y].num
                           /\ c[j][x].epoch = c[j][y].epoch => c[j][x].num < c[j][y].num
    BY DEF BufferSorted
  <2> DEFINE h == at(j, x)
             k == at(j, y)
  <2>1. h \in 1..Len(b[j]) /\ k \in 1..Len(b[j]) /\ c[j][x] = b[j][h] /\ c[j][y] = b[j][k] /\ h < k
    BY <1>k, <1>l
  <2> HIDE DEF h, k
  <2>2. /\ b[j][h].epoch <= b[j][k].epoch
        /\ b[j][h].sender_id = b[j][k].sender_id =>
             /\ b[j][h].num # b[j][k].num
             /\ b[j][h].epoch = b[j][k].epoch => b[j][h].num < b[j][k].num
    BY <2>1 DEF Ordered, BufferSorted
  <2> QED BY <2>1, <2>2
<1>3. BufferFirst(s, c)
  <2> SUFFICES ASSUME NEW l \in Links, NEW x \in 1..Len(c[l[2]]), NEW k \in 1..Len(s[l])
               PROVE  c[l[2]][x].sender_id = l[1] => c[l[2]][x].num < s[l][k].num
    BY DEF BufferFirst
  <2>1. l[2] \in Nodes
    BY LinkFacts
  <2> DEFINE h == at(l[2], x)
  <2>2. h \in 1..Len(b[l[2]]) /\ c[l[2]][x] = b[l[2]][h]
    BY <2>1, <1>k
  <2> HIDE DEF h
  <2> QED BY <2>2 DEF Ordered, BufferFirst
<1> QED BY <1>c, <1>1, <1>2, <1>3 DEF Ordered

\* Node i takes m from its buffer, which leaves the buffers c.
Pops(b, i, c, m) == b[i] # <<>> /\ c = [b EXCEPT ![i] = Tail(b[i])] /\ m = Head(b[i])

\* The entry leaves the messages on their way; what the same node wrote before
\* and is still on its way belongs to a later epoch.
LEMMA PopFlow ==
  ASSUME NEW s, NEW b, NEW w, Ordered(s, b, w), NEW i \in Nodes,
         NEW c, NEW m, Pops(b, i, c, m)
  PROVE  /\ m \in Flow(s, b) /\ m.receiver_id = i
         /\ Flow(s, c) = Flow(s, b) \ {m}
         /\ \A x \in Flow(s, b) :
              x.receiver_id = i /\ x.sender_id = m.sender_id /\ x.num < m.num => x.epoch > m.epoch
         /\ m.num = w[<<m.sender_id, i>>] => s[<<m.sender_id, i>>] = <<>>
<1>t. /\ s \in [Links -> Seq(Messages)] /\ b \in [Nodes -> Seq(Messages)] /\ w \in [Links -> Nat]
  BY DEF Ordered, Typed
<1>b. /\ b[i] \in Seq(Messages) /\ Len(b[i]) \in Nat \ {0} /\ 1 \in 1..Len(b[i]) /\ m = b[i][1]
      /\ m \in Messages
  <2>1. b[i] \in Seq(Messages)
    BY <1>t
  <2> QED BY <2>1, HeadTail DEF Pops
<1>c. \A j \in Nodes : c[j] = IF j = i THEN Tail(b[i]) ELSE b[j]
  BY <1>t DEF Pops
<1>h. b[i] \in Seq(Messages) /\ c[i] = Tail(b[i])
  BY <1>b, <1>c
<1>f. \A k \in 1..Len(b[i]) : k > 1 => \E h \in 1..Len(c[i]) : c[i][h] = b[i][k]
  <2> TAKE k \in 1..Len(b[i])
  <2> HAVE k > 1
  <2> DEFINE q == b[i]
             h == k - 1
  <2>1. h \in 1..Len(Tail(q)) /\ Tail(q)[h] = q[k]
    <3>1. q \in Seq(Messages) /\ q # <<>> /\ k \in 1..Len(q) /\ k > 1
      BY <1>h
    <3> HIDE DEF q
    <3> QED BY <3>1, HeadTail
  <2> HIDE DEF h
  <2> QED BY <2>1, <1>h
<1>g. \A k \in 1..Len(c[i]) : \E h \in 1..Len(b[i]) : h > 1 /\ c[i][k] = b[i][h]
  <2> TAKE k \in 1..Len(c[i])
  <2> DEFINE q == b[i]
             h == k + 1
  <2>1. h \in 1..Len(q) /\ h > 1 /\ Tail(q)[k] = q[h]
    <3>1. q \in Seq(Messages) /\ q # <<>> /\ k \in 1..Len(Tail(q))
      BY <1>h
    <3> HIDE DEF q
    <3> QED BY <3>1, HeadTail
  <2> HIDE DEF h
  <2> QED BY <2>1, <1>h
<1>1. m \in Flow(s, b) /\ m.receiver_id = i /\ m.sender_id # i /\ m.sender_id \in Nodes
  <2>1. m \in Flow(s, b)
    BY <1>b DEF Flow
  <2>2. m.receiver_id = i /\ m.sender_id # i
    <3>1. /\ b[i][1].sender_id # i /\ b[i][1].receiver_id = i
      BY <1>b DEF Ordered, BufferOf
    <3> QED BY <3>1, <1>b
  <2> QED BY <2>1, <2>2, <1>b DEF Messages
<1>l. <<m.sender_id, i>> \in Links
  BY <1>1, LinkFacts
<1>w. \A k \in 1..Len(b[i]) : k > 1 =>
       /\ m.epoch <= b[i][k].epoch
       /\ m.sender_id = b[i][k].sender_id =>
            /\ m.num # b[i][k].num
            /\ m.epoch = b[i][k].epoch => m.num < b[i][k].num
  BY <1>b DEF Ordered, BufferSorted
<1>z. \A k \in 1..Len(b[i]) : k > 1 => b[i][k] # m
  <2> TAKE k \in 1..Len(b[i])
  <2>1. m.num \in Nat /\ (b[i][k] = m => m.num = b[i][k].num /\ m.epoch = b[i][k].epoch)
    BY <1>b DEF Messages
  <2> QED BY <2>1, <1>w
<1>s. \A k \in 1..Len(s[<<m.sender_id, i>>]) : m.num < s[<<m.sender_id, i>>][k].num
  <2> DEFINE l == <<m.sender_id, i>>
  <2>1. l \in Links /\ l[1] = m.sender_id /\ l[2] = i
    BY <1>l
  <2> HIDE DEF l
  <2>2. \A k \in 1..Len(s[l]) : b[i][1].num < s[l][k].num
    BY <2>1, <1>b DEF Ordered, BufferFirst
  <2> QED BY <2>2, <1>b DEF l
<1>n. \A x \in Flow(s, b) :
        \/ \E l \in Links : \E k \in 1..Len(s[l]) : s[l][k] = x
        \/ \E j \in Nodes : \E k \in 1..Len(b[j]) : b[j][k] = x
  BY DEF Flow
<1>x. \A l \in Links : \A k \in 1..Len(s[l]) : s[l][k] # m /\ (s[l][k].receiver_id = i /\ s[l][k].sender_id = m.sender_id => m.num < s[l][k].num)
  <2> TAKE l \in Links
  <2> TAKE k \in 1..Len(s[l])
  <2>1. s[l][k].sender_id = l[1] /\ s[l][k].receiver_id = l[2] /\ s[l][k] \in Messages
    BY <1>t DEF Ordered, StreamOf
  <2>2. CASE l = <<m.sender_id, i>>
    <3>1. m.num < s[l][k].num /\ m.num \in Nat /\ s[l][k].num \in Nat
      BY <2>2, <1>s, <1>b, <2>1 DEF Messages
    <3> QED BY <3>1
  <2>3. CASE l # <<m.sender_id, i>>
    BY <2>3, <2>1, <1>1, LinkFacts
  <2> QED BY <2>2, <2>3
<1>y. \A j \in Nodes : \A k \in 1..Len(b[j]) :
         \/ b[j][k] = m
         \/ j # i /\ b[j][k].receiver_id # i
         \/ j = i /\ k > 1 /\ b[j][k] # m /\ (b[j][k].sender_id = m.sender_id =>
              m.num # b[j][k].num /\ (b[j][k].num < m.num => b[j][k].epoch > m.epoch))
  <2> TAKE j \in Nodes
  <2> TAKE k \in 1..Len(b[j])
  <2>0. b[j][k] \in Messages /\ b[j][k].receiver_id = j
    <3>1. b[j] \in Seq(Messages)
      BY <1>t
    <3>2. b[j][k].receiver_id = j
      BY DEF Ordered, BufferOf
    <3> QED BY <3>1, <3>2
  <2>1. CASE j # i
    BY <2>0, <2>1
  <2>2. CASE j = i /\ k = 1
    BY <2>2, <1>b
  <2>3. CASE j = i /\ k > 1
    <3>1. /\ m.epoch <= b[j][k].epoch
          /\ m.sender_id = b[j][k].sender_id =>
              /\ m.num # b[j][k].num
              /\ m.epoch = b[j][k].epoch => m.num < b[j][k].num
      BY <1>w, <2>3
    <3>2. m.epoch \in Nat /\ m.num \in Nat /\ b[j][k].epoch \in Nat /\ b[j][k].num \in Nat
      BY <1>b, <2>0 DEF Messages
    <3> QED BY <3>1, <3>2, <2>3
  <2> QED BY <2>1, <2>2, <2>3, <1>b
<1>2. ASSUME NEW x \in Flow(s, b), x.receiver_id = i, x.sender_id = m.sender_id
      PROVE  /\ x.num < m.num => x.epoch > m.epoch
             /\ x # m => x.num # m.num
  <2>1. CASE \E l \in Links : \E k \in 1..Len(s[l]) : s[l][k] = x
    <3>1. m.num < x.num
      BY <1>x, <1>2, <2>1
    <3>2. x.num \in Nat /\ m.num \in Nat
      BY <1>b DEF Flow, Messages
    <3> QED BY <3>1, <3>2
  <2>2. CASE \E j \in Nodes : \E k \in 1..Len(b[j]) : b[j][k] = x
    <3>1. x.num \in Nat /\ m.num \in Nat
      BY <1>b DEF Flow, Messages
    <3> QED BY <1>y, <1>2, <2>2, <3>1
  <2> QED BY <2>1, <2>2, <1>n
<1>3. Flow(s, c) = Flow(s, b) \ {m}
  <2>1. ASSUME NEW x \in Flow(s, c)
        PROVE  x \in Flow(s, b) /\ x # m
    <3>1. CASE \E l \in Links : \E k \in 1..Len(s[l]) : s[l][k] = x
      BY <3>1, <1>x DEF Flow
    <3>2. CASE \E j \in Nodes : \E k \in 1..Len(c[j]) : c[j][k] = x
      <4>1. PICK j \in Nodes : \E k \in 1..Len(c[j]) : c[j][k] = x
        BY <3>2
      <4>2. PICK k \in 1..Len(c[j]) : c[j][k] = x
        BY <4>1
      <4>3. CASE j = i
        <5>1. PICK h \in 1..Len(b[i]) : h > 1 /\ b[i][h] = x
          BY <4>2, <4>3, <1>g
        <5>2. x # m
          BY <5>1, <1>z
        <5> QED BY <5>1, <5>2, <2>1 DEF Flow
      <4>4. CASE j # i
        <5>1. c[j] = b[j]
          BY <4>4, <1>c
        <5>2. x.receiver_id # i
          BY <5>1, <4>2, <4>4, <1>t DEF Ordered, BufferOf
        <5> QED BY <5>1, <5>2, <4>2, <1>1, <2>1 DEF Flow
      <4> QED BY <4>3, <4>4
    <3> QED BY <2>1, <3>1, <3>2 DEF Flow
  <2>2. ASSUME NEW x \in Flow(s, b), x # m
        PROVE  x \in Flow(s, c)
    <3>1. CASE \E l \in Links : \E k \in 1..Len(s[l]) : s[l][k] = x
      BY <3>1, <2>2 DEF Flow
    <3>2. CASE \E j \in Nodes : \E k \in 1..Len(b[j]) : b[j][k] = x
      <4>1. PICK j \in Nodes : \E k \in 1..Len(b[j]) : b[j][k] = x
        BY <3>2
      <4>2. PICK k \in 1..Len(b[j]) : b[j][k] = x
        BY <4>1
      <4>3. CASE j = i
        <5>1. k > 1
          BY <4>2, <4>3, <1>b, <2>2
        <5>2. \E h \in 1..Len(c[j]) : c[j][h] = x
          BY <5>1, <4>2, <4>3, <1>f
        <5> QED BY <5>2, <2>2 DEF Flow
      <4>4. CASE j # i
        <5>1. c[j] = b[j]
          BY <4>4, <1>c
        <5> QED BY <5>1, <4>2, <2>2 DEF Flow
      <4> QED BY <4>3, <4>4
    <3> QED BY <1>n, <3>1, <3>2
  <2> QED BY <2>1, <2>2
<1>4. m.num = w[<<m.sender_id, i>>] => s[<<m.sender_id, i>>] = <<>>
  <2> DEFINE l == <<m.sender_id, i>>
  <2> SUFFICES ASSUME m.num = w[l], s[l] # <<>> PROVE FALSE
    OBVIOUS
  <2>1. l \in Links /\ s[l] \in Seq(Messages) /\ w[l] \in Nat
    BY <1>l, <1>t
  <2> HIDE DEF l
  <2>2. 1 \in 1..Len(s[l])
    BY <2>1
  <2>3. s[l][1].num \in 1..w[l]
    BY <2>1, <2>2 DEF Ordered, StreamOf
  <2>4. m.num < s[l][1].num
    BY <2>2, <1>s DEF l
  <2> QED BY <2>1, <2>3, <2>4
<1> QED BY <1>1, <1>2, <1>3, <1>4

\* Where the entries of a buffer are once m was put behind the first n.
LEMMA PushedFacts ==
  ASSUME NEW q \in Seq(Messages), NEW m \in Messages, NEW n \in 0..Len(q)
  PROVE  /\ Pushed(q, m, n) \in Seq(Messages) /\ Len(Pushed(q, m, n)) = Len(q) + 1
         /\ \A k \in 1..Len(q)+1 :
              \/ k <= n /\ k \in 1..Len(q) /\ Pushed(q, m, n)[k] = q[k]
              \/ k = n + 1 /\ Pushed(q, m, n)[k] = m
              \/ k > n + 1 /\ k - 1 \in 1..Len(q) /\ Pushed(q, m, n)[k] = q[k - 1]
         /\ \A k \in 1..Len(q) : IF k <= n THEN k \in 1..Len(q)+1 /\ Pushed(q, m, n)[k] = q[k]
                                 ELSE k + 1 \in 1..Len(q)+1 /\ Pushed(q, m, n)[k + 1] = q[k]
         /\ n + 1 \in 1..Len(q)+1 /\ Pushed(q, m, n)[n + 1] = m
<1> DEFINE p == Pushed(q, m, n)
<1>l. Len(q) \in Nat /\ n \in Nat
  OBVIOUS
<1>1. \A k \in 1..Len(q)+1 : p[k] = IF k <= n THEN q[k] ELSE IF k = n + 1 THEN m ELSE q[k - 1]
  BY DEF Pushed
<1>2. \A k \in 1..Len(q)+1 :
              \/ k <= n /\ k \in 1..Len(q) /\ p[k] = q[k]
              \/ k = n + 1 /\ p[k] = m
              \/ k > n + 1 /\ k - 1 \in 1..Len(q) /\ p[k] = q[k - 1]
  <2> HIDE DEF p
  <2> QED BY <1>l, <1>1
<1>3. p \in Seq(Messages) /\ Len(p) = Len(q) + 1
  <2>1. \A k \in 1..Len(q)+1 : p[k] \in Messages
    <3> HIDE DEF p
    <3> QED BY <1>2
  <2>2. p \in [1..Len(q)+1 -> Messages]
    <3>1. p = [k \in 1..Len(q)+1 |-> p[k]]
      BY DEF Pushed
    <3> HIDE DEF p
    <3> QED BY <3>1, <2>1
  <2> HIDE DEF p
  <2>3. Len(q) + 1 \in Nat
    BY <1>l
  <2> QED BY <2>2, <2>3
<1>4. \A k \in 1..Len(q) : IF k <= n THEN k \in 1..Len(q)+1 /\ p[k] = q[k]
                           ELSE k + 1 \in 1..Len(q)+1 /\ p[k + 1] = q[k]
  <2> TAKE k \in 1..Len(q)
  <2> HIDE DEF p
  <2>1. CASE k <= n
    BY <2>1, <1>l, <1>1
  <2>2. CASE k > n
    <3> DEFINE h == k + 1
    <3>1. h \in 1..Len(q)+1 /\ h > n + 1 /\ h - 1 = k
      BY <2>2, <1>l
    <3> HIDE DEF h
    <3>2. p[h] = q[h - 1]
      BY <3>1, <1>2
    <3> QED BY <3>1, <3>2, <2>2 DEF h
  <2> QED BY <2>1, <2>2, <1>l
<1>5. n + 1 \in 1..Len(q)+1 /\ p[n + 1] = m
  <2> HIDE DEF p
  <2> QED BY <1>l, <1>1
<1> QED BY <1>2, <1>3, <1>4, <1>5

\* A read thread moves the first message of stream l behind n entries.
Moved(s, b, l, n, t, c) ==
  /\ s[l] # <<>> /\ n \in 0..Len(b[l[2]]) /\ Ahead(b[l[2]], Head(s[l]), n)
  /\ t = [s EXCEPT ![l] = Tail(s[l])]
  /\ c = [b EXCEPT ![l[2]] = Pushed(b[l[2]], Head(s[l]), n)]

\* Where streams and buffers have their entries after that.
LEMMA MovedFacts ==
  ASSUME NEW s, NEW b, NEW w, Ordered(s, b, w), NEW l \in Links, NEW n, NEW t, NEW c,
         Moved(s, b, l, n, t, c), NEW m, m = Head(s[l])
  PROVE  /\ Typed(t, c, w) /\ m \in Messages /\ m.sender_id = l[1] /\ m.receiver_id = l[2]
         /\ m.num \in 1..w[l] /\ n \in Nat
         /\ \A x \in 1..Len(b[l[2]]) :
              /\ x <= n <=> b[l[2]][x].epoch <= m.epoch
              /\ b[l[2]][x].sender_id = l[1] => b[l[2]][x].num < m.num
         /\ 1 \in 1..Len(s[l]) /\ s[l][1] = m
         /\ \A h \in Links : \A k \in 1..Len(t[h]) : \E j \in 1..Len(s[h]) :
              t[h][k] = s[h][j] /\ (h = l => j = k + 1) /\ (h # l => j = k)
         /\ \A h \in Links : \A k \in 1..Len(s[h]) :
              (h = l /\ s[h][k] = m) \/ \E j \in 1..Len(t[h]) : t[h][j] = s[h][k]
         /\ \A i \in Nodes : \A k \in 1..Len(c[i]) :
              \/ /\ i = l[2] => k <= n
                 /\ k \in 1..Len(b[i]) /\ c[i][k] = b[i][k]
              \/ i = l[2] /\ k = n + 1 /\ c[i][k] = m
              \/ i = l[2] /\ k > n + 1 /\ k - 1 \in 1..Len(b[i]) /\ c[i][k] = b[i][k - 1]
         /\ \A i \in Nodes : \A k \in 1..Len(b[i]) : \E j \in 1..Len(c[i]) : c[i][j] = b[i][k]
         /\ \E j \in 1..Len(c[l[2]]) : c[l[2]][j] = m
<1>t. Typed(s, b, w)
  BY DEF Ordered
<1>l. l[1] \in Nodes /\ l[2] \in Nodes /\ l[1] # l[2] /\ l = <<l[1], l[2]>>
  BY LinkFacts
<1> DEFINE q == b[l[2]]
           r == s[l]
           p == Pushed(q, m, n)
<1>q. q \in Seq(Messages) /\ r \in Seq(Messages) /\ r # <<>> /\ n \in 0..Len(q) /\ m = Head(r)
  BY <1>t, <1>l DEF Typed, Moved
<1>r. /\ Len(r) \in Nat \ {0} /\ 1 \in 1..Len(r) /\ m = r[1] /\ m \in Messages
      /\ Tail(r) \in Seq(Messages)
      /\ \A k \in 1..Len(Tail(r)) : k + 1 \in 1..Len(r) /\ Tail(r)[k] = r[k + 1]
      /\ \A k \in 1..Len(r) : k > 1 => k - 1 \in 1..Len(Tail(r)) /\ Tail(r)[k - 1] = r[k]
  <2> HIDE DEF r
  <2> QED BY <1>q, HeadTail
<1>p. /\ p \in Seq(Messages) /\ Len(p) = Len(q) + 1
      /\ \A k \in 1..Len(q)+1 :
           \/ k <= n /\ k \in 1..Len(q) /\ p[k] = q[k]
           \/ k = n + 1 /\ p[k] = m
           \/ k > n + 1 /\ k - 1 \in 1..Len(q) /\ p[k] = q[k - 1]
      /\ \A k \in 1..Len(q) : IF k <= n THEN k \in 1..Len(q)+1 /\ p[k] = q[k]
                              ELSE k + 1 \in 1..Len(q)+1 /\ p[k + 1] = q[k]
      /\ n + 1 \in 1..Len(q)+1 /\ p[n + 1] = m
  <2>1. q \in Seq(Messages) /\ m \in Messages /\ n \in 0..Len(q)
    BY <1>q, <1>r
  <2> HIDE DEF q, r
  <2> QED BY ONLY <2>1, PushedFacts, Zenon
<1>1. /\ t \in [Links -> Seq(Messages)] /\ t[l] = Tail(r)
      /\ \A h \in Links : h # l => t[h] = s[h]
  BY <1>t, <1>r DEF Typed, Moved
<1>2. /\ c \in [Nodes -> Seq(Messages)] /\ c[l[2]] = p
      /\ \A i \in Nodes : i # l[2] => c[i] = b[i]
  BY <1>t, <1>p, <1>l DEF Typed, Moved
<1> HIDE DEF p
<1>3. Typed(t, c, w)
  BY <1>t, <1>1, <1>2 DEF Typed
<1>4. m.sender_id = l[1] /\ m.receiver_id = l[2] /\ m.num \in 1..w[l]
  BY <1>r DEF Ordered, StreamOf
<1>5. \A x \in 1..Len(q) : /\ x <= n <=> q[x].epoch <= m.epoch
                           /\ q[x].sender_id = l[1] => q[x].num < m.num
  <2> TAKE x \in 1..Len(q)
  <2>1. x <= n <=> q[x].epoch <= m.epoch
    <3>1. x \in DOMAIN q
      BY <1>q
    <3> QED BY <3>1 DEF Moved, Ahead
  <2>2. q[x].sender_id = l[1] => q[x].num < m.num
    BY <1>r DEF Ordered, BufferFirst
  <2> QED BY <2>1, <2>2
<1>6. \A h \in Links : \A k \in 1..Len(t[h]) : \E j \in 1..Len(s[h]) :
        t[h][k] = s[h][j] /\ (h = l => j = k + 1) /\ (h # l => j = k)
  <2> TAKE h \in Links
  <2> TAKE k \in 1..Len(t[h])
  <2>1. CASE h = l
    <3> DEFINE j == k + 1
    <3>1. j \in 1..Len(s[h]) /\ t[h][k] = s[h][j] /\ j = k + 1
      <4>1. k \in 1..Len(Tail(r)) /\ t[h] = Tail(r) /\ s[h] = r
        BY <2>1, <1>1
      <4> HIDE DEF r
      <4> QED BY <4>1, <1>r
    <3> HIDE DEF j
    <3> QED BY <3>1, <2>1
  <2>2. CASE h # l
    BY <2>2, <1>1
  <2> QED BY <2>1, <2>2
<1>7. \A h \in Links : \A k \in 1..Len(s[h]) :
        (h = l /\ s[h][k] = m) \/ \E j \in 1..Len(t[h]) : t[h][j] = s[h][k]
  <2> TAKE h \in Links
  <2> TAKE k \in 1..Len(s[h])
  <2>1. CASE h = l /\ k = 1
    BY <2>1, <1>r
  <2>2. CASE h = l /\ k > 1
    <3> DEFINE j == k - 1
    <3>1. j \in 1..Len(t[h]) /\ t[h][j] = s[h][k]
      <4>1. k \in 1..Len(r) /\ t[h] = Tail(r) /\ s[h] = r
        BY <2>2, <1>1
      <4> HIDE DEF r
      <4> QED BY <4>1, <1>r, <2>2
    <3> HIDE DEF j
    <3> QED BY <3>1
  <2>3. CASE h # l
    BY <2>3, <1>1
  <2>4. k = 1 \/ k > 1
    <3>1. Len(s[h]) \in Nat
      BY <1>t DEF Typed
    <3> QED BY <3>1
  <2> QED BY <2>1, <2>2, <2>3, <2>4
<1>8. \A i \in Nodes : \A k \in 1..Len(c[i]) :
        \/ /\ i = l[2] => k <= n
           /\ k \in 1..Len(b[i]) /\ c[i][k] = b[i][k]
        \/ i = l[2] /\ k = n + 1 /\ c[i][k] = m
        \/ i = l[2] /\ k > n + 1 /\ k - 1 \in 1..Len(b[i]) /\ c[i][k] = b[i][k - 1]
  <2> TAKE i \in Nodes
  <2> TAKE k \in 1..Len(c[i])
  <2>1. CASE i = l[2]
    <3>1. k \in 1..Len(q)+1 /\ c[i] = p /\ b[i] = q
      BY <2>1, <1>2, <1>p
    <3>2. \/ k <= n /\ k \in 1..Len(q) /\ p[k] = q[k]
          \/ k = n + 1 /\ p[k] = m
          \/ k > n + 1 /\ k - 1 \in 1..Len(q) /\ p[k] = q[k - 1]
      <4> HIDE DEF q
      <4> QED BY <3>1, <1>p
    <3> HIDE DEF q
    <3> QED BY <3>1, <3>2, <2>1
  <2>2. CASE i # l[2]
    BY <2>2, <1>2
  <2> QED BY <2>1, <2>2
<1>9. \A i \in Nodes : \A k \in 1..Len(b[i]) : \E j \in 1..Len(c[i]) : c[i][j] = b[i][k]
  <2> TAKE i \in Nodes
  <2> TAKE k \in 1..Len(b[i])
  <2>1. CASE i = l[2]
    <3>1. c[i] = p /\ b[i] = q /\ k \in 1..Len(q)
      BY <2>1, <1>2
    <3> DEFINE j == IF k <= n THEN k ELSE k + 1
    <3>2. j \in 1..Len(p) /\ p[j] = q[k]
      <4> HIDE DEF q
      <4> QED BY <3>1, <1>p
    <3> HIDE DEF j, q
    <3> QED BY <3>1, <3>2
  <2>2. CASE i # l[2]
    BY <2>2, <1>2
  <2> QED BY <2>1, <2>2
<1>10. \E j \in 1..Len(c[l[2]]) : c[l[2]][j] = m
  <2> HIDE DEF q
  <2> QED BY <1>p, <1>2
<1>11. n \in Nat
  BY <1>q
<1> QED BY <1>3, <1>4, <1>5, <1>6, <1>7, <1>8, <1>9, <1>10, <1>11, <1>r

\* Moving a message keeps the order.
LEMMA MoveOrdered ==
  ASSUME NEW s, NEW b, NEW w, Ordered(s, b, w), NEW l \in Links, NEW n, NEW t, NEW c,
         Moved(s, b, l, n, t, c)
  PROVE  Ordered(t, c, w)
<1> DEFINE m == Head(s[l])
<1>f. /\ Typed(t, c, w) /\ m \in Messages /\ m.sender_id = l[1] /\ m.receiver_id = l[2]
      /\ m.num \in 1..w[l] /\ n \in Nat
      /\ \A x \in 1..Len(b[l[2]]) :
              /\ x <= n <=> b[l[2]][x].epoch <= m.epoch
              /\ b[l[2]][x].sender_id = l[1] => b[l[2]][x].num < m.num
      /\ 1 \in 1..Len(s[l]) /\ s[l][1] = m
  <2> HIDE DEF m
  <2>1. m = Head(s[l])
    BY DEF m
  <2> QED BY <2>1, MovedFacts
<1>s. \A h \in Links : \A k \in 1..Len(t[h]) : \E j \in 1..Len(s[h]) :
        t[h][k] = s[h][j] /\ (h = l => j = k + 1) /\ (h # l => j = k)
  BY MovedFacts
<1>b. \A i \in Nodes : \A k \in 1..Len(c[i]) :
              \/ /\ i = l[2] => k <= n
                 /\ k \in 1..Len(b[i]) /\ c[i][k] = b[i][k]
              \/ i = l[2] /\ k = n + 1 /\ c[i][k] = m
              \/ i = l[2] /\ k > n + 1 /\ k - 1 \in 1..Len(b[i]) /\ c[i][k] = b[i][k - 1]
  BY MovedFacts
<1>l. l[1] \in Nodes /\ l[2] \in Nodes /\ l[1] # l[2] /\ l = <<l[1], l[2]>>
  BY LinkFacts
<1>t. Typed(s, b, w)
  BY DEF Ordered
<1> HIDE DEF m
<1>1. StreamOf(t, w)
  <2> SUFFICES ASSUME NEW h \in Links, NEW k \in 1..Len(t[h])
               PROVE  t[h][k].sender_id = h[1] /\ t[h][k].receiver_id = h[2] /\ t[h][k].num \in 1..w[h]
    BY DEF StreamOf
  <2>1. PICK j \in 1..Len(s[h]) : t[h][k] = s[h][j]
    BY <1>s
  <2>2. s[h][j].sender_id = h[1] /\ s[h][j].receiver_id = h[2] /\ s[h][j].num \in 1..w[h]
    BY DEF Ordered, StreamOf
  <2> QED BY <2>1, <2>2
<1>2. StreamSorted(t)
  <2> SUFFICES ASSUME NEW h \in Links, NEW j \in 1..Len(t[h]), NEW k \in 1..Len(t[h]), j < k
               PROVE  t[h][j].num < t[h][k].num
    BY DEF StreamSorted
  <2>1. PICK x \in 1..Len(s[h]) : t[h][j] = s[h][x] /\ (h = l => x = j + 1) /\ (h # l => x = j)
    BY <1>s
  <2>2. PICK y \in 1..Len(s[h]) : t[h][k] = s[h][y] /\ (h = l => y = k + 1) /\ (h # l => y = k)
    BY <1>s
  <2>3. x < y
    BY <2>1, <2>2
  <2> QED BY <2>1, <2>2, <2>3 DEF Ordered, StreamSorted
<1>e. \A i \in Nodes : \A k \in 1..Len(c[i]) :
        \/ \E h \in 1..Len(b[i]) : c[i][k] = b[i][h]
        \/ i = l[2] /\ c[i][k] = m
  <2> TAKE i \in Nodes
  <2> TAKE k \in 1..Len(c[i])
  <2>1. CASE i = l[2] /\ k > n + 1 /\ k - 1 \in 1..Len(b[i]) /\ c[i][k] = b[i][k - 1]
    <3> DEFINE h == k - 1
    <3>1. h \in 1..Len(b[i]) /\ c[i][k] = b[i][h]
      BY <2>1
    <3> HIDE DEF h
    <3> QED BY <3>1
  <2> QED BY <1>b, <2>1
<1>3. BufferOf(c, w)
  <2> SUFFICES ASSUME NEW i \in Nodes, NEW k \in 1..Len(c[i])
               PROVE  /\ c[i][k].sender_id # i /\ c[i][k].receiver_id = i
                      /\ c[i][k].num \in 1..w[<<c[i][k].sender_id, i>>]
    BY DEF BufferOf
  <2>1. CASE \E h \in 1..Len(b[i]) : c[i][k] = b[i][h]
    <3>1. PICK h \in 1..Len(b[i]) : c[i][k] = b[i][h]
      BY <2>1
    <3>2. /\ b[i][h].sender_id # i /\ b[i][h].receiver_id = i
          /\ b[i][h].num \in 1..w[<<b[i][h].sender_id, i>>]
      BY DEF Ordered, BufferOf
    <3> QED BY <3>1, <3>2
  <2>2. CASE i = l[2] /\ c[i][k] = m
    BY <2>2, <1>f, <1>l
  <2> QED BY <1>e, <2>1, <2>2
<1>4. BufferSorted(c)
  <2> SUFFICES ASSUME NEW i \in Nodes, NEW x \in 1..Len(c[i]), NEW y \in 1..Len(c[i]), x < y
               PROVE  /\ c[i][x].epoch <= c[i][y].epoch
                      /\ c[i][x].sender_id = c[i][y].sender_id =>
                           /\ c[i][x].num # c[i][y].num
                           /\ c[i][x].epoch = c[i][y].epoch => c[i][x].num < c[i][y].num
    BY DEF BufferSorted
  <2>n. Len(b[i]) \in Nat /\ Len(c[i]) \in Nat /\ n \in Nat
    BY <1>t, <1>f DEF Typed
  <2>1. CASE \E j, k \in 1..Len(b[i]) : j < k /\ c[i][x] = b[i][j] /\ c[i][y] = b[i][k]
    <3>1. PICK j, k \in 1..Len(b[i]) : j < k /\ c[i][x] = b[i][j] /\ c[i][y] = b[i][k]
      BY <2>1
    <3>2. /\ b[i][j].epoch <= b[i][k].epoch
          /\ b[i][j].sender_id = b[i][k].sender_id =>
               /\ b[i][j].num # b[i][k].num
               /\ b[i][j].epoch = b[i][k].epoch => b[i][j].num < b[i][k].num
      BY <3>1 DEF Ordered, BufferSorted
    <3> QED BY <3>1, <3>2
  <2>2. CASE i = l[2] /\ c[i][x] = m /\ \E k \in 1..Len(b[i]) : k > n /\ c[i][y] = b[i][k]
    <3>1. PICK k \in 1..Len(b[i]) : k > n /\ c[i][y] = b[i][k]
      BY <2>2
    <3>2. ~(b[i][k].epoch <= m.epoch) /\ (b[i][k].sender_id = l[1] => b[i][k].num < m.num)
      BY <3>1, <2>2, <1>f
    <3>3. b[i][k] \in Messages
      BY <1>t DEF Typed
    <3>4. /\ b[i][k].epoch \in Nat /\ m.epoch \in Nat /\ b[i][k].num \in Nat /\ m.num \in Nat
      BY <3>3, <1>f DEF Messages
    <3> QED BY <3>1, <3>2, <3>4, <2>2, <1>f
  <2>3. CASE i = l[2] /\ c[i][y] = m /\ \E k \in 1..Len(b[i]) : k <= n /\ c[i][x] = b[i][k]
    <3>1. PICK k \in 1..Len(b[i]) : k <= n /\ c[i][x] = b[i][k]
      BY <2>3
    <3>2. b[i][k].epoch <= m.epoch /\ (b[i][k].sender_id = l[1] => b[i][k].num < m.num)
      BY <3>1, <2>3, <1>f
    <3>3. b[i][k] \in Messages
      BY <1>t DEF Typed
    <3>4. /\ b[i][k].epoch \in Nat /\ m.epoch \in Nat /\ b[i][k].num \in Nat /\ m.num \in Nat
      BY <3>3, <1>f DEF Messages
    <3> QED BY <3>1, <3>2, <3>4, <2>3, <1>f
  <2> DEFINE X == x - 1
             Y == y - 1
  <2>x. \/ /\ i = l[2] => x <= n
           /\ x \in 1..Len(b[i]) /\ c[i][x] = b[i][x]
        \/ i = l[2] /\ x = n + 1 /\ c[i][x] = m
        \/ i = l[2] /\ x > n + 1 /\ X \in 1..Len(b[i]) /\ c[i][x] = b[i][X]
    BY <1>b
  <2>y. \/ /\ i = l[2] => y <= n
           /\ y \in 1..Len(b[i]) /\ c[i][y] = b[i][y]
        \/ i = l[2] /\ y = n + 1 /\ c[i][y] = m
        \/ i = l[2] /\ y > n + 1 /\ Y \in 1..Len(b[i]) /\ c[i][y] = b[i][Y]
    BY <1>b
  <2>z. /\ X < Y /\ X < x /\ Y < y /\ (y > n + 1 => Y > n) /\ (y > n + 1 /\ x <= n => x < Y)
        /\ (x > n + 1 => y > n + 1) /\ (x = n + 1 => y > n + 1)
        /\ (y <= n => x <= n) /\ (y = n + 1 => x <= n)
        /\ ~(x > n + 1 /\ x <= n) /\ ~(x > n + 1 /\ x = n + 1) /\ ~(x <= n /\ x = n + 1)
        /\ ~(y > n + 1 /\ y <= n) /\ ~(y > n + 1 /\ y = n + 1) /\ ~(y <= n /\ y = n + 1)
    BY <2>n
  <2> HIDE DEF X, Y
  <2>4. CASE i # l[2]
    BY <2>4, <2>x, <2>y, <2>1
  <2>5. CASE i = l[2] /\ x <= n
    <3>1. x \in 1..Len(b[i]) /\ c[i][x] = b[i][x]
      BY <2>x, <2>z, <2>5
    <3>2. CASE y <= n
      BY <3>1, <3>2, <2>y, <2>z, <2>5, <2>1
    <3>3. CASE y = n + 1
      BY <3>1, <3>3, <2>y, <2>z, <2>5, <2>3
    <3>4. CASE y > n + 1
      BY <3>1, <3>4, <2>y, <2>z, <2>5, <2>1
    <3> QED BY <3>2, <3>3, <3>4, <2>y, <2>5
  <2>6. CASE i = l[2] /\ x = n + 1
    BY <2>x, <2>y, <2>z, <2>6, <2>2
  <2>7. CASE i = l[2] /\ x > n + 1
    BY <2>x, <2>y, <2>z, <2>7, <2>1
  <2> QED BY <2>4, <2>5, <2>6, <2>7, <2>x
<1>5. BufferFirst(t, c)
  <2> SUFFICES ASSUME NEW h \in Links, NEW j \in 1..Len(c[h[2]]), NEW k \in 1..Len(t[h]),
                      c[h[2]][j].sender_id = h[1]
               PROVE  c[h[2]][j].num < t[h][k].num
    BY DEF BufferFirst
  <2>0. h[1] \in Nodes /\ h[2] \in Nodes /\ h = <<h[1], h[2]>>
    BY LinkFacts
  <2>1. PICK y \in 1..Len(s[h]) : t[h][k] = s[h][y] /\ (h = l => y = k + 1)
    BY <1>s
  <2>2. CASE \E x \in 1..Len(b[h[2]]) : c[h[2]][j] = b[h[2]][x]
    <3>1. PICK x \in 1..Len(b[h[2]]) : c[h[2]][j] = b[h[2]][x]
      BY <2>2
    <3>2. b[h[2]][x].num < s[h][y].num
      BY <3>1 DEF Ordered, BufferFirst
    <3> QED BY <3>1, <3>2, <2>1
  <2>3. CASE h[2] = l[2] /\ c[h[2]][j] = m
    <3>1. h = l
      BY <2>3, <2>0, <1>f, <1>l
    <3>2. y > 1
      <4>1. k \in Nat /\ k >= 1
        BY <1>f DEF Typed
      <4> QED BY <3>1, <4>1, <2>1
    <3>3. s[l][1].num < s[l][y].num
      BY <3>1, <3>2, <2>1, <1>f DEF Ordered, StreamSorted
    <3> QED BY <3>1, <3>3, <2>1, <2>3, <1>f
  <2> QED BY <2>0, <1>e, <2>2, <2>3
<1> QED BY <1>f, <1>1, <1>2, <1>3, <1>4, <1>5 DEF Ordered

\* It leaves the messages on their way as they are.
LEMMA MoveFlow ==
  ASSUME NEW s, NEW b, NEW w, Ordered(s, b, w), NEW l \in Links, NEW n, NEW t, NEW c,
         Moved(s, b, l, n, t, c)
  PROVE  Flow(t, c) = Flow(s, b)
<1> DEFINE m == Head(s[l])
<1>f. /\ m \in Messages /\ 1 \in 1..Len(s[l]) /\ s[l][1] = m
      /\ \E j \in 1..Len(c[l[2]]) : c[l[2]][j] = m
  BY MovedFacts
<1>s. \A h \in Links : \A k \in 1..Len(t[h]) : \E j \in 1..Len(s[h]) : t[h][k] = s[h][j]
  BY MovedFacts
<1>r. \A h \in Links : \A k \in 1..Len(s[h]) :
        (h = l /\ s[h][k] = m) \/ \E j \in 1..Len(t[h]) : t[h][j] = s[h][k]
  BY MovedFacts
<1>b. \A i \in Nodes : \A k \in 1..Len(c[i]) :
        \/ k \in 1..Len(b[i]) /\ c[i][k] = b[i][k]
        \/ i = l[2] /\ c[i][k] = m
        \/ k - 1 \in 1..Len(b[i]) /\ c[i][k] = b[i][k - 1]
  BY MovedFacts
<1>c. \A i \in Nodes : \A k \in 1..Len(b[i]) : \E j \in 1..Len(c[i]) : c[i][j] = b[i][k]
  BY MovedFacts
<1>l. l[2] \in Nodes
  BY LinkFacts
<1> HIDE DEF m
<1>e. \A i \in Nodes : \A k \in 1..Len(c[i]) :
        \/ \E h \in 1..Len(b[i]) : c[i][k] = b[i][h]
        \/ i = l[2] /\ c[i][k] = m
  <2> TAKE i \in Nodes
  <2> TAKE k \in 1..Len(c[i])
  <2>1. CASE k - 1 \in 1..Len(b[i]) /\ c[i][k] = b[i][k - 1]
    <3> DEFINE h == k - 1
    <3>1. h \in 1..Len(b[i]) /\ c[i][k] = b[i][h]
      BY <2>1
    <3> HIDE DEF h
    <3> QED BY <3>1
  <2> QED BY <1>b, <2>1
<1>1. ASSUME NEW x \in Flow(t, c) PROVE x \in Flow(s, b)
  <2>1. x \in Messages
    BY DEF Flow
  <2>2. CASE \E h \in Links : \E k \in 1..Len(t[h]) : t[h][k] = x
    BY <2>1, <2>2, <1>s DEF Flow
  <2>3. CASE \E i \in Nodes : \E k \in 1..Len(c[i]) : c[i][k] = x
    <3>0. PICK i \in Nodes : \E k \in 1..Len(c[i]) : c[i][k] = x
      BY <2>3
    <3>1. PICK k \in 1..Len(c[i]) : c[i][k] = x
      BY <3>0
    <3>2. CASE \E h \in 1..Len(b[i]) : c[i][k] = b[i][h]
      BY <2>1, <3>1, <3>2 DEF Flow
    <3>3. CASE i = l[2] /\ c[i][k] = m
      BY <3>1, <3>3, <1>f DEF Flow
    <3> QED BY <1>e, <3>2, <3>3
  <2> QED BY <2>2, <2>3 DEF Flow
<1>2. ASSUME NEW x \in Flow(s, b) PROVE x \in Flow(t, c)
  <2>1. x \in Messages
    BY DEF Flow
  <2>2. CASE \E h \in Links : \E k \in 1..Len(s[h]) : s[h][k] = x
    BY <2>1, <2>2, <1>r, <1>f, <1>l DEF Flow
  <2>3. CASE \E i \in Nodes : \E k \in 1..Len(b[i]) : b[i][k] = x
    BY <2>1, <2>3, <1>c DEF Flow
  <2> QED BY <2>2, <2>3 DEF Flow
<1> QED BY <1>1, <1>2

\* The fields of the messages on their way.
LEMMA FlowTypes ==
  ASSUME NEW s, NEW b, NEW w, Ordered(s, b, w), NEW m \in Flow(s, b)
  PROVE  /\ m \in Messages /\ m.msg_type \in Types /\ m.epoch \in Nat /\ m.num \in Nat
         /\ m.sender_id \in Nodes /\ m.receiver_id \in Nodes /\ m.sender_id # m.receiver_id
         /\ <<m.sender_id, m.receiver_id>> \in Links
         /\ m.num \in 1..w[<<m.sender_id, m.receiver_id>>]
<1>1. /\ m \in Messages /\ m.msg_type \in Types /\ m.epoch \in Nat /\ m.num \in Nat
      /\ m.sender_id \in Nodes /\ m.receiver_id \in Nodes
  BY DEF Flow, Messages
<1>2. m.sender_id # m.receiver_id /\ m.num \in 1..w[<<m.sender_id, m.receiver_id>>]
  <2>1. CASE \E l \in Links : \E k \in 1..Len(s[l]) : s[l][k] = m
    <3>1. PICK l \in Links : \E k \in 1..Len(s[l]) : s[l][k] = m
      BY <2>1
    <3>2. m.sender_id = l[1] /\ m.receiver_id = l[2] /\ m.num \in 1..w[l]
      BY <3>1 DEF Ordered, StreamOf
    <3>3. l[1] # l[2] /\ l = <<l[1], l[2]>>
      BY LinkFacts
    <3> QED BY <3>2, <3>3
  <2>2. CASE \E i \in Nodes : \E k \in 1..Len(b[i]) : b[i][k] = m
    <3>1. PICK i \in Nodes : \E k \in 1..Len(b[i]) : b[i][k] = m
      BY <2>2
    <3>2. m.sender_id # i /\ m.receiver_id = i /\ m.num \in 1..w[<<m.sender_id, i>>]
      BY <3>1 DEF Ordered, BufferOf
    <3> QED BY <3>2
  <2> QED BY <2>1, <2>2 DEF Flow
<1>3. <<m.sender_id, m.receiver_id>> \in Links
  BY <1>1, <1>2, LinkFacts
<1> QED BY <1>1, <1>2, <1>3

\* A link and a number tell a message apart.
LEMMA FlowUnique ==
  ASSUME NEW s, NEW b, NEW w, Ordered(s, b, w), NEW x \in Flow(s, b), NEW y \in Flow(s, b),
         x.sender_id = y.sender_id, x.receiver_id = y.receiver_id, x.num = y.num
  PROVE  x = y
<1>n. x.num \in Nat
  BY FlowTypes
<1>t. Typed(s, b, w)
  BY DEF Ordered
<1>1. ASSUME NEW u, NEW v, {u, v} = {x, y},
             \E l \in Links : \E k \in 1..Len(s[l]) : s[l][k] = u,
             \E i \in Nodes : \E k \in 1..Len(b[i]) : b[i][k] = v
      PROVE  FALSE
  <2>0. u.sender_id = v.sender_id /\ u.receiver_id = v.receiver_id /\ u.num = v.num /\ u.num \in Nat
    <3>1. (u = x \/ u = y) /\ (v = x \/ v = y)
      BY <1>1
    <3> QED BY <3>1, <1>n
  <2>1. PICK l \in Links : \E k \in 1..Len(s[l]) : s[l][k] = u
    BY <1>1
  <2>2. PICK k \in 1..Len(s[l]) : s[l][k] = u
    BY <2>1
  <2>3. PICK i \in Nodes : \E h \in 1..Len(b[i]) : b[i][h] = v
    BY <1>1
  <2>4. PICK h \in 1..Len(b[i]) : b[i][h] = v
    BY <2>3
  <2>5. u.sender_id = l[1] /\ u.receiver_id = l[2]
    BY <2>2 DEF Ordered, StreamOf
  <2>6. v.receiver_id = i
    BY <2>4 DEF Ordered, BufferOf
  <2>7. i = l[2]
    BY <2>0, <2>5, <2>6
  <2>8. b[l[2]][h].num < s[l][k].num
    BY <2>0, <2>4, <2>5, <2>7 DEF Ordered, BufferFirst
  <2> QED BY <2>0, <2>2, <2>4, <2>7, <2>8
<1>2. CASE /\ \E l \in Links : \E k \in 1..Len(s[l]) : s[l][k] = x
           /\ \E l \in Links : \E k \in 1..Len(s[l]) : s[l][k] = y
  <2>1. PICK l \in Links : \E k \in 1..Len(s[l]) : s[l][k] = x
    BY <1>2
  <2>2. PICK j \in 1..Len(s[l]) : s[l][j] = x
    BY <2>1
  <2>3. PICK h \in Links : \E k \in 1..Len(s[h]) : s[h][k] = y
    BY <1>2
  <2>4. PICK k \in 1..Len(s[h]) : s[h][k] = y
    BY <2>3
  <2>5. x.sender_id = l[1] /\ x.receiver_id = l[2]
    BY <2>2 DEF Ordered, StreamOf
  <2>6. y.sender_id = h[1] /\ y.receiver_id = h[2]
    BY <2>4 DEF Ordered, StreamOf
  <2>7. h = l
    <3>1. l = <<l[1], l[2]>> /\ h = <<h[1], h[2]>> /\ h[1] = l[1] /\ h[2] = l[2]
      BY <2>5, <2>6, LinkFacts
    <3> QED BY <3>1
  <2>8. j < k \/ k < j \/ j = k
    <3>1. Len(s[l]) \in Nat
      BY <1>t DEF Typed
    <3> QED BY <3>1, <2>7
  <2>9. ~(j < k) /\ ~(k < j)
    BY <2>2, <2>4, <2>7, <1>n DEF Ordered, StreamSorted
  <2> QED BY <2>2, <2>4, <2>7, <2>8, <2>9
<1>3. CASE /\ \E i \in Nodes : \E k \in 1..Len(b[i]) : b[i][k] = x
           /\ \E i \in Nodes : \E k \in 1..Len(b[i]) : b[i][k] = y
  <2>1. PICK l \in Nodes : \E k \in 1..Len(b[l]) : b[l][k] = x
    BY <1>3
  <2>2. PICK j \in 1..Len(b[l]) : b[l][j] = x
    BY <2>1
  <2>3. PICK h \in Nodes : \E k \in 1..Len(b[h]) : b[h][k] = y
    BY <1>3
  <2>4. PICK k \in 1..Len(b[h]) : b[h][k] = y
    BY <2>3
  <2>5. x.receiver_id = l
    BY <2>2 DEF Ordered, BufferOf
  <2>6. y.receiver_id = h
    BY <2>4 DEF Ordered, BufferOf
  <2>7. h = l
    BY <2>5, <2>6
  <2>8. j < k \/ k < j \/ j = k
    <3>1. Len(b[l]) \in Nat
      BY <1>t DEF Typed
    <3> QED BY <3>1, <2>7
  <2>9. ~(j < k)
    BY <2>2, <2>4, <2>7 DEF Ordered, BufferSorted
  <2>10. ~(k < j)
    BY <2>2, <2>4, <2>7 DEF Ordered, BufferSorted
  <2> QED BY <2>2, <2>4, <2>7, <2>8, <2>9, <2>10
<1>4. /\ \/ \E l \in Links : \E k \in 1..Len(s[l]) : s[l][k] = x
         \/ \E i \in Nodes : \E k \in 1..Len(b[i]) : b[i][k] = x
      /\ \/ \E l \in Links : \E k \in 1..Len(s[l]) : s[l][k] = y
         \/ \E i \in Nodes : \E k \in 1..Len(b[i]) : b[i][k] = y
  BY DEF Flow
<1> QED BY <1>1, <1>2, <1>3, <1>4

\* There are finitely many nodes and links.
LEMMA FiniteLinks == IsFiniteSet(Nodes) /\ IsFiniteSet(Workers) /\ IsFiniteSet(Links)
                     /\ Cardinality(Workers) = N - 1
<1>1. IsFiniteSet(Nodes) /\ Cardinality(Nodes) = N
  <2>1. 0 \in Int /\ N - 1 \in Int
    BY BspAssumption
  <2> DEFINE a == N - 1
  <2>2. IsFiniteSet(0..a) /\ Cardinality(0..a) = IF 0 > a THEN 0 ELSE a - 0 + 1
    <3> HIDE DEF a
    <3>1. a \in Int
      BY <2>1 DEF a
    <3> QED BY <2>1, <3>1, FS_Interval
  <2> QED BY <2>2, BspAssumption DEF Nodes
<1>2. IsFiniteSet(Workers)
  BY <1>1, FS_Subset DEF Workers
<1>3. IsFiniteSet(Nodes \X Nodes)
  BY <1>1, FS_Product
<1>4. IsFiniteSet(Links)
  <2>1. Links \subseteq Nodes \X Nodes
    BY DEF Links
  <2> QED BY <1>3, <2>1, FS_Subset
<1>5. Cardinality(Workers) = N - 1
  BY <1>1, FS_RemoveElement, LinkFacts DEF Workers
<1> QED BY <1>1, <1>2, <1>4, <1>5

\* The image of a finite set is finite.
LEMMA ImageFinite ==
  ASSUME NEW S, IsFiniteSet(S), NEW f, f = [x \in S |-> f[x]]
  PROVE  IsFiniteSet({f[x] : x \in S})
<1> DEFINE T == {f[x] : x \in S}
<1>1. f \in [S -> T]
  OBVIOUS
<1>2. \A y \in T : \E x \in S : f[x] = y
  OBVIOUS
<1> HIDE DEF T
<1>3. f \in Surjection(S, T)
  BY <1>1, <1>2 DEF Surjection
<1>4. IsFiniteSet(T)
  BY <1>3, FS_Surjection
<1> QED BY <1>4 DEF T

\* Finitely many messages are on their way.
LEMMA FlowFinite ==
  ASSUME NEW s, NEW b, NEW w, Ordered(s, b, w)
  PROVE  IsFiniteSet(Flow(s, b))
<1> DEFINE In(q) == {q[k] : k \in 1..Len(q)}
<1>1. ASSUME NEW q \in Seq(Messages) PROVE IsFiniteSet(In(q))
  <2>1. IsFiniteSet(1..Len(q))
    <3>1. 1 \in Int /\ Len(q) \in Int
      OBVIOUS
    <3> QED BY <3>1, FS_Interval
  <2>2. q = [k \in 1..Len(q) |-> q[k]]
    OBVIOUS
  <2> QED BY <2>1, <2>2, ImageFinite
<1> DEFINE A == {In(s[l]) : l \in Links}
           B == {In(b[i]) : i \in Nodes}
<1>t. Typed(s, b, w)
  BY DEF Ordered
<1>2. IsFiniteSet(A) /\ IsFiniteSet(B)
  <2> HIDE DEF In
  <2> DEFINE f == [l \in Links |-> In(s[l])]
             g == [i \in Nodes |-> In(b[i])]
  <2>1. IsFiniteSet(A)
    <3>1. f = [l \in Links |-> f[l]] /\ A = {f[l] : l \in Links}
      OBVIOUS
    <3> HIDE DEF f, A
    <3>2. IsFiniteSet({f[l] : l \in Links})
      BY <3>1, FiniteLinks, ImageFinite
    <3> QED BY <3>1, <3>2
  <2>2. IsFiniteSet(B)
    <3>1. g = [i \in Nodes |-> g[i]] /\ B = {g[i] : i \in Nodes}
      OBVIOUS
    <3> HIDE DEF g, B
    <3>2. IsFiniteSet({g[i] : i \in Nodes})
      BY <3>1, FiniteLinks, ImageFinite
    <3> QED BY <3>1, <3>2
  <2> QED BY <2>1, <2>2
<1>3. (\A S \in A : IsFiniteSet(S)) /\ (\A S \in B : IsFiniteSet(S))
  <2>1. \A l \in Links : s[l] \in Seq(Messages)
    BY <1>t DEF Typed
  <2>2. \A i \in Nodes : b[i] \in Seq(Messages)
    BY <1>t DEF Typed
  <2> HIDE DEF In
  <2> QED BY <1>1, <2>1, <2>2
<1>4. Flow(s, b) \subseteq (UNION A) \cup (UNION B)
  BY DEF Flow
<1> HIDE DEF A, B
<1>5. IsFiniteSet(UNION A) /\ IsFiniteSet(UNION B)
  BY <1>2, <1>3, FS_UNION
<1>6. IsFiniteSet((UNION A) \cup (UNION B))
  BY <1>5, FS_Union
<1> QED BY <1>4, <1>6, FS_Subset

\* The messages on their way in a state of Bsp.
Net == Flow(stream, msg_buffer)

\* Of the messages New each is the next of its link, from i to a node of T.
Fresh(New, w, i, T, type, e) ==
  /\ \A m \in New : /\ m \in Messages /\ m.msg_type = type /\ m.epoch = e
                    /\ m.sender_id = i /\ m.receiver_id \in T /\ m.receiver_id # i
                    /\ m.num = w[<<i, m.receiver_id>>] + 1
  /\ \A j \in T : j # i => \E m \in New : m.receiver_id = j

\* What a write does to the streams s, which become t, when w was written before.
Grows(s, t, w, v, i, T) ==
  /\ \A l \in Links : v[l] = IF l[1] = i /\ l[2] \in T THEN w[l] + 1 ELSE w[l]
  /\ \A l \in Links : ~(l[1] = i /\ l[2] \in T) => t[l] = s[l]

\* What a write by node i to the nodes of T does.
LEMMA WriteEffect ==
  ASSUME NEW s, NEW b, NEW w, Ordered(s, b, w), NEW i \in Nodes, NEW T, T \subseteq Nodes,
         NEW type \in Types, NEW e \in Nat, NEW t, NEW v,
         t = Written(s, w, Outgoing(i, T), type, e), v = Counted(w, Outgoing(i, T))
  PROVE  /\ Ordered(t, b, v) /\ Grows(s, t, w, v, i, T)
         /\ \E New : Fresh(New, w, i, T, type, e) /\ Flow(t, b) = Flow(s, b) \cup New
<1> DEFINE L == Outgoing(i, T)
           New == {Message(l, type, e, w[l] + 1) : l \in L}
<1>1. L \subseteq Links
  BY DEF Outgoing
<1>2. Ordered(t, b, v)
  BY <1>1, WriteOrdered
<1>3. Flow(t, b) = Flow(s, b) \cup New
  BY <1>1, WriteFlow
<1>4. Grows(s, t, w, v, i, T)
  BY DEF Grows, Written, Counted, Outgoing
<1>w. \A l \in Links : w[l] + 1 \in Nat
  BY DEF Ordered, Typed
<1>5. \A l \in Links : /\ Message(l, type, e, w[l] + 1) \in Messages
                       /\ Message(l, type, e, w[l] + 1).msg_type = type
                       /\ Message(l, type, e, w[l] + 1).sender_id = l[1]
                       /\ Message(l, type, e, w[l] + 1).receiver_id = l[2]
                       /\ Message(l, type, e, w[l] + 1).epoch = e
                       /\ Message(l, type, e, w[l] + 1).num = w[l] + 1
  <2> TAKE l \in Links
  <2> DEFINE n == w[l] + 1
  <2>1. n \in Nat
    BY <1>w
  <2> HIDE DEF n
  <2>2. /\ Message(l, type, e, n) \in Messages
        /\ Message(l, type, e, n).msg_type = type
        /\ Message(l, type, e, n).sender_id = l[1]
        /\ Message(l, type, e, n).receiver_id = l[2]
        /\ Message(l, type, e, n).epoch = e
        /\ Message(l, type, e, n).num = n
    BY <2>1, MessageFacts
  <2> QED BY <2>2 DEF n
<1>6. \A m \in New : \E l \in Links : l[1] = i /\ l[2] \in T /\ m = Message(l, type, e, w[l] + 1)
  BY DEF Outgoing
<1>7. \A m \in New : /\ m \in Messages /\ m.msg_type = type /\ m.epoch = e
                    /\ m.sender_id = i /\ m.receiver_id \in T /\ m.receiver_id # i
                    /\ m.num = w[<<i, m.receiver_id>>] + 1
  <2> HIDE DEF New
  <2> TAKE m \in New
  <2>1. PICK l \in Links : l[1] = i /\ l[2] \in T /\ m = Message(l, type, e, w[l] + 1)
    BY <1>6
  <2>2. l = <<i, l[2]>> /\ l[1] # l[2]
    BY <2>1, LinkFacts
  <2>3. /\ m \in Messages /\ m.msg_type = type /\ m.sender_id = l[1] /\ m.receiver_id = l[2]
        /\ m.epoch = e /\ m.num = w[l] + 1
    BY <2>1, <1>5
  <2> QED BY <2>1, <2>2, <2>3
<1>8. \A j \in T : j # i => \E m \in New : m.receiver_id = j
  <2> TAKE j \in T
  <2> HAVE j # i
  <2> DEFINE l == <<i, j>>
             m == Message(l, type, e, w[l] + 1)
  <2>1. l \in Links /\ l[1] = i /\ l[2] = j
    BY LinkFacts
  <2>2. l \in L
    BY <2>1 DEF Outgoing
  <2> HIDE DEF l
  <2>3. m \in New
    BY <2>2
  <2>4. m.receiver_id = j
    BY <2>1, <1>5
  <2> HIDE DEF m
  <2> QED BY <2>3, <2>4
<1> HIDE DEF New
<1>9. Fresh(New, w, i, T, type, e)
  BY <1>7, <1>8 DEF Fresh
<1> QED BY <1>2, <1>3, <1>4, <1>9

\* m leaves the buffer of node i.
Popped(m, i) ==
  /\ m \in Net /\ m.receiver_id = i
  /\ \A x \in Net :
       x.receiver_id = i /\ x.sender_id = m.sender_id /\ x.num < m.num => x.epoch > m.epoch
  /\ m.num = written[<<m.sender_id, i>>] => stream[<<m.sender_id, i>>] = <<>>
OrderedNow == Ordered(stream, msg_buffer, written)

\* What taking an entry does.
LEMMA PopEffect ==
  ASSUME OrderedNow, NEW i \in Nodes, NEW type, Pop(i, type)
  PROVE  \E m \in Net : /\ Popped(m, i) /\ m = Head(msg_buffer[i]) /\ m.msg_type = type
                        /\ Flow(stream, msg_buffer') = Net \ {m}
                        /\ Ordered(stream, msg_buffer', written)
<1> DEFINE b == msg_buffer
           c == msg_buffer'
           m == Head(msg_buffer[i])
           s == stream
           w == written
<1>1. b[i] # <<>> /\ c = [b EXCEPT ![i] = Tail(b[i])] /\ m.msg_type = type /\ m = Head(b[i])
  BY DEF Pop
<1>2. Ordered(s, b, w)
  BY DEF OrderedNow
<1>3. Net = Flow(s, b)
  BY DEF Net
<1>4. Ordered(s, c, w)
  <2> HIDE DEF b, c, s, w, m
  <2> QED BY <1>1, <1>2, PopOrdered
<1>5. /\ m \in Flow(s, b) /\ m.receiver_id = i
      /\ Flow(s, c) = Flow(s, b) \ {m}
      /\ \A x \in Flow(s, b) :
           x.receiver_id = i /\ x.sender_id = m.sender_id /\ x.num < m.num => x.epoch > m.epoch
      /\ m.num = w[<<m.sender_id, i>>] => s[<<m.sender_id, i>>] = <<>>
  <2> HIDE DEF b, c, s, w, m
  <2>1. Pops(b, i, c, m)
    BY <1>1 DEF Pops
  <2> QED BY <2>1, <1>2, PopFlow
<1>6. Popped(m, i)
  <2> SUFFICES /\ m \in Flow(s, b) /\ m.receiver_id = i
               /\ \A x \in Flow(s, b) :
                    x.receiver_id = i /\ x.sender_id = m.sender_id /\ x.num < m.num => x.epoch > m.epoch
               /\ m.num = w[<<m.sender_id, i>>] => s[<<m.sender_id, i>>] = <<>>
    BY <1>3 DEF Popped
  <2> HIDE DEF b, c, s, w, m
  <2> QED BY <1>5
<1>7. m \in Net /\ Flow(s, c) = Net \ {m}
  BY <1>3, <1>5
<1> QED BY <1>1, <1>4, <1>6, <1>7

\* The facts about the messages on their way, for a state of Bsp.
LEMMA NetFacts ==
  ASSUME OrderedNow
  PROVE  /\ \A m \in Net : /\ m \in Messages /\ m.msg_type \in Types /\ m.epoch \in Nat /\ m.num \in Nat
                           /\ m.sender_id \in Nodes /\ m.receiver_id \in Nodes
                           /\ m.sender_id # m.receiver_id
                           /\ <<m.sender_id, m.receiver_id>> \in Links
                           /\ written[<<m.sender_id, m.receiver_id>>] \in Nat
                           /\ 1 <= m.num /\ m.num <= written[<<m.sender_id, m.receiver_id>>]
         /\ \A x, y \in Net : x.sender_id = y.sender_id /\ x.receiver_id = y.receiver_id
                              /\ x.num = y.num => x = y
         /\ IsFiniteSet(Net)
         /\ \A l \in Links : written[l] \in Nat
<1>1. /\ \A m \in Net : /\ m \in Messages /\ m.msg_type \in Types /\ m.epoch \in Nat /\ m.num \in Nat
                           /\ m.sender_id \in Nodes /\ m.receiver_id \in Nodes
                           /\ m.sender_id # m.receiver_id
                           /\ <<m.sender_id, m.receiver_id>> \in Links
                           /\ m.num \in 1..written[<<m.sender_id, m.receiver_id>>]
  BY FlowTypes DEF Net, OrderedNow
<1>2. \A x, y \in Net : x.sender_id = y.sender_id /\ x.receiver_id = y.receiver_id
                              /\ x.num = y.num => x = y
  BY FlowUnique DEF Net, OrderedNow
<1>3. IsFiniteSet(Net)
  BY FlowFinite DEF Net, OrderedNow
<1>4. \A l \in Links : written[l] \in Nat
  BY DEF OrderedNow, Ordered, Typed
<1>5. \A m \in Net : /\ written[<<m.sender_id, m.receiver_id>>] \in Nat
                     /\ 1 <= m.num /\ m.num <= written[<<m.sender_id, m.receiver_id>>]
  <2> TAKE m \in Net
  <2> DEFINE l == <<m.sender_id, m.receiver_id>>
  <2>1. l \in Links /\ m.num \in 1..written[l]
    BY <1>1
  <2> HIDE DEF l
  <2>2. written[l] \in Nat
    BY <1>4, <2>1
  <2>3. 1 <= m.num /\ m.num <= written[l]
    BY <2>1, <2>2
  <2> QED BY <2>2, <2>3 DEF l
<1> QED BY <1>1, <1>2, <1>3, <1>4, <1>5

\* The effect on the messages of an action in which node i writes a message of
\* the type to each node of T.
Act(i, T, type) ==
  /\ OrderedNow /\ OrderedNow'
  /\ Grows(stream, stream', written, written', i, T)
  /\ Fresh(Net' \ Net, written, i, T, type, 0)

\* An action that only writes.
LEMMA WriteAct ==
  ASSUME OrderedNow, NEW i \in Nodes, NEW T, T \subseteq Nodes, NEW type \in Types,
         Writes(Outgoing(i, T), type), msg_buffer' = msg_buffer
  PROVE  Act(i, T, type) /\ Net \subseteq Net'
<1> DEFINE t == stream'
           v == written'
<1>0. t = Written(stream, written, Outgoing(i, T), type, 0) /\ v = Counted(written, Outgoing(i, T))
  BY DEF Writes
<1>1. /\ Ordered(t, msg_buffer, v) /\ Grows(stream, t, written, v, i, T)
      /\ \E New : Fresh(New, written, i, T, type, 0) /\ Flow(t, msg_buffer) = Flow(stream, msg_buffer) \cup New
  <2>1. Ordered(stream, msg_buffer, written) /\ 0 \in Nat
    BY DEF OrderedNow
  <2> HIDE DEF t, v
  <2> QED BY <2>1, <1>0, WriteEffect
<1>2. PICK New : Fresh(New, written, i, T, type, 0) /\ Flow(t, msg_buffer) = Flow(stream, msg_buffer) \cup New
  BY <1>1
<1>3. Net' = Net \cup New /\ OrderedNow'
  BY <1>1, <1>2 DEF Net, OrderedNow
<1>4. \A m \in New : m \notin Net
  <2> TAKE m \in New
  <2>1. m.sender_id = i /\ m.num = written[<<i, m.receiver_id>>] + 1
    BY <1>2 DEF Fresh
  <2> SUFFICES ASSUME m \in Net PROVE FALSE
    OBVIOUS
  <2>2. written[<<i, m.receiver_id>>] \in Nat /\ m.num <= written[<<i, m.receiver_id>>]
    BY <2>1, NetFacts
  <2> QED BY <2>1, <2>2
<1>5. Net' \ Net = New
  BY <1>3, <1>4
<1> QED BY <1>1, <1>2, <1>3, <1>5 DEF Act

\* An action that takes an entry and writes.
LEMMA PopWriteAct ==
  ASSUME OrderedNow, NEW i \in Nodes, NEW T, T \subseteq Nodes, NEW type \in Types, NEW popped,
         Pop(i, popped), Writes(Outgoing(i, T), type)
  PROVE  /\ Act(i, T, type)
         /\ \E m \in Net : /\ Popped(m, i) /\ m = Head(msg_buffer[i]) /\ m.msg_type = popped
                           /\ Net \ Net' = {m}
<1> DEFINE t == stream'
           v == written'
           c == msg_buffer'
<1>0. t = Written(stream, written, Outgoing(i, T), type, 0) /\ v = Counted(written, Outgoing(i, T))
  BY DEF Writes
<1>p. PICK m \in Net : /\ Popped(m, i) /\ m = Head(msg_buffer[i]) /\ m.msg_type = popped
                       /\ Flow(stream, c) = Net \ {m}
                       /\ Ordered(stream, c, written)
  BY PopEffect
<1>1. /\ Ordered(t, c, v) /\ Grows(stream, t, written, v, i, T)
      /\ \E New : Fresh(New, written, i, T, type, 0) /\ Flow(t, c) = Flow(stream, c) \cup New
  <2>1. Ordered(stream, c, written) /\ 0 \in Nat
    BY <1>p
  <2> HIDE DEF t, v, c
  <2> QED BY <2>1, <1>0, WriteEffect
<1>2. PICK New : Fresh(New, written, i, T, type, 0) /\ Flow(t, c) = Flow(stream, c) \cup New
  BY <1>1
<1>3. Net' = (Net \ {m}) \cup New /\ OrderedNow'
  BY <1>1, <1>2, <1>p DEF Net, OrderedNow
<1>4. \A x \in New : x \notin Net
  <2> TAKE x \in New
  <2>1. x.sender_id = i /\ x.num = written[<<i, x.receiver_id>>] + 1
    BY <1>2 DEF Fresh
  <2> SUFFICES ASSUME x \in Net PROVE FALSE
    OBVIOUS
  <2>2. written[<<i, x.receiver_id>>] \in Nat /\ x.num <= written[<<i, x.receiver_id>>]
    BY <2>1, NetFacts
  <2> QED BY <2>1, <2>2
<1>5. Net' \ Net = New /\ Net \ Net' = {m}
  BY <1>3, <1>4, <1>p
<1> QED BY <1>1, <1>2, <1>3, <1>5, <1>p DEF Act

\* An action that writes nothing writes to nobody.
LEMMA SilentWrite ==
  ASSUME OrderedNow, NEW i \in Nodes, NEW type, stream' = stream, written' = written
  PROVE  Writes(Outgoing(i, {}), type)
<1>1. Outgoing(i, {}) = {}
  BY DEF Outgoing
<1>2. stream = [l \in Links |-> stream[l]] /\ written = [l \in Links |-> written[l]]
  BY DEF OrderedNow, Ordered, Typed
<1> QED BY <1>1, <1>2 DEF Writes, Written, Counted

\* A read thread changes nothing of what is on its way.
LEMMA ReadAct ==
  ASSUME OrderedNow, NEW l \in Links, read_thread(l)
  PROVE  /\ Net' = Net /\ OrderedNow'
         /\ \A k \in Links : stream[k] = <<>> => stream'[k] = <<>>
<1>1. PICK n \in 0..Len(msg_buffer[l[2]]) :
        /\ Ahead(msg_buffer[l[2]], Head(stream[l]), n)
        /\ msg_buffer' = [msg_buffer EXCEPT ![l[2]] = Pushed(msg_buffer[l[2]], Head(stream[l]), n)]
  BY DEF read_thread
<1>2. Moved(stream, msg_buffer, l, n, stream', msg_buffer')
  BY <1>1 DEF read_thread, Moved
<1> DEFINE t == stream'
           c == msg_buffer'
<1>3. Ordered(stream, msg_buffer, written) /\ Moved(stream, msg_buffer, l, n, t, c)
  BY <1>2 DEF OrderedNow
<1>4. Ordered(t, c, written) /\ Flow(t, c) = Flow(stream, msg_buffer)
  <2> HIDE DEF t, c
  <2> QED BY <1>3, MoveOrdered, MoveFlow
<1>5. written' = written
  BY DEF read_thread
<1>6. \A k \in Links : stream[k] = <<>> => stream'[k] = <<>>
  <2>1. /\ stream[l] # <<>> /\ stream' = [stream EXCEPT ![l] = Tail(stream[l])]
        /\ stream = [k \in Links |-> stream[k]]
    BY DEF read_thread, OrderedNow, Ordered, Typed
  <2> QED BY <2>1
<1> QED BY <1>4, <1>5, <1>6 DEF Net, OrderedNow

\* The content c and the notices New of a call of send_data(l).
Sending(l, c, New) ==
  /\ OrderedNow /\ OrderedNow'
  /\ Net' = Net \cup {c} \cup New /\ c \notin Net /\ \A m \in New : m \notin Net /\ m # c
  /\ c \in Messages /\ c.msg_type = "MESSAGE_HEADER" /\ c.sender_id = l[1] /\ c.receiver_id = l[2]
  /\ c.epoch = current_epoch[l[1]] /\ c.num = written[l] + 1
  /\ IF l[1] = 0 THEN New = {}
     ELSE \E n : /\ New = {n} /\ n \in Messages /\ n.msg_type = "SENT_MESSAGE" /\ n.epoch = 0
                 /\ n.sender_id = l[1] /\ n.receiver_id = 0
                 /\ n.num = written[<<l[1], 0>>] + IF l[2] = 0 THEN 2 ELSE 1
  /\ \A k \in Links : k[1] # l[1] => written'[k] = written[k] /\ stream'[k] = stream[k]

\* send_data does that.
LEMMA SendAct ==
  ASSUME OrderedNow, NEW l \in Links, send_data(l), current_epoch[l[1]] \in Nat
  PROVE  \E c, New : Sending(l, c, New)
<1> DEFINE i == l[1]
           e == current_epoch[i]
           s == Written(stream, written, {l}, "MESSAGE_HEADER", e)
           w == Counted(written, {l})
           t == stream'
           v == written'
<1>l. i \in Nodes /\ l[2] \in Nodes /\ i # l[2] /\ l = <<i, l[2]>>
  BY LinkFacts
<1>0. /\ msg_buffer' = msg_buffer
      /\ t = Written(s, w, Outgoing(i, {0}), "SENT_MESSAGE", 0)
      /\ v = Counted(w, Outgoing(i, {0}))
  BY DEF send_data, ToControl
<1>1. {l} = Outgoing(i, {l[2]})
  BY <1>l, LinkFacts DEF Outgoing
<1>t. "MESSAGE_HEADER" \in Types /\ "SENT_MESSAGE" \in Types /\ {l[2]} \subseteq Nodes /\ {0} \subseteq Nodes
      /\ e \in Nat /\ 0 \in Nat
  BY <1>l, LinkFacts DEF Types
<1>2. /\ Ordered(s, msg_buffer, w) /\ Grows(stream, s, written, w, i, {l[2]})
      /\ \E A : Fresh(A, written, i, {l[2]}, "MESSAGE_HEADER", e)
                /\ Flow(s, msg_buffer) = Flow(stream, msg_buffer) \cup A
  <2>1. s = Written(stream, written, Outgoing(i, {l[2]}), "MESSAGE_HEADER", e) /\ w = Counted(written, Outgoing(i, {l[2]}))
    BY <1>1
  <2>2. Ordered(stream, msg_buffer, written)
    BY DEF OrderedNow
  <2> DEFINE T == {l[2]}
  <2>3. T \subseteq Nodes
    BY <1>t
  <2>4. s = Written(stream, written, Outgoing(i, T), "MESSAGE_HEADER", e) /\ w = Counted(written, Outgoing(i, T))
    BY <2>1
  <2> HIDE DEF s, w, e, i, T
  <2>5. /\ Ordered(s, msg_buffer, w) /\ Grows(stream, s, written, w, i, T)
        /\ \E A : Fresh(A, written, i, T, "MESSAGE_HEADER", e)
                  /\ Flow(s, msg_buffer) = Flow(stream, msg_buffer) \cup A
    BY <2>2, <2>3, <2>4, <1>t, <1>l, WriteEffect
  <2> QED BY <2>5 DEF T
<1>3. PICK A : Fresh(A, written, i, {l[2]}, "MESSAGE_HEADER", e) /\ Flow(s, msg_buffer) = Flow(stream, msg_buffer) \cup A
  BY <1>2
<1>4. /\ Ordered(t, msg_buffer, v) /\ Grows(s, t, w, v, i, {0})
      /\ \E B : Fresh(B, w, i, {0}, "SENT_MESSAGE", 0) /\ Flow(t, msg_buffer) = Flow(s, msg_buffer) \cup B
  <2> HIDE DEF s, w, e, i, t, v
  <2> QED BY <1>0, <1>2, <1>t, <1>l, WriteEffect
<1>5. PICK B : Fresh(B, w, i, {0}, "SENT_MESSAGE", 0) /\ Flow(t, msg_buffer) = Flow(s, msg_buffer) \cup B
  BY <1>4
<1> HIDE DEF s, w, t, v, i, e
<1>w. /\ \A k \in Links : written[k] \in Nat
      /\ \A k \in Links : w[k] = IF k[1] = i /\ k[2] \in {l[2]} THEN written[k] + 1 ELSE written[k]
  BY <1>2, NetFacts DEF Grows
<1>6. PICK c \in A : c.receiver_id = l[2]
  BY <1>3, <1>l DEF Fresh
<1>7. /\ c \in Messages /\ c.msg_type = "MESSAGE_HEADER" /\ c.sender_id = i /\ c.receiver_id = l[2]
      /\ c.epoch = e /\ c.num = written[l] + 1
  <2>1. /\ c \in Messages /\ c.msg_type = "MESSAGE_HEADER" /\ c.epoch = e
        /\ c.sender_id = i /\ c.num = written[<<i, c.receiver_id>>] + 1
    BY <1>3 DEF Fresh
  <2> QED BY <2>1, <1>6, <1>l
<1>m. \A x, y \in Messages : /\ x.msg_type = y.msg_type /\ x.sender_id = y.sender_id
        /\ x.receiver_id = y.receiver_id /\ x.epoch = y.epoch /\ x.num = y.num => x = y
  BY DEF Messages
<1>8. A = {c}
  <2> SUFFICES ASSUME NEW a \in A PROVE a = c
    OBVIOUS
  <2>1. /\ a \in Messages /\ a.msg_type = "MESSAGE_HEADER" /\ a.epoch = e
        /\ a.sender_id = i /\ a.receiver_id \in {l[2]} /\ a.num = written[<<i, a.receiver_id>>] + 1
    BY <1>3 DEF Fresh
  <2>2. a.receiver_id = l[2] /\ a.num = written[l] + 1
    BY <2>1, <1>l
  <2> QED BY <2>1, <2>2, <1>7, <1>m
<1>9. IF i = 0 THEN B = {}
      ELSE \E n : /\ B = {n} /\ n \in Messages /\ n.msg_type = "SENT_MESSAGE" /\ n.epoch = 0
                  /\ n.sender_id = i /\ n.receiver_id = 0
                  /\ n.num = written[<<i, 0>>] + IF l[2] = 0 THEN 2 ELSE 1
  <2>f. \A a \in B : /\ a \in Messages /\ a.msg_type = "SENT_MESSAGE" /\ a.epoch = 0
        /\ a.sender_id = i /\ a.receiver_id = 0 /\ a.receiver_id # i /\ a.num = w[<<i, 0>>] + 1
    BY <1>5 DEF Fresh
  <2>1. CASE i = 0
    BY <2>1, <2>f
  <2>2. CASE i # 0
    <3>1. PICK n \in B : TRUE
      BY <2>2, <1>5 DEF Fresh
    <3>2. /\ n \in Messages /\ n.msg_type = "SENT_MESSAGE" /\ n.epoch = 0
          /\ n.sender_id = i /\ n.receiver_id = 0 /\ n.num = w[<<i, 0>>] + 1
      BY <2>f
    <3>3. B = {n}
      BY <2>f, <3>2, <1>m
    <3>4. <<i, 0>> \in Links /\ <<i, 0>>[1] = i /\ <<i, 0>>[2] = 0
      BY <2>2, <1>l, LinkFacts
    <3>5. w[<<i, 0>>] = IF 0 = l[2] THEN written[<<i, 0>>] + 1 ELSE written[<<i, 0>>]
      BY <3>4, <1>w
    <3>6. written[<<i, 0>>] \in Nat
      BY <3>4, <1>w
    <3>7. n.num = written[<<i, 0>>] + IF l[2] = 0 THEN 2 ELSE 1
      BY <3>2, <3>5, <3>6
    <3> QED BY <2>2, <3>2, <3>3, <3>7
  <2> QED BY <2>1, <2>2
<1>10. Net' = Net \cup {c} \cup B /\ OrderedNow'
  BY <1>0, <1>3, <1>4, <1>5, <1>8 DEF Net, OrderedNow, t, v
<1>11. c \notin Net
  BY <1>7, <1>l, NetFacts
<1>12. \A m \in B : m \notin Net /\ m # c
  <2> TAKE m \in B
  <2>1. /\ m.msg_type = "SENT_MESSAGE" /\ m.sender_id = i /\ m.receiver_id = 0 /\ i # 0
        /\ m.num = written[<<i, 0>>] + IF l[2] = 0 THEN 2 ELSE 1
    BY <1>9
  <2>2. m \notin Net
    <3>1. <<i, 0>> \in Links
      BY <2>1, <1>l, LinkFacts
    <3> QED BY <2>1, <3>1, NetFacts
  <2> QED BY <2>1, <2>2, <1>7
<1>13. \A k \in Links : k[1] # i => v[k] = written[k] /\ t[k] = stream[k]
  BY <1>2, <1>4 DEF Grows
<1>14. Sending(l, c, B)
  BY <1>7, <1>9, <1>10, <1>11, <1>12, <1>13 DEF Sending, i, e, t, v
<1> QED BY <1>14

\* What workers tell the control node.
Notices == {"IN_WAITING_STATE", "GOT_MESSAGE", "SENT_MESSAGE", "NODE_TERMINATE"}
IsNotice(m, i) == m.sender_id = i /\ m.receiver_id = 0 /\ m.msg_type \in Notices
\* Node i is told that the epoch ended, or will be when it reads on.
Released(i) == \E m \in Net : m.msg_type = "SEE_ALL_IN_WAITING_STATE" /\ m.receiver_id = i
\* The program of node i has ended.
Over(i) == pc[i] \in {"closing", "closed", "failed", "refused"}

\* The types of the variables other than streams, buffers and what was written.
SimpleTypes ==
  /\ outstanding_messages \in Int /\ num_waiting_nodes \in Int
  /\ terminated \in [Nodes -> SUBSET Nodes]
  /\ current_epoch \in [Nodes -> Nat]
  /\ pc \in [Nodes -> {"running", "receive_data", "closing", "closed", "failed", "refused"}]
  /\ sent \in Nat

\* Who sends what to whom, and that content belongs to the current epoch.
NetOK == \A m \in Net :
  /\ m.epoch = IF m.msg_type = "MESSAGE_HEADER" THEN current_epoch[0] ELSE 0
  /\ m.msg_type \in {"IN_WAITING_STATE", "GOT_MESSAGE", "SENT_MESSAGE"} => m.receiver_id = 0
  /\ m.msg_type = "SEE_ALL_IN_WAITING_STATE" => m.sender_id = 0
  /\ m.msg_type = "MESSAGE_HEADER" => <<m.sender_id, m.receiver_id>> \in Routes
  /\ m.msg_type = "GOT_MESSAGE" => \E l \in Routes : l[2] = m.sender_id

\* After worker i said that it waits, it waits until it says that it got
\* something or is told; or it failed.
WaitsAt(i) == \A x \in Net : x.msg_type = "IN_WAITING_STATE" /\ x.sender_id = i =>
  \/ \E g \in Net : g.msg_type = "GOT_MESSAGE" /\ g.sender_id = i /\ g.num = x.num + 1
  \/ pc[i] = "receive_data" /\ ~Released(i) /\ x.num = written[<<i, 0>>]
  \/ pc[i] = "failed" /\ \A y \in Net : IsNotice(y, i) => y.num <= x.num

\* If worker i sends again after it got something, the notice of what it sends
\* does not outlast the content.
SentsAt(i) == \A x, g \in Net :
  /\ x.msg_type = "SENT_MESSAGE" /\ x.sender_id = i
  /\ g.msg_type = "GOT_MESSAGE" /\ g.sender_id = i /\ g.num < x.num
  => \E c \in Net : /\ c.msg_type = "MESSAGE_HEADER" /\ c.sender_id = i
                    /\ c.receiver_id = 0 /\ c.num = x.num - 1

\* The control node has ended as well, the last of all.
AllOver == AllTerminated(0) /\ pc[0] \in {"closed", "failed"}
\* That worker i has ended is its last word, and it is true; that the control
\* node has ended is true too.
TermsAt(i) ==
  /\ \A x \in Net : x.msg_type = "NODE_TERMINATE" /\ x.sender_id = i =>
       x.num = written[<<i, x.receiver_id>>] /\ Over(i)
  /\ i \in terminated[0] => /\ Over(i) /\ stream[<<i, 0>>] = <<>>
                            /\ \A y \in Net : ~IsNotice(y, i)
  /\ \A x \in Net : x.msg_type = "NODE_TERMINATE" /\ x.sender_id = 0 /\ x.receiver_id = i => AllOver
  /\ 0 \in terminated[i] => AllOver

\* Worker i is told once per epoch, and only while it waits.
ToldsAt(i) ==
  /\ \A x, y \in Net : x.msg_type = "SEE_ALL_IN_WAITING_STATE" /\ x.receiver_id = i
                       /\ y.msg_type = "SEE_ALL_IN_WAITING_STATE" /\ y.receiver_id = i => x = y
  /\ Released(i) => pc[i] \in {"receive_data", "failed"} /\ \A y \in Net : ~IsNotice(y, i)
  /\ pc[i] \in {"running", "receive_data"} =>
       current_epoch[0] = current_epoch[i] + IF Released(i) THEN 1 ELSE 0

\* All that is true of the workers.
WorkersOK == \A i \in Workers : WaitsAt(i) /\ SentsAt(i) /\ TermsAt(i) /\ ToldsAt(i)

\* The part of the invariant that does not count.
Base == SimpleTypes /\ OrderedNow /\ NetOK /\ terminated[0] \subseteq Workers /\ WorkersOK

-----------------------------------------------------------------------------
(* The effect of each action on the messages *)

\* Node i takes a message of the type.
Pulls(i, type) == \E m \in Net : /\ Popped(m, i) /\ m = Head(msg_buffer[i])
                                 /\ m.msg_type = type /\ Net \ Net' = {m}

\* Membership in sets of types and of nodes.
LEMMA TypeFacts ==
  /\ "GOT_MESSAGE" \in Types /\ "IN_WAITING_STATE" \in Types /\ "NODE_TERMINATE" \in Types
  /\ "SEE_ALL_IN_WAITING_STATE" \in Types /\ "READ_ERROR" \in Types
  /\ {0} \subseteq Nodes /\ Nodes \subseteq Nodes /\ {} \subseteq Nodes /\ 0 \in Nodes
  /\ Workers \subseteq Nodes
  BY LinkFacts DEF Types

\* Who writes to nobody uses no link.
LEMMA EmptyOutgoing == ASSUME NEW i PROVE Outgoing(i, {}) = {}
  BY DEF Outgoing

\* What each action writes and takes.
LEMMA EnterReceiveAct ==
  ASSUME OrderedNow, NEW i \in Nodes, EnterReceive(i)
  PROVE  Act(i, {0}, "IN_WAITING_STATE") /\ Net \subseteq Net'
<1>1. Writes(Outgoing(i, {0}), "IN_WAITING_STATE") /\ msg_buffer' = msg_buffer
  BY DEF EnterReceive, ToControl
<1> QED BY <1>1, TypeFacts, WriteAct

LEMMA EnterCloseAct ==
  ASSUME OrderedNow, NEW i \in Nodes, EnterClose(i)
  PROVE  Act(i, IF i = 0 THEN {} ELSE Nodes, "NODE_TERMINATE") /\ Net \subseteq Net'
<1> DEFINE T == IF i = 0 THEN {} ELSE Nodes
<1>1. Writes(Outgoing(i, T), "NODE_TERMINATE") /\ msg_buffer' = msg_buffer
  BY EmptyOutgoing DEF EnterClose
<1>2. T \subseteq Nodes
  OBVIOUS
<1> HIDE DEF T
<1>3. Act(i, T, "NODE_TERMINATE") /\ Net \subseteq Net'
  BY <1>1, <1>2, TypeFacts, WriteAct
<1> QED BY <1>3 DEF T

LEMMA CrashAct ==
  ASSUME OrderedNow, NEW i \in Nodes, Crash(i)
  PROVE  Act(i, Nodes, "READ_ERROR") /\ Net \subseteq Net'
<1>1. Writes(Outgoing(i, Nodes), "READ_ERROR") /\ msg_buffer' = msg_buffer
  BY DEF Crash, BrokenBy
<1> QED BY <1>1, TypeFacts, WriteAct

LEMMA ReceiveAloneAct ==
  ASSUME OrderedNow, NEW i \in Nodes, ReceiveAlone(i)
  PROVE  Act(i, {}, "READ_ERROR") /\ Net' = Net
<1>1. stream' = stream /\ written' = written /\ msg_buffer' = msg_buffer
  BY DEF ReceiveAlone
<1>2. Writes(Outgoing(i, {}), "READ_ERROR")
  BY <1>1, SilentWrite
<1> QED BY <1>1, <1>2, TypeFacts, WriteAct DEF Net

LEMMA EndEpochAct ==
  ASSUME OrderedNow, EndEpoch
  PROVE  /\ Act(0, Workers \ terminated[0], "SEE_ALL_IN_WAITING_STATE") /\ Net \subseteq Net'
<1> DEFINE T == Workers \ terminated[0]
<1>1. Writes(Outgoing(0, T), "SEE_ALL_IN_WAITING_STATE") /\ msg_buffer' = msg_buffer
  BY DEF EndEpoch
<1>2. T \subseteq Nodes
  BY TypeFacts
<1> HIDE DEF T
<1>3. Act(0, T, "SEE_ALL_IN_WAITING_STATE") /\ Net \subseteq Net'
  BY <1>1, <1>2, TypeFacts, WriteAct
<1> QED BY <1>3 DEF T

LEMMA PopContentAct ==
  ASSUME OrderedNow, NEW i \in Nodes, PopContent(i)
  PROVE  Act(i, {0}, "GOT_MESSAGE") /\ Pulls(i, "MESSAGE_HEADER")
<1>1. Writes(Outgoing(i, {0}), "GOT_MESSAGE") /\ Pop(i, "MESSAGE_HEADER")
  BY DEF PopContent, ToControl
<1> QED BY <1>1, TypeFacts, PopWriteAct DEF Pulls

\* An action that takes an entry and writes nothing.
LEMMA SilentPop ==
  ASSUME OrderedNow, NEW i \in Nodes, NEW type, Pop(i, type), stream' = stream, written' = written
  PROVE  Act(i, {}, "READ_ERROR") /\ Pulls(i, type)
<1>1. Writes(Outgoing(i, {}), "READ_ERROR")
  BY SilentWrite
<1> QED BY <1>1, TypeFacts, PopWriteAct DEF Pulls

LEMMA PopFatalAct ==
  ASSUME OrderedNow, NEW i \in Nodes, PopFatal(i)
  PROVE  /\ Act(i, IF i # 0 /\ pc[i] = "closing" THEN {} ELSE Nodes, "READ_ERROR")
         /\ \/ Pulls(i, "READ_ERROR") /\ pc' = [pc EXCEPT ![i] = "failed"]
            \/ pc[i] = "closing" /\ Pulls(i, "MESSAGE_HEADER") /\ pc' = [pc EXCEPT ![i] = "refused"]
<1> DEFINE T == IF i # 0 /\ pc[i] = "closing" THEN {} ELSE Nodes
<1>1. Writes(Outgoing(i, T), "READ_ERROR")
  BY EmptyOutgoing DEF PopFatal, BrokenBy
<1>2. T \subseteq Nodes
  OBVIOUS
<1> HIDE DEF T
<1>3. /\ Act(i, T, "READ_ERROR")
      /\ \/ Pulls(i, "READ_ERROR") /\ pc' = [pc EXCEPT ![i] = "failed"]
         \/ pc[i] = "closing" /\ Pulls(i, "MESSAGE_HEADER") /\ pc' = [pc EXCEPT ![i] = "refused"]
  <2>1. CASE Pop(i, "READ_ERROR") /\ Goes(i, "failed")
    <3>1. Act(i, T, "READ_ERROR") /\ Pulls(i, "READ_ERROR")
      BY <2>1, <1>1, <1>2, TypeFacts, PopWriteAct DEF Pulls
    <3> QED BY <3>1, <2>1 DEF Goes
  <2>2. CASE pc[i] = "closing" /\ Pop(i, "MESSAGE_HEADER") /\ Goes(i, "refused")
    <3>1. Act(i, T, "READ_ERROR") /\ Pulls(i, "MESSAGE_HEADER")
      BY <2>2, <1>1, <1>2, TypeFacts, PopWriteAct DEF Pulls
    <3> QED BY <3>1, <2>2 DEF Goes
  <2> QED BY <2>1, <2>2 DEF PopFatal
<1> QED BY <1>3 DEF T

LEMMA CloseAct ==
  ASSUME OrderedNow, NEW i \in Nodes, Close(i)
  PROVE  Act(i, IF i # 0 THEN {} ELSE Nodes, "NODE_TERMINATE") /\ Net \subseteq Net'
<1> DEFINE T == IF i # 0 THEN {} ELSE Nodes
<1>1. Writes(Outgoing(i, T), "NODE_TERMINATE") /\ msg_buffer' = msg_buffer
  BY EmptyOutgoing DEF Close
<1>2. T \subseteq Nodes
  OBVIOUS
<1> HIDE DEF T
<1>3. Act(i, T, "NODE_TERMINATE") /\ Net \subseteq Net'
  BY <1>1, <1>2, TypeFacts, WriteAct
<1> QED BY <1>3 DEF T

\* What Act says of the messages of the next state.
Adds(i, T, type) == \A x \in Net' :
  \/ x \in Net
  \/ /\ x \notin Net /\ x.msg_type = type /\ x.epoch = 0 /\ x.sender_id = i
     /\ x.receiver_id \in T /\ x.receiver_id # i
     /\ x.num = written[<<i, x.receiver_id>>] + 1

\* What Act says, link by link.
LEMMA ActFacts ==
  ASSUME NEW i \in Nodes, NEW T, NEW type, Act(i, T, type)
  PROVE  /\ Adds(i, T, type)
         /\ \A j \in T : j # i => \E x \in Net' : /\ x \notin Net /\ x.msg_type = type /\ x.receiver_id = j
         /\ \A l \in Links : l[1] # i \/ l[2] \notin T => written'[l] = written[l] /\ stream'[l] = stream[l]
         /\ \A l \in Links : l[1] = i /\ l[2] \in T => written'[l] = written[l] + 1
         /\ OrderedNow /\ OrderedNow'
<1>1. Adds(i, T, type)
  BY DEF Act, Fresh, Adds
<1>2. \A j \in T : j # i => \E x \in Net' : /\ x \notin Net /\ x.msg_type = type /\ x.receiver_id = j
  BY DEF Act, Fresh
<1>3. \A l \in Links : l[1] # i \/ l[2] \notin T => written'[l] = written[l] /\ stream'[l] = stream[l]
  BY DEF Act, Grows
<1>4. \A l \in Links : l[1] = i /\ l[2] \in T => written'[l] = written[l] + 1
  BY DEF Act, Grows
<1> QED BY <1>1, <1>2, <1>3, <1>4 DEF Act

\* Type, sender and epoch of the messages: nothing but the end of an epoch
\* changes the epoch that contents have.
LEMMA NetStep ==
  ASSUME NetOK, NEW i \in Nodes, NEW T, NEW type \in Types \ {"MESSAGE_HEADER"}, Act(i, T, type),
         type \in {"IN_WAITING_STATE", "GOT_MESSAGE", "SENT_MESSAGE"} => T = {0},
         type = "SEE_ALL_IN_WAITING_STATE" => i = 0,
         type = "GOT_MESSAGE" => \E l \in Routes : l[2] = i,
         \/ current_epoch'[0] = current_epoch[0]
         \/ \A m \in Net \cap Net' : m.msg_type # "MESSAGE_HEADER"
  PROVE  NetOK'
<1> SUFFICES ASSUME NEW m \in Net'
             PROVE  /\ m.epoch = IF m.msg_type = "MESSAGE_HEADER" THEN current_epoch'[0] ELSE 0
                    /\ m.msg_type \in {"IN_WAITING_STATE", "GOT_MESSAGE", "SENT_MESSAGE"} => m.receiver_id = 0
                    /\ m.msg_type = "SEE_ALL_IN_WAITING_STATE" => m.sender_id = 0
                    /\ m.msg_type = "MESSAGE_HEADER" => <<m.sender_id, m.receiver_id>> \in Routes
                    /\ m.msg_type = "GOT_MESSAGE" => \E l \in Routes : l[2] = m.sender_id
  BY DEF NetOK
<1>1. CASE m \in Net
  BY <1>1 DEF NetOK
<1>2. CASE m \notin Net
  <2>1. m.msg_type = type /\ m.epoch = 0 /\ m.sender_id = i /\ m.receiver_id \in T
    <3>1. Adds(i, T, type)
      BY ActFacts
    <3> QED BY <3>1, <1>2 DEF Adds
  <2> QED BY <2>1
<1> QED BY <1>1, <1>2

\* What node i gets was written before what it still has to get from the same
\* node, in its epoch.
LEMMA PoppedFirst ==
  ASSUME OrderedNow, NetOK, NEW i, NEW m, Popped(m, i), NEW x \in Net,
         x.receiver_id = i, x.sender_id = m.sender_id, x.msg_type # "MESSAGE_HEADER"
  PROVE  m.num <= x.num
<1>1. m \in Net /\ (x.num < m.num => x.epoch > m.epoch)
  BY DEF Popped
<1>2. x.epoch = 0 /\ m.epoch \in Nat /\ x.num \in Nat /\ m.num \in Nat
  BY <1>1, NetFacts DEF NetOK
<1> QED BY <1>1, <1>2

\* A notice that content was sent leaves no later than the content.
LEMMA SentsStep ==
  ASSUME NetOK, NetOK', NEW i \in Nodes, NEW T, NEW type, type # "SENT_MESSAGE", Act(i, T, type),
         \A m \in Net \ Net' : Popped(m, i), NEW j \in Workers, SentsAt(j)
  PROVE  SentsAt(j)'
<1> SUFFICES ASSUME NEW x \in Net', NEW g \in Net',
                    x.msg_type = "SENT_MESSAGE", x.sender_id = j,
                    g.msg_type = "GOT_MESSAGE", g.sender_id = j, g.num < x.num
             PROVE  \E c \in Net' : /\ c.msg_type = "MESSAGE_HEADER" /\ c.sender_id = j
                                    /\ c.receiver_id = 0 /\ c.num = x.num - 1
  BY DEF SentsAt
<1>0. OrderedNow /\ Adds(i, T, type)
  BY ActFacts
<1>1. x \in Net /\ x.receiver_id = 0 /\ x.num \in Nat /\ written[<<j, 0>>] \in Nat /\ x.num <= written[<<j, 0>>]
  <2>1. x \in Net
    BY <1>0 DEF Adds
  <2> QED BY <2>1, <1>0, NetFacts DEF NetOK
<1>2. CASE g \in Net
  <2>1. PICK c \in Net : /\ c.msg_type = "MESSAGE_HEADER" /\ c.sender_id = j
                         /\ c.receiver_id = 0 /\ c.num = x.num - 1
    BY <1>1, <1>2 DEF SentsAt
  <2>2. CASE c \notin Net'
    <3>1. Popped(c, i) /\ i = 0
      BY <2>1, <2>2 DEF Popped
    <3>2. g.receiver_id = 0 /\ g.num \in Nat
      BY <1>0, <1>2, NetFacts DEF NetOK
    <3>3. c.num <= g.num
      BY <3>1, <3>2, <2>1, <1>0, <1>2, PoppedFirst
    <3>4. c.num = g.num
      BY <3>2, <3>3, <2>1, <1>1
    <3> QED BY <3>4, <3>2, <2>1, <1>2, <1>0, NetFacts
  <2> QED BY <2>1, <2>2
<1>3. CASE g \notin Net
  <2>1. g.num = written[<<i, g.receiver_id>>] + 1 /\ i = j /\ g.msg_type = type
    BY <1>0, <1>3 DEF Adds
  <2>2. g.receiver_id = 0 /\ g.num \in Nat
    <3>1. g.receiver_id = 0
      BY DEF NetOK
    <3>2. written[<<i, 0>>] + 1 \in Nat
      BY <1>1, <2>1
    <3> QED BY <3>1, <3>2, <2>1
  <2> QED BY <2>1, <2>2, <1>1
<1> QED BY <1>2, <1>3

\* A step in which node i may take messages and in which nothing changes that
\* concerns worker j, except that others may write to it.
Still(i, j) ==
  /\ OrderedNow /\ OrderedNow' /\ NetOK /\ NetOK'
  /\ \A x \in Net' : x \in Net \/ (x.sender_id # j /\ x.msg_type # "SEE_ALL_IN_WAITING_STATE")
  /\ \A x \in Net \ Net' : /\ Popped(x, i)
                           /\ x.msg_type = "SEE_ALL_IN_WAITING_STATE" => x.receiver_id # j
  /\ \A l \in Links : l[1] = j => /\ written'[l] = written[l]
                                  /\ stream[l] = <<>> => stream'[l] = <<>>
  /\ pc'[j] = pc[j] /\ current_epoch'[j] = current_epoch[j] /\ current_epoch'[0] = current_epoch[0]

\* What has left the node's stream and what the control node still has to see.
LEMMA StillFacts ==
  ASSUME NEW i \in Nodes, NEW j \in Workers, Still(i, j)
  PROVE  /\ Released(j)' <=> Released(j)
         /\ written'[<<j, 0>>] = written[<<j, 0>>]
         /\ stream[<<j, 0>>] = <<>> => stream'[<<j, 0>>] = <<>>
         /\ \A y \in Net' : IsNotice(y, j) => y \in Net
<1>1. <<j, 0>> \in Links /\ <<j, 0>>[1] = j
  BY LinkFacts
<1>2. Released(j) => Released(j)'
  BY DEF Still, Released
<1>3. Released(j)' => Released(j)
  BY DEF Still, Released
<1>4. \A y \in Net' : IsNotice(y, j) => y \in Net
  BY DEF Still, IsNotice
<1> QED BY <1>1, <1>2, <1>3, <1>4 DEF Still

\* Worker j keeps what was true of it while others act.
LEMMA StillWaits ==
  ASSUME NEW i \in Nodes, NEW j \in Workers, Still(i, j), WaitsAt(j)
  PROVE  WaitsAt(j)'
<1> SUFFICES ASSUME NEW x \in Net', x.msg_type = "IN_WAITING_STATE", x.sender_id = j
             PROVE  \/ \E g \in Net' : g.msg_type = "GOT_MESSAGE" /\ g.sender_id = j /\ g.num = x.num + 1
                    \/ pc'[j] = "receive_data" /\ ~Released(j)' /\ x.num = written'[<<j, 0>>]
                    \/ pc'[j] = "failed" /\ \A y \in Net' : IsNotice(y, j) => y.num <= x.num
  BY DEF WaitsAt, IsNotice
<1>0. OrderedNow /\ NetOK
  BY DEF Still
<1>1. x \in Net /\ x.num \in Nat /\ x.receiver_id = 0
  <2>1. x \in Net
    BY DEF Still
  <2> QED BY <2>1, <1>0, NetFacts DEF NetOK
<1>2. \/ \E g \in Net : g.msg_type = "GOT_MESSAGE" /\ g.sender_id = j /\ g.num = x.num + 1
      \/ pc[j] = "receive_data" /\ ~Released(j) /\ x.num = written[<<j, 0>>]
      \/ pc[j] = "failed" /\ \A y \in Net : IsNotice(y, j) => y.num <= x.num
  BY <1>1 DEF WaitsAt
<1>3. ASSUME NEW g \in Net, g.msg_type = "GOT_MESSAGE", g.sender_id = j, g.num = x.num + 1
      PROVE  g \in Net'
  <2> SUFFICES ASSUME g \notin Net' PROVE FALSE
    OBVIOUS
  <2>1. Popped(g, i) /\ g.receiver_id = 0
    BY <1>0, <1>3 DEF Still, NetOK
  <2>2. i = 0
    BY <2>1 DEF Popped
  <2>3. g.num <= x.num
    BY <2>1, <2>2, <1>0, <1>1, <1>3, PoppedFirst
  <2> QED BY <2>3, <1>1, <1>3
<1>4. pc'[j] = pc[j]
  BY DEF Still
<1> QED BY <1>2, <1>3, <1>4, StillFacts

LEMMA StillTolds ==
  ASSUME NEW i \in Nodes, NEW j \in Workers, Still(i, j), ToldsAt(j)
  PROVE  ToldsAt(j)'
<1>1. \A x, y \in Net' : x.msg_type = "SEE_ALL_IN_WAITING_STATE" /\ x.receiver_id = j
                         /\ y.msg_type = "SEE_ALL_IN_WAITING_STATE" /\ y.receiver_id = j => x = y
  <2>1. \A x \in Net' : x.msg_type = "SEE_ALL_IN_WAITING_STATE" => x \in Net
    BY DEF Still
  <2>2. \A x, y \in Net : x.msg_type = "SEE_ALL_IN_WAITING_STATE" /\ x.receiver_id = j
                          /\ y.msg_type = "SEE_ALL_IN_WAITING_STATE" /\ y.receiver_id = j => x = y
    BY DEF ToldsAt
  <2> QED BY <2>1, <2>2
<1>2. pc'[j] = pc[j] /\ current_epoch'[j] = current_epoch[j] /\ current_epoch'[0] = current_epoch[0]
  BY DEF Still
<1>3. Released(j)' => pc'[j] \in {"receive_data", "failed"} /\ \A y \in Net' : ~IsNotice(y, j)
  BY <1>2, StillFacts DEF ToldsAt
<1>4. pc'[j] \in {"running", "receive_data"} =>
       current_epoch'[0] = current_epoch'[j] + IF Released(j)' THEN 1 ELSE 0
  BY <1>2, StillFacts DEF ToldsAt
<1> QED BY <1>1, <1>3, <1>4 DEF ToldsAt, IsNotice

LEMMA StillTerms ==
  ASSUME NEW i \in Nodes, NEW j \in Workers, Still(i, j), TermsAt(j), AllOver => AllOver',
         j \in terminated'[0] => \/ j \in terminated[0]
                                 \/ \E m \in Net \ Net' : /\ Popped(m, 0) /\ m.sender_id = j
                                                          /\ m.msg_type = "NODE_TERMINATE",
         0 \in terminated'[j] => \/ 0 \in terminated[j]
                                 \/ \E m \in Net : /\ m.sender_id = 0 /\ m.receiver_id = j
                                                   /\ m.msg_type = "NODE_TERMINATE",
         \A x \in Net' \ Net : x.msg_type = "NODE_TERMINATE" /\ x.sender_id = 0 => AllOver'
  PROVE  TermsAt(j)'
<1>0. OrderedNow /\ NetOK /\ pc'[j] = pc[j]
  BY DEF Still
<1>1. \A x \in Net' : x.msg_type = "NODE_TERMINATE" /\ x.sender_id = j =>
        x.num = written'[<<j, x.receiver_id>>] /\ Over(j)'
  <2> TAKE x \in Net'
  <2> HAVE x.msg_type = "NODE_TERMINATE" /\ x.sender_id = j
  <2>1. x \in Net
    BY DEF Still
  <2>2. x.num = written[<<j, x.receiver_id>>] /\ Over(j)
    BY <2>1 DEF TermsAt
  <2> DEFINE l == <<j, x.receiver_id>>
  <2>3. l \in Links /\ l[1] = j
    BY <2>1, <1>0, NetFacts
  <2>4. written'[l] = written[l]
    BY <2>3 DEF Still
  <2> QED BY <2>2, <2>4, <1>0 DEF Over
<1>2. j \in terminated'[0] => /\ Over(j)' /\ stream'[<<j, 0>>] = <<>>
                              /\ \A y \in Net' : ~IsNotice(y, j)
  <2>1. CASE j \in terminated[0]
    BY <2>1, <1>0, StillFacts DEF TermsAt, Over
  <2>2. ASSUME NEW m \in Net \ Net', Popped(m, 0), m.sender_id = j, m.msg_type = "NODE_TERMINATE"
        PROVE  /\ Over(j)' /\ stream'[<<j, 0>>] = <<>>
               /\ \A y \in Net' : ~IsNotice(y, j)
    <3>1. m.receiver_id = 0 /\ (m.num = written[<<j, 0>>] => stream[<<j, 0>>] = <<>>)
      BY <2>2 DEF Popped
    <3>2. m.num = written[<<j, 0>>] /\ Over(j)
      BY <2>2, <3>1 DEF TermsAt
    <3>3. \A y \in Net' : ~IsNotice(y, j)
      <4> SUFFICES ASSUME NEW y \in Net', IsNotice(y, j) PROVE FALSE
        OBVIOUS
      <4>1. y \in Net /\ y.receiver_id = 0 /\ y.sender_id = j /\ y.msg_type # "MESSAGE_HEADER"
        BY StillFacts DEF IsNotice, Notices
      <4>2. m.num <= y.num
        BY <4>1, <2>2, <1>0, PoppedFirst
      <4>3. y.num <= written[<<j, 0>>] /\ y.num \in Nat /\ m.num \in Nat
        BY <4>1, <1>0, <2>2, NetFacts
      <4>4. y = m
        BY <4>1, <4>2, <4>3, <3>1, <3>2, <2>2, <1>0, NetFacts
      <4> QED BY <4>4, <2>2
    <3> QED BY <3>1, <3>2, <3>3, <1>0, StillFacts DEF Over
  <2> QED BY <2>1, <2>2
<1>3. \A x \in Net' : x.msg_type = "NODE_TERMINATE" /\ x.sender_id = 0 /\ x.receiver_id = j => AllOver'
  BY DEF TermsAt
<1>4. 0 \in terminated'[j] => AllOver'
  BY DEF TermsAt
<1> QED BY <1>1, <1>2, <1>3, <1>4 DEF TermsAt, IsNotice

\* What is true of worker i, apart from SentsAt.
Mine(i) == WaitsAt(i) /\ TermsAt(i) /\ ToldsAt(i)

\* Who has not ended has told nobody so.
LEMMA Alive ==
  ASSUME NEW i \in Workers, TermsAt(i), ~Over(i)
  PROVE  i \notin terminated[0] /\ \A x \in Net : ~(x.msg_type = "NODE_TERMINATE" /\ x.sender_id = i)
  BY DEF TermsAt

\* Worker i writes messages of the type to the nodes of T.
Owns(i, T, type) ==
  /\ OrderedNow /\ OrderedNow' /\ Adds(i, T, type)
  /\ \A x \in Net' : x.sender_id # i \/ x.msg_type # type => x \in Net
  /\ \A x \in Net' : x \notin Net =>
       /\ x.num = written[<<i, x.receiver_id>>] + 1 /\ x.receiver_id \in T
       /\ written'[<<i, x.receiver_id>>] = x.num
  /\ \A l \in Links : l[1] = i /\ l[2] \notin T => written'[l] = written[l] /\ stream'[l] = stream[l]
  /\ Released(i)' => Released(i)
  /\ written[<<i, 0>>] \in Nat

\* What a write by worker i itself means for it.
LEMMA OwnFacts ==
  ASSUME NEW i \in Workers, NEW T, NEW type, Act(i, T, type), type # "SEE_ALL_IN_WAITING_STATE"
  PROVE  Owns(i, T, type)
<1>1. OrderedNow /\ OrderedNow' /\ Adds(i, T, type)
  BY ActFacts, TypeFacts
<1>2. \A x \in Net' : x.sender_id # i \/ x.msg_type # type => x \in Net
  BY <1>1 DEF Adds
<1>3. \A l \in Links : l[1] = i /\ l[2] \notin T => written'[l] = written[l] /\ stream'[l] = stream[l]
  BY ActFacts, TypeFacts
<1>4. \A x \in Net' : x \notin Net =>
              /\ x.num = written[<<i, x.receiver_id>>] + 1 /\ x.receiver_id \in T
              /\ written'[<<i, x.receiver_id>>] = x.num
  <2> TAKE x \in Net'
  <2> HAVE x \notin Net
  <2> DEFINE l == <<i, x.receiver_id>>
  <2>1. x.num = written[l] + 1 /\ x.receiver_id \in T /\ x.sender_id = i
    BY <1>1 DEF Adds
  <2>2. <<x.sender_id, x.receiver_id>> \in Links
    <3>1. x \in Flow(stream', msg_buffer') /\ Ordered(stream', msg_buffer', written')
      BY <1>1 DEF Net, OrderedNow
    <3> QED BY <3>1, FlowTypes
  <2>3. l \in Links /\ l[1] = i /\ l[2] \in T
    BY <2>1, <2>2
  <2>4. \A k \in Links : k[1] = i /\ k[2] \in T => written'[k] = written[k] + 1
    BY ActFacts, TypeFacts
  <2> HIDE DEF l
  <2>5. written'[l] = written[l] + 1
    BY <2>3, <2>4
  <2> QED BY <2>1, <2>5 DEF l
<1>5. Released(i)' => Released(i)
  BY <1>1 DEF Released, Adds
<1>6. written[<<i, 0>>] \in Nat
  <2>1. <<i, 0>> \in Links
    BY LinkFacts
  <2> QED BY <2>1, <1>1, NetFacts
<1> QED BY <1>1, <1>2, <1>3, <1>4, <1>5, <1>6 DEF Owns

\* What the node knows of the end of node 0.
LEMMA TermsRest ==
  ASSUME NEW i \in Workers, NEW T, NEW type, Act(i, T, type), TermsAt(i), AllOver => AllOver',
         0 \in terminated'[i] => \/ 0 \in terminated[i]
                                 \/ \E m \in Net : /\ m.sender_id = 0 /\ m.receiver_id = i
                                                   /\ m.msg_type = "NODE_TERMINATE"
  PROVE  /\ \A x \in Net' : x.msg_type = "NODE_TERMINATE" /\ x.sender_id = 0 /\ x.receiver_id = i => AllOver'
         /\ 0 \in terminated'[i] => AllOver'
<1>1. \A x \in Net' : x.sender_id = 0 => x \in Net
  <2>1. Adds(i, T, type) /\ i # 0
    BY ActFacts, TypeFacts, LinkFacts
  <2> QED BY <2>1 DEF Adds
<1> QED BY <1>1 DEF TermsAt

\* The program of a worker calls receive, returns or throws.
LEMMA OwnEnter ==
  ASSUME NetOK, NetOK', NEW i \in Workers, NEW T, NEW type, NEW where, Act(i, T, type), Net \subseteq Net',
         Mine(i), AllOver => AllOver', pc[i] = "running", pc'[i] = where,
         \/ type = "IN_WAITING_STATE" /\ where = "receive_data" /\ T = {0}
         \/ type = "NODE_TERMINATE" /\ where = "closing" /\ T = Nodes
         \/ type = "READ_ERROR" /\ where = "failed",
         terminated' = terminated, current_epoch' = current_epoch
  PROVE  Mine(i)'
<1>0. Owns(i, T, type)
  BY OwnFacts
<1>1. ~Over(i) /\ ~Released(i) /\ ~Released(i)'
  <2>1. ~Over(i) /\ ~Released(i)
    BY DEF Over, Mine, ToldsAt
  <2> QED BY <2>1, <1>0 DEF Owns
<1>2. i \notin terminated[0] /\ \A x \in Net : ~(x.msg_type = "NODE_TERMINATE" /\ x.sender_id = i)
  BY <1>1, Alive DEF Mine
<1>3. WaitsAt(i)'
  <2> SUFFICES ASSUME NEW x \in Net', x.msg_type = "IN_WAITING_STATE", x.sender_id = i
               PROVE  \/ \E g \in Net' : g.msg_type = "GOT_MESSAGE" /\ g.sender_id = i /\ g.num = x.num + 1
                      \/ pc'[i] = "receive_data" /\ ~Released(i)' /\ x.num = written'[<<i, 0>>]
    BY DEF WaitsAt, IsNotice
  <2>1. CASE x \in Net
    <3>1. \E g \in Net : g.msg_type = "GOT_MESSAGE" /\ g.sender_id = i /\ g.num = x.num + 1
      BY <2>1 DEF Mine, WaitsAt
    <3> QED BY <3>1
  <2>2. CASE x \notin Net
    <3>1. type = "IN_WAITING_STATE"
      BY <2>2, <1>0 DEF Owns
    <3>2. x.receiver_id = 0 /\ x.num = written'[<<i, 0>>]
      <4>1. x.receiver_id = 0
        BY DEF NetOK
      <4> QED BY <4>1, <2>2, <1>0 DEF Owns
    <3> QED BY <3>1, <3>2, <1>1
  <2> QED BY <2>1, <2>2
<1>4. TermsAt(i)'
  <2>1. \A x \in Net' : x.msg_type = "NODE_TERMINATE" /\ x.sender_id = i =>
         x.num = written'[<<i, x.receiver_id>>] /\ Over(i)'
    <3> TAKE x \in Net'
    <3> HAVE x.msg_type = "NODE_TERMINATE" /\ x.sender_id = i
    <3>1. x \notin Net
      BY <1>2
    <3>2. x.num = written'[<<i, x.receiver_id>>] /\ type = "NODE_TERMINATE"
      BY <3>1, <1>0 DEF Owns
    <3> QED BY <3>2 DEF Over
  <2>2. i \notin terminated'[0]
    BY <1>2
  <2>3. /\ \A x \in Net' : x.msg_type = "NODE_TERMINATE" /\ x.sender_id = 0 /\ x.receiver_id = i => AllOver'
        /\ 0 \in terminated'[i] => AllOver'
    BY TermsRest DEF Mine
  <2> QED BY <2>1, <2>2, <2>3 DEF TermsAt
<1>5. ToldsAt(i)'
  <2>1. \A x \in Net' : ~(x.msg_type = "SEE_ALL_IN_WAITING_STATE" /\ x.receiver_id = i)
    BY <1>1 DEF Released
  <2>2. current_epoch[0] = current_epoch[i] + 0
    BY <1>1 DEF Mine, ToldsAt
  <2> QED BY <2>1, <2>2, <1>1 DEF ToldsAt
<1> QED BY <1>3, <1>4, <1>5 DEF Mine

\* The parts of Base.
LEMMA BaseFacts ==
  ASSUME Base
  PROVE  /\ SimpleTypes /\ OrderedNow /\ NetOK /\ terminated[0] \subseteq Workers
         /\ \A i \in Workers : Mine(i) /\ SentsAt(i)
  BY DEF Base, WorkersOK, Mine

\* A worker gets content: its last notice was that it waits.
LEMMA OwnContent ==
  ASSUME Base, NetOK', NEW i \in Workers, AllOver => AllOver', PopContent(i)
  PROVE  Mine(i)'
<1>0. /\ SimpleTypes /\ OrderedNow /\ NetOK /\ Mine(i) /\ i \in Nodes
  BY BaseFacts, LinkFacts
<1>1. Act(i, {0}, "GOT_MESSAGE") /\ Pulls(i, "MESSAGE_HEADER")
  BY <1>0, PopContentAct
<1>2. Owns(i, {0}, "GOT_MESSAGE")
  BY <1>1, OwnFacts
<1>3. PICK m \in Net : /\ Popped(m, i) /\ m = Head(msg_buffer[i])
                       /\ m.msg_type = "MESSAGE_HEADER" /\ Net \ Net' = {m}
  BY <1>1 DEF Pulls
<1>4. /\ pc[i] = "receive_data" /\ pc'[i] = "running" /\ m.epoch <= current_epoch[i]
      /\ terminated' = terminated /\ current_epoch' = current_epoch
  BY <1>0, <1>3 DEF PopContent, Pop, Within, Goes, SimpleTypes
<1>5. ~Over(i) /\ ~Released(i) /\ ~Released(i)'
  <2>1. m.epoch = current_epoch[0] /\ current_epoch[0] \in Nat /\ current_epoch[i] \in Nat
    BY <1>0, <1>3, LinkFacts DEF NetOK, SimpleTypes
  <2>2. ~Released(i)
    BY <2>1, <1>0, <1>4 DEF Mine, ToldsAt
  <2> QED BY <2>2, <1>2, <1>4 DEF Over, Owns
<1>6. i \notin terminated[0] /\ \A x \in Net : ~(x.msg_type = "NODE_TERMINATE" /\ x.sender_id = i)
  BY <1>0, <1>5, Alive DEF Mine
<1>7. WaitsAt(i)'
  <2> SUFFICES ASSUME NEW x \in Net', x.msg_type = "IN_WAITING_STATE", x.sender_id = i
               PROVE  \E g \in Net' : g.msg_type = "GOT_MESSAGE" /\ g.sender_id = i /\ g.num = x.num + 1
    BY DEF WaitsAt, IsNotice
  <2>1. x \in Net
    BY <1>2 DEF Owns
  <2>2. CASE \E g \in Net : g.msg_type = "GOT_MESSAGE" /\ g.sender_id = i /\ g.num = x.num + 1
    BY <2>2, <1>3
  <2>3. CASE x.num = written[<<i, 0>>]
    <3>1. PICK g \in Net' : g \notin Net /\ g.msg_type = "GOT_MESSAGE" /\ g.receiver_id = 0
      <4>1. i # 0 /\ \A j \in {0} : j # i => \E y \in Net' : y \notin Net /\ y.msg_type = "GOT_MESSAGE" /\ y.receiver_id = j
        BY <1>0, <1>1, ActFacts, LinkFacts
      <4> QED BY <4>1
    <3>2. g.sender_id = i
      BY <3>1, <1>2 DEF Owns, Adds
    <3>3. g.num = written[<<i, 0>>] + 1
      BY <3>1, <1>2 DEF Owns
    <3> QED BY <3>1, <3>2, <3>3, <2>3
  <2> QED BY <2>1, <2>2, <2>3, <1>0, <1>4 DEF Mine, WaitsAt
<1>8. TermsAt(i)'
  <2>1. \A x \in Net' : ~(x.msg_type = "NODE_TERMINATE" /\ x.sender_id = i)
    BY <1>2, <1>6 DEF Owns
  <2>2. /\ \A x \in Net' : x.msg_type = "NODE_TERMINATE" /\ x.sender_id = 0 /\ x.receiver_id = i => AllOver'
        /\ 0 \in terminated'[i] => AllOver'
    BY <1>0, <1>1, <1>4, TermsRest DEF Mine
  <2> QED BY <2>1, <2>2, <1>4, <1>6 DEF TermsAt
<1>9. ToldsAt(i)'
  <2>1. \A x \in Net' : ~(x.msg_type = "SEE_ALL_IN_WAITING_STATE" /\ x.receiver_id = i)
    BY <1>5 DEF Released
  <2>2. current_epoch[0] = current_epoch[i] + 0
    BY <1>0, <1>4, <1>5 DEF Mine, ToldsAt
  <2> QED BY <2>1, <2>2, <1>4, <1>5 DEF ToldsAt
<1> QED BY <1>7, <1>8, <1>9 DEF Mine

\* A worker gets the notice that the superstep ended: nothing of it is left.
LEMMA OwnSeeAll ==
  ASSUME Base, NetOK', NEW i \in Workers, AllOver => AllOver', PopSeeAll(i)
  PROVE  Mine(i)'
<1>0. /\ SimpleTypes /\ OrderedNow /\ NetOK /\ Mine(i) /\ i \in Nodes /\ i # 0
  BY BaseFacts, LinkFacts
<1>1. Act(i, {}, "READ_ERROR") /\ Pulls(i, "SEE_ALL_IN_WAITING_STATE")
  BY <1>0, SilentPop DEF PopSeeAll
<1>2. Owns(i, {}, "READ_ERROR")
  BY <1>1, OwnFacts
<1>3. PICK m \in Net : /\ Popped(m, i) /\ m.msg_type = "SEE_ALL_IN_WAITING_STATE" /\ Net \ Net' = {m}
  BY <1>1 DEF Pulls
<1>4. Net' = Net \ {m} /\ m.receiver_id = i /\ Released(i)
  BY <1>2, <1>3 DEF Owns, Popped, Released
<1>5. /\ pc[i] \in {"receive_data", "failed"} /\ \A y \in Net : ~IsNotice(y, i)
      /\ \A x \in Net : x.msg_type = "SEE_ALL_IN_WAITING_STATE" /\ x.receiver_id = i => x = m
      /\ pc[i] = "receive_data" => current_epoch[0] = current_epoch[i] + 1
  <2>1. \A x, y \in Net : x.msg_type = "SEE_ALL_IN_WAITING_STATE" /\ x.receiver_id = i
                          /\ y.msg_type = "SEE_ALL_IN_WAITING_STATE" /\ y.receiver_id = i => x = y
    BY <1>0 DEF Mine, ToldsAt
  <2>2. pc[i] \in {"receive_data", "failed"} /\ \A y \in Net : ~IsNotice(y, i)
    BY <1>0, <1>4 DEF Mine, ToldsAt
  <2>3. pc[i] = "receive_data" => current_epoch[0] = current_epoch[i] + 1
    BY <1>0, <1>4 DEF Mine, ToldsAt
  <2> QED BY <2>1, <2>2, <2>3, <1>3, <1>4
<1>6. /\ pc[i] = "receive_data" /\ pc'[i] = "running" /\ terminated' = terminated
      /\ current_epoch'[i] = current_epoch[i] + 1 /\ current_epoch'[0] = current_epoch[0]
  <2>1. pc[i] # "failed"
    BY DEF PopSeeAll, Pop
  <2> QED BY <2>1, <1>0, <1>5, LinkFacts DEF PopSeeAll, Goes, SimpleTypes
<1>7. \A y \in Net' : ~IsNotice(y, i)
  BY <1>4, <1>5 DEF IsNotice
<1>8. WaitsAt(i)'
  <2> SUFFICES ASSUME NEW x \in Net', x.msg_type = "IN_WAITING_STATE", x.sender_id = i PROVE FALSE
    BY DEF WaitsAt, IsNotice
  <2>1. x.receiver_id = 0
    BY DEF NetOK
  <2> QED BY <2>1, <1>7 DEF IsNotice, Notices
<1>9. TermsAt(i)'
  <2>1. ~Over(i)
    BY <1>6 DEF Over
  <2>2. i \notin terminated[0] /\ \A x \in Net : ~(x.msg_type = "NODE_TERMINATE" /\ x.sender_id = i)
    BY <2>1, <1>0, Alive DEF Mine
  <2>3. /\ \A x \in Net' : x.msg_type = "NODE_TERMINATE" /\ x.sender_id = 0 /\ x.receiver_id = i => AllOver'
        /\ 0 \in terminated'[i] => AllOver'
    BY <1>0, <1>1, <1>6, TermsRest DEF Mine
  <2> QED BY <2>2, <2>3, <1>4, <1>6 DEF TermsAt
<1>10. ToldsAt(i)'
  <2>1. \A x \in Net' : ~(x.msg_type = "SEE_ALL_IN_WAITING_STATE" /\ x.receiver_id = i)
    BY <1>4, <1>5
  <2>2. ~Released(i)'
    BY <2>1 DEF Released
  <2>3. current_epoch'[0] = current_epoch'[i] + 0
    BY <1>0, <1>5, <1>6 DEF SimpleTypes
  <2> QED BY <2>1, <2>2, <2>3 DEF ToldsAt
<1> QED BY <1>8, <1>9, <1>10 DEF Mine

\* A worker ends as it reads the stream: its last notice stays the last.
LEMMA OwnEnd ==
  ASSUME Base, NetOK', NEW i \in Workers, AllOver => AllOver', NEW T, NEW type, Act(i, T, type),
         type \in {"READ_ERROR", "NODE_TERMINATE"}, pc[i] = "closing" => T = {},
         \A x \in Net \ Net' : x.msg_type \notin {"GOT_MESSAGE", "SEE_ALL_IN_WAITING_STATE"},
         \/ pc[i] = "receive_data" /\ pc'[i] = "failed" /\ type = "READ_ERROR"
         \/ pc[i] = "closing" /\ Over(i)',
         terminated' = terminated, current_epoch' = current_epoch
  PROVE  Mine(i)'
<1>0. /\ SimpleTypes /\ OrderedNow /\ NetOK /\ Mine(i) /\ i \in Nodes /\ i # 0
  BY BaseFacts, LinkFacts
<1>1. Owns(i, T, type) /\ (T = {} \/ pc[i] = "receive_data")
  BY OwnFacts
<1>2. \A x \in Net' : x.sender_id = i /\ x \notin Net =>
        type = "READ_ERROR" /\ x.msg_type = "READ_ERROR" /\ pc[i] = "receive_data"
  <2> SUFFICES ASSUME NEW x \in Net', x.sender_id = i, x \notin Net
               PROVE  type = "READ_ERROR" /\ x.msg_type = "READ_ERROR" /\ pc[i] = "receive_data"
    OBVIOUS
  <2>1. x.receiver_id \in T /\ x.msg_type = type
    BY <1>1 DEF Owns
  <2> QED BY <2>1
<1>3. \A y \in Net' : IsNotice(y, i) => y \in Net
  BY <1>2 DEF IsNotice, Notices
<1>4. WaitsAt(i)'
  <2> SUFFICES ASSUME NEW x \in Net', x.msg_type = "IN_WAITING_STATE", x.sender_id = i
               PROVE  \/ \E g \in Net' : g.msg_type = "GOT_MESSAGE" /\ g.sender_id = i /\ g.num = x.num + 1
                      \/ pc'[i] = "failed" /\ \A y \in Net' : IsNotice(y, i) => y.num <= x.num
    BY DEF WaitsAt, IsNotice
  <2>1. x \in Net
    BY <1>2
  <2>2. CASE \E g \in Net : g.msg_type = "GOT_MESSAGE" /\ g.sender_id = i /\ g.num = x.num + 1
    BY <2>2
  <2>3. CASE pc[i] = "receive_data" /\ x.num = written[<<i, 0>>]
    <3>1. \A y \in Net' : IsNotice(y, i) => y.num <= x.num
      <4> SUFFICES ASSUME NEW y \in Net', IsNotice(y, i) PROVE y.num <= x.num
        OBVIOUS
      <4>1. y \in Net /\ y.sender_id = i /\ y.receiver_id = 0
        BY <1>3 DEF IsNotice
      <4>2. y.num <= written[<<y.sender_id, y.receiver_id>>]
        BY <4>1, <1>0, NetFacts
      <4> QED BY <4>1, <4>2, <2>3
    <3> QED BY <3>1, <2>3
  <2> QED BY <2>1, <2>2, <2>3, <1>0 DEF Mine, WaitsAt
<1>5. TermsAt(i)'
  <2>1. \A x \in Net' : x.msg_type = "NODE_TERMINATE" /\ x.sender_id = i =>
         x.num = written'[<<i, x.receiver_id>>] /\ Over(i)'
    <3> TAKE x \in Net'
    <3> HAVE x.msg_type = "NODE_TERMINATE" /\ x.sender_id = i
    <3>1. x \in Net
      BY <1>2
    <3>2. x.num = written[<<i, x.receiver_id>>] /\ Over(i)
      BY <3>1, <1>0 DEF Mine, TermsAt
    <3>3. pc[i] = "closing"
      BY <3>2 DEF Over
    <3> DEFINE l == <<i, x.receiver_id>>
    <3>4. l \in Links /\ l[1] = i
      BY <3>1, <1>0, NetFacts
    <3> HIDE DEF l
    <3>5. written'[l] = written[l]
      BY <3>3, <3>4, <1>1 DEF Owns
    <3> QED BY <3>2, <3>3, <3>5 DEF l
  <2>2. i \in terminated'[0] => /\ Over(i)' /\ stream'[<<i, 0>>] = <<>>
                                /\ \A y \in Net' : ~IsNotice(y, i)
    <3> HAVE i \in terminated'[0]
    <3>1. Over(i) /\ stream[<<i, 0>>] = <<>> /\ \A y \in Net : ~IsNotice(y, i)
      BY <1>0 DEF Mine, TermsAt
    <3>2. pc[i] = "closing"
      BY <3>1 DEF Over
    <3>3. <<i, 0>> \in Links /\ <<i, 0>>[1] = i
      BY <1>0, LinkFacts
    <3>4. stream'[<<i, 0>>] = stream[<<i, 0>>]
      BY <3>2, <3>3, <1>1 DEF Owns
    <3> QED BY <3>1, <3>2, <3>4, <1>3
  <2>3. /\ \A x \in Net' : x.msg_type = "NODE_TERMINATE" /\ x.sender_id = 0 /\ x.receiver_id = i => AllOver'
        /\ 0 \in terminated'[i] => AllOver'
    BY <1>0, TermsRest DEF Mine
  <2> QED BY <2>1, <2>2, <2>3 DEF TermsAt, IsNotice
<1>6. ToldsAt(i)'
  <2>1. \A x \in Net' : x.msg_type = "SEE_ALL_IN_WAITING_STATE" => x \in Net
    <3>1. \A x \in Net' : x \notin Net => x.msg_type = type
      BY <1>1 DEF Owns, Adds
    <3> QED BY <3>1
  <2>2. \A x, y \in Net : x.msg_type = "SEE_ALL_IN_WAITING_STATE" /\ x.receiver_id = i
                          /\ y.msg_type = "SEE_ALL_IN_WAITING_STATE" /\ y.receiver_id = i => x = y
    BY <1>0 DEF Mine, ToldsAt
  <2>3. Released(i)' => pc'[i] \in {"receive_data", "failed"} /\ \A y \in Net' : ~IsNotice(y, i)
    <3> HAVE Released(i)'
    <3>1. Released(i)
      BY <1>1 DEF Owns
    <3>2. pc[i] \in {"receive_data", "failed"} /\ \A y \in Net : ~IsNotice(y, i)
      BY <3>1, <1>0 DEF Mine, ToldsAt
    <3> QED BY <3>2, <1>3
  <2>4. pc'[i] \notin {"running", "receive_data"}
    BY DEF Over
  <2> QED BY <2>1, <2>2, <2>3, <2>4 DEF ToldsAt, IsNotice
<1> QED BY <1>4, <1>5, <1>6 DEF Mine

\* A worker sends: it does not wait, and has not ended.
LEMMA OwnSend ==
  ASSUME Base, NetOK', NEW i \in Workers, AllOver => AllOver', NEW l \in Links, l[1] = i, send_data(l),
         NEW c, NEW New, Sending(l, c, New)
  PROVE  Mine(i)'
<1>0. /\ SimpleTypes /\ OrderedNow /\ NetOK /\ Mine(i) /\ i \in Nodes /\ i # 0
  BY BaseFacts, LinkFacts
<1>1. /\ Net \subseteq Net'
      /\ \A x \in Net' : x \notin Net => x.msg_type \in {"MESSAGE_HEADER", "SENT_MESSAGE"} /\ x.sender_id = i
  BY DEF Sending
<1>2. /\ pc[i] = "running" /\ pc' = pc /\ terminated' = terminated /\ current_epoch' = current_epoch
  BY DEF send_data
<1>3. ~Over(i) /\ ~Released(i) /\ ~Released(i)'
  <2>1. ~Over(i) /\ ~Released(i)
    BY <1>0, <1>2 DEF Over, Mine, ToldsAt
  <2> QED BY <2>1, <1>1 DEF Released
<1>4. i \notin terminated[0] /\ \A x \in Net : ~(x.msg_type = "NODE_TERMINATE" /\ x.sender_id = i)
  BY <1>0, <1>3, Alive DEF Mine
<1>5. WaitsAt(i)'
  <2> SUFFICES ASSUME NEW x \in Net', x.msg_type = "IN_WAITING_STATE", x.sender_id = i
               PROVE  \E g \in Net' : g.msg_type = "GOT_MESSAGE" /\ g.sender_id = i /\ g.num = x.num + 1
    BY DEF WaitsAt, IsNotice
  <2>1. x \in Net
    BY <1>1
  <2>2. \E g \in Net : g.msg_type = "GOT_MESSAGE" /\ g.sender_id = i /\ g.num = x.num + 1
    BY <2>1, <1>0, <1>2 DEF Mine, WaitsAt
  <2> QED BY <2>2, <1>1
<1>6. TermsAt(i)'
  <2>1. \A x \in Net' : ~(x.msg_type = "NODE_TERMINATE" /\ x.sender_id = i)
    BY <1>1, <1>4
  <2>2. \A x \in Net' : x.msg_type = "NODE_TERMINATE" /\ x.sender_id = 0 /\ x.receiver_id = i => AllOver'
    BY <1>0, <1>1 DEF Mine, TermsAt
  <2>3. 0 \in terminated'[i] => AllOver'
    BY <1>0, <1>2 DEF Mine, TermsAt
  <2> QED BY <2>1, <2>2, <2>3, <1>2, <1>4 DEF TermsAt
<1>7. ToldsAt(i)'
  <2>1. \A x \in Net' : ~(x.msg_type = "SEE_ALL_IN_WAITING_STATE" /\ x.receiver_id = i)
    BY <1>3 DEF Released
  <2>2. current_epoch[0] = current_epoch[i] + 0
    BY <1>0, <1>2, <1>3 DEF Mine, ToldsAt
  <2> QED BY <2>1, <2>2, <1>2, <1>3 DEF ToldsAt
<1> QED BY <1>5, <1>6, <1>7 DEF Mine

\* Node i acts: the other nodes stand still.
Moves(i) ==
  /\ pc[i] \in {"running", "receive_data", "closing"}
  /\ \A j \in Nodes : j # i => pc'[j] = pc[j] /\ current_epoch'[j] = current_epoch[j]
  /\ current_epoch'[0] = current_epoch[0]
  /\ \A m \in Net \ Net' : Popped(m, i)

\* A node takes note only of messages of the others that end.
Learns(i) ==
  /\ \A j \in Nodes : j # i => terminated'[j] = terminated[j]
  /\ terminated'[i] = terminated[i] \/
     \E m \in Net \ Net' : /\ Popped(m, i) /\ m.msg_type = "NODE_TERMINATE"
                           /\ terminated'[i] = terminated[i] \cup {m.sender_id}

\* The workers keep what is true of them when node i acts, if i does.
LEMMA WorkersStep ==
  ASSUME Base, NetOK', NEW i \in Nodes, NEW T, NEW type, Act(i, T, type),
         type \notin {"SEE_ALL_IN_WAITING_STATE", "SENT_MESSAGE"}, Moves(i), Learns(i),
         i = 0 /\ type = "NODE_TERMINATE" => T = {} \/ AllOver',
         i \in Workers => WaitsAt(i)' /\ TermsAt(i)' /\ ToldsAt(i)'
  PROVE  WorkersOK'
<1>0. /\ SimpleTypes /\ OrderedNow /\ NetOK /\ \A j \in Workers : Mine(j) /\ SentsAt(j)
      /\ OrderedNow' /\ Adds(i, T, type)
  BY BaseFacts, ActFacts
<1>1. ASSUME NEW j \in Workers PROVE SentsAt(j)'
  BY <1>0, SentsStep DEF Moves
<1>2. AllOver => AllOver'
  <2> HAVE AllOver
  <2>1. i # 0
    BY DEF AllOver, Moves
  <2> QED BY <2>1, LinkFacts DEF AllOver, Moves, Learns, AllTerminated
<1>3. ASSUME NEW j \in Workers, j # i PROVE WaitsAt(j)' /\ TermsAt(j)' /\ ToldsAt(j)'
  <2>0. j \in Nodes /\ j # 0
    BY LinkFacts
  <2>1. Still(i, j)
    <3>1. \A x \in Net' : x \in Net \/ (x.sender_id # j /\ x.msg_type # "SEE_ALL_IN_WAITING_STATE")
      BY <1>0, <1>3 DEF Adds
    <3>2. \A x \in Net \ Net' : /\ Popped(x, i)
                                /\ x.msg_type = "SEE_ALL_IN_WAITING_STATE" => x.receiver_id # j
      BY <1>3 DEF Moves, Popped
    <3>3. \A l \in Links : l[1] = j => written'[l] = written[l] /\ stream'[l] = stream[l]
      BY <1>3, ActFacts
    <3> QED BY <1>0, <1>3, <2>0, <3>1, <3>2, <3>3 DEF Still, Moves
  <2>2. j \in terminated'[0] => \/ j \in terminated[0]
                                \/ \E m \in Net \ Net' : /\ Popped(m, 0) /\ m.sender_id = j
                                                         /\ m.msg_type = "NODE_TERMINATE"
    BY LinkFacts DEF Learns
  <2>3. terminated'[j] = terminated[j]
    BY <1>3, <2>0 DEF Learns
  <2>4. \A x \in Net' \ Net : x.msg_type = "NODE_TERMINATE" /\ x.sender_id = 0 => AllOver'
    BY <1>0 DEF Adds
  <2>5. WaitsAt(j) /\ TermsAt(j) /\ ToldsAt(j)
    BY <1>0 DEF Mine
  <2> QED BY <1>2, <2>1, <2>2, <2>3, <2>4, <2>5, StillWaits, StillTerms, StillTolds
<1> QED BY <1>1, <1>3 DEF WorkersOK

\* Once all are over they stay so.
LEMMA LiveStep ==
  ASSUME NEW i \in Nodes, SimpleTypes, Moves(i), Learns(i)
  PROVE  AllOver => AllOver'
<1> HAVE AllOver
<1>1. i # 0
  BY DEF AllOver, Moves
<1> QED BY <1>1, LinkFacts DEF AllOver, Moves, Learns, AllTerminated

\* Each action preserves Base.
LEMMA EnterReceiveBase ==
  ASSUME Base, NEW i \in Nodes, EnterReceive(i)
  PROVE  Base'
<1>0. SimpleTypes /\ OrderedNow /\ NetOK /\ terminated[0] \subseteq Workers
  BY BaseFacts
<1>1. Act(i, {0}, "IN_WAITING_STATE") /\ Net \subseteq Net'
  BY <1>0, EnterReceiveAct
<1>2. NetOK'
  BY <1>0, <1>1, NetStep, TypeFacts DEF EnterReceive
<1>3. /\ terminated' = terminated /\ current_epoch' = current_epoch
      /\ pc[i] = "running" /\ pc' = [pc EXCEPT ![i] = "receive_data"]
  BY DEF EnterReceive, Goes
<1>4. SimpleTypes'
  BY <1>0, <1>3 DEF EnterReceive, counters, SimpleTypes
<1>5. Moves(i) /\ Learns(i)
  BY <1>0, <1>1, <1>3 DEF Moves, Learns, SimpleTypes
<1>6. i \in Workers => Mine(i)'
  BY <1>0, <1>1, <1>2, <1>3, <1>5, LiveStep, OwnEnter, BaseFacts DEF SimpleTypes
<1>7. WorkersOK'
  BY <1>1, <1>2, <1>5, <1>6, WorkersStep DEF Mine
<1> QED BY <1>0, <1>1, <1>2, <1>3, <1>4, <1>7, ActFacts DEF Base

LEMMA EnterCloseBase ==
  ASSUME Base, NEW i \in Nodes, EnterClose(i)
  PROVE  Base'
<1> DEFINE T == IF i = 0 THEN {} ELSE Nodes
<1>0. SimpleTypes /\ OrderedNow /\ NetOK /\ terminated[0] \subseteq Workers
  BY BaseFacts
<1>1. Act(i, T, "NODE_TERMINATE") /\ Net \subseteq Net'
  BY <1>0, EnterCloseAct
<1>t. (i = 0 => T = {}) /\ (i \in Workers => T = Nodes)
  BY LinkFacts
<1> HIDE DEF T
<1>2. NetOK'
  BY <1>0, <1>1, NetStep, TypeFacts DEF EnterClose
<1>3. /\ terminated' = terminated /\ current_epoch' = current_epoch
      /\ pc[i] = "running" /\ pc' = [pc EXCEPT ![i] = "closing"]
  BY DEF EnterClose, Goes
<1>4. SimpleTypes'
  BY <1>0, <1>3 DEF EnterClose, counters, SimpleTypes
<1>5. Moves(i) /\ Learns(i)
  BY <1>0, <1>1, <1>3 DEF Moves, Learns, SimpleTypes
<1>6. i \in Workers => Mine(i)'
  BY <1>0, <1>1, <1>2, <1>3, <1>5, <1>t, LiveStep, OwnEnter, BaseFacts DEF SimpleTypes
<1>7. WorkersOK'
  BY <1>1, <1>2, <1>5, <1>6, <1>t, WorkersStep DEF Mine
<1> QED BY <1>0, <1>1, <1>2, <1>3, <1>4, <1>7, ActFacts DEF Base

LEMMA CrashBase ==
  ASSUME Base, NEW i \in Nodes, Crash(i)
  PROVE  Base'
<1>0. SimpleTypes /\ OrderedNow /\ NetOK /\ terminated[0] \subseteq Workers
  BY BaseFacts
<1>1. Act(i, Nodes, "READ_ERROR") /\ Net \subseteq Net'
  BY <1>0, CrashAct
<1>2. NetOK'
  BY <1>0, <1>1, NetStep, TypeFacts DEF Crash
<1>3. /\ terminated' = terminated /\ current_epoch' = current_epoch
      /\ pc[i] = "running" /\ pc' = [pc EXCEPT ![i] = "failed"]
  BY DEF Crash, Goes
<1>4. SimpleTypes'
  BY <1>0, <1>3 DEF Crash, counters, SimpleTypes
<1>5. Moves(i) /\ Learns(i)
  BY <1>0, <1>1, <1>3 DEF Moves, Learns, SimpleTypes
<1>6. i \in Workers => Mine(i)'
  BY <1>0, <1>1, <1>2, <1>3, <1>5, LiveStep, OwnEnter, BaseFacts DEF SimpleTypes
<1>7. WorkersOK'
  BY <1>1, <1>2, <1>5, <1>6, WorkersStep DEF Mine
<1> QED BY <1>0, <1>1, <1>2, <1>3, <1>4, <1>7, ActFacts DEF Base

LEMMA PopContentBase ==
  ASSUME Base, NEW i \in Nodes, PopContent(i)
  PROVE  Base'
<1>0. SimpleTypes /\ OrderedNow /\ NetOK /\ terminated[0] \subseteq Workers
  BY BaseFacts
<1>1. Act(i, {0}, "GOT_MESSAGE") /\ Pulls(i, "MESSAGE_HEADER")
  BY <1>0, PopContentAct
<1>p. PICK m \in Net : Popped(m, i) /\ m.msg_type = "MESSAGE_HEADER" /\ Net \ Net' = {m}
  BY <1>1 DEF Pulls
<1>r. \E l \in Routes : l[2] = i
  <2>1. <<m.sender_id, m.receiver_id>> \in Routes /\ m.receiver_id = i
    BY <1>0, <1>p DEF NetOK, Popped
  <2> QED BY <2>1, LinkFacts
<1>3. /\ terminated' = terminated /\ current_epoch' = current_epoch
      /\ pc[i] = "receive_data" /\ pc' = [pc EXCEPT ![i] = "running"]
  BY DEF PopContent, Goes
<1>2. NetOK'
  BY <1>0, <1>1, <1>3, <1>r, NetStep, TypeFacts
<1>4. SimpleTypes'
  BY <1>0, <1>3 DEF PopContent, Got, SimpleTypes
<1>5. Moves(i) /\ Learns(i)
  BY <1>0, <1>p, <1>3 DEF Moves, Learns, SimpleTypes
<1>6. i \in Workers => Mine(i)'
  BY <1>0, <1>2, <1>5, LiveStep, OwnContent
<1>7. WorkersOK'
  BY <1>1, <1>2, <1>5, <1>6, WorkersStep DEF Mine
<1> QED BY <1>0, <1>1, <1>2, <1>3, <1>4, <1>7, ActFacts DEF Base

LEMMA PopSeeAllBase ==
  ASSUME Base, NEW i \in Nodes, PopSeeAll(i)
  PROVE  Base' /\ i \in Workers
<1>0. SimpleTypes /\ OrderedNow /\ NetOK /\ terminated[0] \subseteq Workers
  BY BaseFacts
<1>1. Act(i, {}, "READ_ERROR") /\ Pulls(i, "SEE_ALL_IN_WAITING_STATE")
  BY <1>0, SilentPop DEF PopSeeAll
<1>p. PICK m \in Net : Popped(m, i) /\ m.msg_type = "SEE_ALL_IN_WAITING_STATE" /\ Net \ Net' = {m}
  BY <1>1 DEF Pulls
<1>i. i \in Workers /\ i # 0
  <2>1. m.sender_id = 0 /\ m.sender_id # m.receiver_id /\ m.receiver_id = i
    BY <1>0, <1>p, NetFacts DEF NetOK, Popped
  <2> QED BY <2>1 DEF Workers
<1>3. /\ terminated' = terminated /\ pc[i] \in {"receive_data", "closing"}
      /\ \/ current_epoch' = current_epoch /\ pc' = pc
         \/ current_epoch' = [current_epoch EXCEPT ![i] = current_epoch[i] + 1] /\ pc' = [pc EXCEPT ![i] = "running"]
  BY DEF PopSeeAll, Pop, Goes
<1>2. NetOK'
  <2>1. current_epoch'[0] = current_epoch[0]
    BY <1>0, <1>3, <1>i, LinkFacts DEF SimpleTypes
  <2> QED BY <2>1, <1>0, <1>1, NetStep, TypeFacts
<1>4. SimpleTypes'
  BY <1>0, <1>3 DEF PopSeeAll, counters, SimpleTypes
<1>5. Moves(i) /\ Learns(i)
  BY <1>0, <1>p, <1>3, <1>i, LinkFacts DEF Moves, Learns, SimpleTypes
<1>6. i \in Workers => Mine(i)'
  BY <1>0, <1>2, <1>5, LiveStep, OwnSeeAll
<1>7. WorkersOK'
  BY <1>1, <1>2, <1>5, <1>6, WorkersStep DEF Mine
<1> QED BY <1>0, <1>1, <1>2, <1>3, <1>4, <1>7, <1>i, ActFacts DEF Base

LEMMA PopFatalBase ==
  ASSUME Base, NEW i \in Nodes, PopFatal(i)
  PROVE  Base'
<1> DEFINE T == IF i # 0 /\ pc[i] = "closing" THEN {} ELSE Nodes
<1>0. SimpleTypes /\ OrderedNow /\ NetOK /\ terminated[0] \subseteq Workers
  BY BaseFacts
<1>1. /\ Act(i, T, "READ_ERROR")
      /\ \/ Pulls(i, "READ_ERROR") /\ pc' = [pc EXCEPT ![i] = "failed"]
         \/ pc[i] = "closing" /\ Pulls(i, "MESSAGE_HEADER") /\ pc' = [pc EXCEPT ![i] = "refused"]
  BY <1>0, PopFatalAct
<1>t. i \in Workers /\ pc[i] = "closing" => T = {}
  BY LinkFacts
<1> HIDE DEF T
<1>p. PICK m \in Net : /\ Popped(m, i) /\ m.msg_type \in {"READ_ERROR", "MESSAGE_HEADER"} /\ Net \ Net' = {m}
  BY <1>1 DEF Pulls
<1>2. NetOK'
  BY <1>0, <1>1, NetStep, TypeFacts DEF PopFatal
<1>3. /\ terminated' = terminated /\ current_epoch' = current_epoch
      /\ pc[i] \in {"receive_data", "closing"}
      /\ \/ pc' = [pc EXCEPT ![i] = "failed"]
         \/ pc[i] = "closing" /\ pc' = [pc EXCEPT ![i] = "refused"]
  BY DEF PopFatal, Pop, Goes
<1>4. SimpleTypes'
  BY <1>0, <1>3 DEF PopFatal, counters, SimpleTypes
<1>5. Moves(i) /\ Learns(i)
  BY <1>0, <1>p, <1>3 DEF Moves, Learns, SimpleTypes
<1>6. i \in Workers => Mine(i)'
  <2>1. ASSUME i \in Workers
        PROVE  \/ pc[i] = "receive_data" /\ pc'[i] = "failed"
               \/ pc[i] = "closing" /\ Over(i)'
    BY <1>0, <1>3 DEF Over, SimpleTypes
  <2>2. AllOver => AllOver'
    BY <1>0, <1>5, LiveStep
  <2> QED BY <2>1, <2>2, <1>1, <1>2, <1>3, <1>p, <1>t, OwnEnd
<1>7. WorkersOK'
  BY <1>1, <1>2, <1>5, <1>6, WorkersStep DEF Mine
<1> QED BY <1>0, <1>1, <1>2, <1>3, <1>4, <1>7, ActFacts DEF Base

LEMMA CloseBase ==
  ASSUME Base, NEW i \in Nodes, Close(i)
  PROVE  Base'
<1> DEFINE T == IF i # 0 THEN {} ELSE Nodes
<1>0. SimpleTypes /\ OrderedNow /\ NetOK /\ terminated[0] \subseteq Workers
  BY BaseFacts
<1>1. Act(i, T, "NODE_TERMINATE") /\ Net \subseteq Net'
  BY <1>0, CloseAct
<1>t. i \in Workers => T = {}
  BY LinkFacts
<1> HIDE DEF T
<1>2. NetOK'
  BY <1>0, <1>1, NetStep, TypeFacts DEF Close
<1>3. /\ terminated' = terminated /\ current_epoch' = current_epoch
      /\ pc[i] = "closing" /\ AllTerminated(i)
      /\ \E where \in {"closed", "failed"} : pc' = [pc EXCEPT ![i] = where]
  BY DEF Close, Goes
<1>4. SimpleTypes'
  BY <1>0, <1>3 DEF Close, counters, SimpleTypes
<1>5. Moves(i) /\ Learns(i)
  BY <1>0, <1>1, <1>3 DEF Moves, Learns, SimpleTypes
<1>6. i \in Workers => Mine(i)'
  <2>1. Over(i)'
    BY <1>0, <1>3 DEF Over, SimpleTypes
  <2>2. AllOver => AllOver'
    BY <1>0, <1>5, LiveStep
  <2> QED BY <2>1, <2>2, <1>1, <1>2, <1>3, <1>t, OwnEnd
<1>8. i = 0 => AllOver'
  BY <1>0, <1>3, LinkFacts DEF AllOver, AllTerminated, SimpleTypes
<1>7. WorkersOK'
  BY <1>1, <1>2, <1>5, <1>6, <1>8, WorkersStep DEF Mine
<1> QED BY <1>0, <1>1, <1>2, <1>3, <1>4, <1>7, ActFacts DEF Base

LEMMA PopNoticeBase ==
  ASSUME Base, NEW i \in Nodes, PopNotice(i)
  PROVE  Base' /\ i = 0
<1>0. SimpleTypes /\ OrderedNow /\ NetOK /\ terminated[0] \subseteq Workers
  BY BaseFacts
<1>1. /\ Act(i, {}, "READ_ERROR")
      /\ \E type \in {"IN_WAITING_STATE", "GOT_MESSAGE", "SENT_MESSAGE"} : Pulls(i, type)
  <2>1. stream' = stream /\ written' = written
    BY DEF PopNotice
  <2>2. \/ Pop(i, "IN_WAITING_STATE") \/ Pop(i, "GOT_MESSAGE") \/ Pop(i, "SENT_MESSAGE")
    BY DEF PopNotice
  <2>3. CASE Pop(i, "IN_WAITING_STATE")
    BY <2>1, <2>3, <1>0, SilentPop
  <2>4. CASE Pop(i, "GOT_MESSAGE")
    BY <2>1, <2>4, <1>0, SilentPop
  <2>5. CASE Pop(i, "SENT_MESSAGE")
    BY <2>1, <2>5, <1>0, SilentPop
  <2> QED BY <2>2, <2>3, <2>4, <2>5
<1>p. PICK m \in Net : /\ Popped(m, i) /\ m.msg_type \in {"IN_WAITING_STATE", "GOT_MESSAGE", "SENT_MESSAGE"}
                       /\ Net \ Net' = {m}
  BY <1>1 DEF Pulls
<1>i. i = 0 /\ i \notin Workers
  BY <1>0, <1>p, LinkFacts DEF NetOK, Popped
<1>2. NetOK'
  BY <1>0, <1>1, NetStep, TypeFacts DEF PopNotice
<1>3. /\ terminated' = terminated /\ current_epoch' = current_epoch
      /\ pc[i] \in {"receive_data", "closing"} /\ pc' = pc
  BY DEF PopNotice, Pop
<1>4. SimpleTypes'
  BY <1>0, <1>3 DEF PopNotice, SimpleTypes
<1>5. Moves(i) /\ Learns(i)
  BY <1>0, <1>p, <1>3 DEF Moves, Learns, SimpleTypes
<1>7. WorkersOK'
  BY <1>1, <1>2, <1>5, <1>i, WorkersStep
<1> QED BY <1>0, <1>1, <1>2, <1>3, <1>4, <1>7, <1>i, ActFacts DEF Base

LEMMA ReceiveAloneBase ==
  ASSUME Base, NEW i \in Nodes, ReceiveAlone(i)
  PROVE  Base' /\ i = 0
<1>0. SimpleTypes /\ OrderedNow /\ NetOK /\ terminated[0] \subseteq Workers
  BY BaseFacts
<1>1. Act(i, {}, "READ_ERROR") /\ Net' = Net
  BY <1>0, ReceiveAloneAct
<1>3. /\ terminated' = terminated /\ current_epoch' = current_epoch
      /\ pc[i] = "receive_data" /\ AllTerminated(i) /\ pc' = [pc EXCEPT ![i] = "running"]
  BY DEF ReceiveAlone, Goes, Abandoned
<1>i. i = 0 /\ i \notin Workers
  <2> SUFFICES ASSUME i \in Workers PROVE FALSE
    BY LinkFacts DEF Workers
  <2>1. 0 \in terminated[i]
    BY <1>3, LinkFacts DEF AllTerminated
  <2>2. AllOver
    BY <2>1, BaseFacts DEF Mine, TermsAt
  <2>3. i \in terminated[0]
    BY <2>2, LinkFacts DEF AllOver, AllTerminated
  <2>4. Over(i)
    BY <2>3, BaseFacts DEF Mine, TermsAt
  <2> QED BY <2>4, <1>3 DEF Over
<1>2. NetOK'
  BY <1>0, <1>1, <1>3, NetStep, TypeFacts
<1>4. SimpleTypes'
  BY <1>0, <1>3 DEF ReceiveAlone, counters, SimpleTypes
<1>5. Moves(i) /\ Learns(i)
  BY <1>0, <1>1, <1>3 DEF Moves, Learns, SimpleTypes
<1>7. WorkersOK'
  BY <1>1, <1>2, <1>5, <1>i, WorkersStep
<1> QED BY <1>0, <1>1, <1>2, <1>3, <1>4, <1>7, <1>i, ActFacts DEF Base

LEMMA PopTerminateBase ==
  ASSUME Base, NEW i \in Nodes, PopTerminate(i)
  PROVE  Base'
<1>0. SimpleTypes /\ OrderedNow /\ NetOK /\ terminated[0] \subseteq Workers
  BY BaseFacts
<1>1. Act(i, {}, "READ_ERROR") /\ Pulls(i, "NODE_TERMINATE") /\ Adds(i, {}, "READ_ERROR")
  <2>1. Act(i, {}, "READ_ERROR") /\ Pulls(i, "NODE_TERMINATE")
    BY <1>0, SilentPop DEF PopTerminate
  <2> QED BY <2>1, ActFacts
<1>p. PICK m \in Net : /\ Popped(m, i) /\ m = Head(msg_buffer[i])
                       /\ m.msg_type = "NODE_TERMINATE" /\ Net \ Net' = {m}
  BY <1>1 DEF Pulls
<1>m. m.sender_id \in Nodes \ {i} /\ m.receiver_id = i
  BY <1>0, <1>p, NetFacts DEF Popped
<1>3. /\ terminated' = [terminated EXCEPT ![i] = terminated[i] \cup {m.sender_id}]
      /\ current_epoch' = current_epoch /\ pc[i] \in {"receive_data", "closing"} /\ pc' = pc
  BY <1>p DEF PopTerminate, Pop
<1>2. NetOK'
  BY <1>0, <1>1, <1>3, NetStep, TypeFacts
<1>4. SimpleTypes'
  BY <1>0, <1>3, <1>m DEF PopTerminate, counters, SimpleTypes
<1>5. Moves(i) /\ Learns(i)
  BY <1>0, <1>p, <1>3 DEF Moves, Learns, SimpleTypes
<1>8. AllOver => AllOver'
  BY <1>0, <1>5, LiveStep
<1>6. i \in Workers => Mine(i)'
  <2> HAVE i \in Workers
  <2>0. Mine(i) /\ i # 0
    BY BaseFacts, LinkFacts
  <2>1. Still(i, i)
    <3>1. \A l \in Links : l[1] = i => written'[l] = written[l] /\ stream'[l] = stream[l]
      BY <1>1, ActFacts
    <3>2. \A x \in Net' : x \in Net
      BY <1>1 DEF Adds
    <3>3. OrderedNow'
      BY <1>1, ActFacts
    <3> QED BY <1>0, <1>2, <1>3, <1>p, <3>1, <3>2, <3>3 DEF Still
  <2>2. terminated'[0] = terminated[0]
    BY <1>0, <1>3, <2>0, LinkFacts DEF SimpleTypes
  <2>3. 0 \in terminated'[i] => \/ 0 \in terminated[i]
                                 \/ \E x \in Net : /\ x.sender_id = 0 /\ x.receiver_id = i
                                                   /\ x.msg_type = "NODE_TERMINATE"
    BY <1>0, <1>3, <1>p, <1>m DEF SimpleTypes
  <2>4. \A x \in Net' \ Net : x.msg_type = "NODE_TERMINATE" /\ x.sender_id = 0 => AllOver'
    BY <1>1 DEF Adds
  <2> QED BY <1>8, <2>0, <2>1, <2>2, <2>3, <2>4, StillWaits, StillTerms, StillTolds DEF Mine
<1>7. WorkersOK'
  BY <1>1, <1>2, <1>5, <1>6, WorkersStep DEF Mine
<1>9. terminated'[0] \subseteq Workers
  BY <1>0, <1>3, <1>m, LinkFacts DEF SimpleTypes, Workers
<1> QED BY <1>0, <1>1, <1>2, <1>4, <1>7, <1>9, ActFacts DEF Base

\* A read thread only moves a message on.
LEMMA ReadBase ==
  ASSUME Base, NEW l \in Links, read_thread(l)
  PROVE  Base'
<1>0. SimpleTypes /\ OrderedNow /\ NetOK /\ terminated[0] \subseteq Workers
  BY BaseFacts
<1>1. /\ Net' = Net /\ OrderedNow'
      /\ \A k \in Links : stream[k] = <<>> => stream'[k] = <<>>
  BY <1>0, ReadAct
<1>2. /\ outstanding_messages' = outstanding_messages /\ num_waiting_nodes' = num_waiting_nodes
      /\ terminated' = terminated /\ current_epoch' = current_epoch /\ pc' = pc /\ sent' = sent
      /\ written' = written
  BY DEF read_thread, counters
<1>3. SimpleTypes'
  BY <1>0, <1>2 DEF SimpleTypes
<1>4. NetOK'
  BY <1>0, <1>1, <1>2 DEF NetOK
<1>5. ASSUME NEW j \in Workers
      PROVE  WaitsAt(j)' /\ SentsAt(j)' /\ TermsAt(j)' /\ ToldsAt(j)'
  <2>1. Still(0, j)
    BY <1>0, <1>1, <1>2, <1>4 DEF Still
  <2>2. Mine(j) /\ SentsAt(j)
    BY BaseFacts
  <2>3. SentsAt(j)'
    BY <1>1, <2>2 DEF SentsAt
  <2>4. AllOver => AllOver'
    BY <1>2 DEF AllOver, AllTerminated
  <2>5. 0 \in Nodes
    BY LinkFacts
  <2> QED BY <1>1, <1>2, <2>1, <2>2, <2>3, <2>4, <2>5, StillWaits, StillTerms, StillTolds DEF Mine
<1> QED BY <1>0, <1>1, <1>2, <1>3, <1>4, <1>5 DEF Base, WorkersOK

\* A worker that gets messages sends to the control node only.
DirectedRoutes == \A k, l \in Routes : k[2] = l[1] => k[2] = 0 \/ l[2] = 0

\* The notice of a new content comes right after it, or follows no receipt.
LEMMA SendSents ==
  ASSUME DirectedRoutes, Base, NetOK', NEW l \in Links, l \in Routes, NEW c, NEW New, Sending(l, c, New),
         NEW j \in Workers
  PROVE  SentsAt(j)'
<1>0. OrderedNow /\ NetOK /\ SentsAt(j) /\ j \in Nodes /\ j # 0
  BY BaseFacts, LinkFacts
<1>1. Net' = Net \cup {c} \cup New /\ c.msg_type = "MESSAGE_HEADER" /\ c.sender_id = l[1] /\ c.receiver_id = l[2]
      /\ c.num = written[l] + 1
  BY DEF Sending
<1>2. \A x \in New : /\ l[1] # 0 /\ x.msg_type = "SENT_MESSAGE" /\ x.sender_id = l[1] /\ x.receiver_id = 0
                     /\ x.num = written[<<l[1], 0>>] + IF l[2] = 0 THEN 2 ELSE 1
  BY DEF Sending
<1> SUFFICES ASSUME NEW x \in Net', NEW g \in Net',
                    x.msg_type = "SENT_MESSAGE", x.sender_id = j,
                    g.msg_type = "GOT_MESSAGE", g.sender_id = j, g.num < x.num
             PROVE  \E y \in Net' : /\ y.msg_type = "MESSAGE_HEADER" /\ y.sender_id = j
                                    /\ y.receiver_id = 0 /\ y.num = x.num - 1
  BY DEF SentsAt
<1>3. g \in Net
  BY <1>1, <1>2
<1>4. CASE x \in Net
  BY <1>0, <1>1, <1>3, <1>4 DEF SentsAt
<1>5. CASE x \notin Net
  <2>1. x \in New
    BY <1>1, <1>5
  <2>2. l[1] = j /\ x.num = written[<<j, 0>>] + IF l[2] = 0 THEN 2 ELSE 1
    BY <1>2, <2>1
  <2>3. PICK k \in Routes : k[2] = j
    BY <1>0, <1>3 DEF NetOK
  <2>4. l[2] = 0
    BY <1>0, <2>2, <2>3 DEF DirectedRoutes
  <2>5. l = <<j, 0>>
    BY <2>2, <2>4, LinkFacts
  <2>6. written[<<j, 0>>] \in Nat
    BY <2>5, <1>0, NetFacts
  <2>7. c.num = x.num - 1
    BY <1>1, <2>2, <2>4, <2>5, <2>6
  <2> QED BY <2>7, <1>1, <2>2, <2>4
<1> QED BY <1>4, <1>5

\* Sending preserves Base along direct routes.
LEMMA SendBase ==
  ASSUME DirectedRoutes, Base, NEW l \in Links, send_data(l)
  PROVE  Base'
<1>0. SimpleTypes /\ OrderedNow /\ NetOK /\ terminated[0] \subseteq Workers
  BY BaseFacts
<1>l. l[1] \in Nodes /\ l \in Routes /\ l = <<l[1], l[2]>>
  BY LinkFacts DEF send_data
<1>c. PICK c, New : Sending(l, c, New)
  <2>1. current_epoch[l[1]] \in Nat
    BY <1>0, <1>l DEF SimpleTypes
  <2> QED BY <2>1, <1>0, SendAct
<1>1. /\ pc[l[1]] = "running" /\ pc' = pc /\ terminated' = terminated /\ current_epoch' = current_epoch
      /\ num_waiting_nodes' = num_waiting_nodes
  BY DEF send_data
<1>2. /\ Net' = Net \cup {c} \cup New /\ OrderedNow'
      /\ c.msg_type = "MESSAGE_HEADER" /\ c.sender_id = l[1] /\ c.receiver_id = l[2]
      /\ c.epoch = current_epoch[l[1]]
      /\ \A k \in Links : k[1] # l[1] => written'[k] = written[k] /\ stream'[k] = stream[k]
      /\ \A x \in New : x.msg_type = "SENT_MESSAGE" /\ x.sender_id = l[1] /\ x.receiver_id = 0 /\ x.epoch = 0
  BY <1>c DEF Sending
<1>3. SimpleTypes'
  <2>1. sent' = sent + 1 /\ outstanding_messages' = outstanding_messages + IF l[1] = 0 THEN 1 ELSE 0
    BY DEF send_data
  <2> QED BY <2>1, <1>0, <1>1 DEF SimpleTypes
<1>4. NetOK'
  <2>1. c.epoch = current_epoch[0]
    <3>1. CASE l[1] = 0
      BY <3>1, <1>2
    <3>2. CASE l[1] # 0
      <4>1. l[1] \in Workers
        BY <3>2, <1>l DEF Workers
      <4>2. ToldsAt(l[1])
        BY <4>1, BaseFacts DEF Mine
      <4>3. ~Released(l[1]) /\ current_epoch[0] = current_epoch[l[1]] + 0
        BY <4>2, <1>1 DEF ToldsAt
      <4> QED BY <4>3, <1>0, <1>2, <1>l DEF SimpleTypes
    <3> QED BY <3>1, <3>2
  <2> QED BY <2>1, <1>0, <1>1, <1>2, <1>l DEF NetOK
<1>5. AllOver => AllOver'
  BY <1>1 DEF AllOver, AllTerminated
<1>6. ASSUME NEW j \in Workers
      PROVE  WaitsAt(j)' /\ TermsAt(j)' /\ ToldsAt(j)'
  <2>1. CASE j = l[1]
    <3>1. Mine(j)'
      BY <2>1, <1>4, <1>5, <1>c, OwnSend
    <3> QED BY <3>1 DEF Mine
  <2>2. CASE j # l[1]
    <3>1. Still(0, j)
      <4>1. \A x \in Net' : x \in Net \/ (x.sender_id # j /\ x.msg_type # "SEE_ALL_IN_WAITING_STATE")
        BY <2>2, <1>2
      <4>2. \A k \in Links : k[1] = j => written'[k] = written[k] /\ stream'[k] = stream[k]
        BY <2>2, <1>2
      <4> QED BY <4>1, <4>2, <1>0, <1>1, <1>2, <1>4 DEF Still
    <3>2. \A x \in Net' \ Net : x.msg_type # "NODE_TERMINATE"
      BY <1>2
    <3>3. Mine(j) /\ 0 \in Nodes
      BY BaseFacts, LinkFacts
    <3> QED BY <3>1, <3>2, <3>3, <1>1, <1>5, StillWaits, StillTerms, StillTolds DEF Mine
  <2> QED BY <2>1, <2>2
<1>7. \A j \in Workers : SentsAt(j)'
  BY <1>4, <1>l, <1>c, SendSents
<1> QED BY <1>0, <1>1, <1>2, <1>3, <1>4, <1>6, <1>7 DEF Base, WorkersOK

-----------------------------------------------------------------------------
(* The counters *)

\* How many messages of a type are on their way.
Pending(type) == Cardinality(Of(type, Net))
\* The nodes that died because content came too late.
Refused == {i \in Nodes : pc[i] = "refused"}
\* The workers that wait and are not told.
Waiting == {i \in Workers : pc[i] = "receive_data" /\ ~Released(i)}

\* The workers that wait, as far as the control node knows or will know: the
\* next notice of the node is that it got what it waited for, or there is none.
NextIsGot(i) == \E m \in Net : /\ IsNotice(m, i) /\ m.msg_type = "GOT_MESSAGE"
                               /\ \A y \in Net : IsNotice(y, i) => m.num <= y.num
View(i) ==
  /\ i \notin terminated[0] /\ ~Released(i)
  /\ \/ NextIsGot(i)
     \/ pc[i] \in {"receive_data", "failed"} /\ \A y \in Net : ~IsNotice(y, i)
\* The workers that wait as far as the control node can tell.
Viewed == {i \in Workers : View(i)}

\* The control node never counts more waiting nodes than that.
WaitingBound == num_waiting_nodes <= Cardinality(Viewed)
\* Its count of messages is exact but for the notices on their way.
OutstandingExact == outstanding_messages + Pending("SENT_MESSAGE") - Pending("GOT_MESSAGE")
                      = Pending("MESSAGE_HEADER") + Cardinality(Refused)
\* So is its count of waiting nodes, until somebody dies.
WaitingExact == (\A i \in Nodes : pc[i] \notin {"failed", "refused"}) =>
  num_waiting_nodes + Pending("IN_WAITING_STATE") - Pending("GOT_MESSAGE") = Cardinality(Waiting)

\* The inductive invariant.
IInv == Base /\ WaitingBound /\ OutstandingExact /\ WaitingExact

\* Counts are natural numbers.
LEMMA PendingType ==
  ASSUME OrderedNow, NEW type
  PROVE  IsFiniteSet(Of(type, Net)) /\ Pending(type) \in Nat
<1>1. IsFiniteSet(Net) /\ Of(type, Net) \in SUBSET Net
  BY NetFacts DEF Of
<1>2. IsFiniteSet(Of(type, Net))
  BY <1>1, FS_Subset
<1> QED BY <1>2, FS_CardinalityType DEF Pending

\* So are the sizes of the sets of nodes.
LEMMA SetsType ==
  /\ IsFiniteSet(Viewed) /\ Cardinality(Viewed) \in Nat
  /\ IsFiniteSet(Waiting) /\ Cardinality(Waiting) \in Nat
  /\ IsFiniteSet(Refused) /\ Cardinality(Refused) \in Nat
<1>1. Viewed \in SUBSET Workers /\ Waiting \in SUBSET Workers /\ Refused \in SUBSET Nodes
  BY DEF Viewed, Waiting, Refused
<1>2. IsFiniteSet(Viewed) /\ IsFiniteSet(Waiting) /\ IsFiniteSet(Refused)
  BY <1>1, FiniteLinks, FS_Subset
<1> QED BY <1>2, FS_CardinalityType

\* A step leaves the messages of a type alone, or adds or takes one of them.
Keeps(type) == \A x : x.msg_type = type => (x \in Net <=> x \in Net')
Adds1(type, m) == /\ m \in Net' /\ m \notin Net /\ m.msg_type = type
                  /\ \A x : x.msg_type = type /\ x # m => (x \in Net <=> x \in Net')
Takes1(type, m) == /\ m \in Net /\ m \notin Net' /\ m.msg_type = type
                   /\ \A x : x.msg_type = type /\ x # m => (x \in Net <=> x \in Net')

\* How that changes the count.
LEMMA PendingKeeps ==
  ASSUME NEW type, Keeps(type)
  PROVE  Pending(type)' = Pending(type)
<1>1. Of(type, Net') = Of(type, Net)
  BY DEF Of, Keeps
<1> QED BY <1>1 DEF Pending

LEMMA PendingAdds ==
  ASSUME OrderedNow, NEW type, NEW m, Adds1(type, m)
  PROVE  Pending(type)' = Pending(type) + 1
<1>1. Of(type, Net') = Of(type, Net) \cup {m} /\ m \notin Of(type, Net)
  BY DEF Of, Adds1
<1>2. IsFiniteSet(Of(type, Net))
  BY PendingType
<1> QED BY <1>1, <1>2, FS_AddElement DEF Pending

LEMMA PendingTakes ==
  ASSUME OrderedNow, NEW type, NEW m, Takes1(type, m)
  PROVE  Pending(type)' = Pending(type) - 1
<1>1. Of(type, Net') = Of(type, Net) \ {m} /\ m \in Of(type, Net)
  BY DEF Of, Takes1
<1>2. IsFiniteSet(Of(type, Net))
  BY PendingType
<1> QED BY <1>1, <1>2, FS_RemoveElement DEF Pending

\* The waiting nodes that the control node can tell, one more or less.
LEMMA ViewedGrows ==
  ASSUME NEW S \in SUBSET Workers, \A j \in Workers : View(j) /\ j \notin S => View(j)'
  PROVE  Viewed \ S \subseteq Viewed'
  BY DEF Viewed

\* Of a node whose next notice is that it got something, or that has none,
\* every notice that content was sent belongs to content still on its way to
\* the control node.
LEMMA SentsHaveContent ==
  ASSUME Base, NEW x \in Of("SENT_MESSAGE", Net), \A j \in Workers \ terminated[0] : View(j)
  PROVE  /\ \E c \in Of("MESSAGE_HEADER", Net) :
              c.sender_id = x.sender_id /\ c.receiver_id = 0 /\ c.num = x.num - 1
         /\ x.receiver_id = 0 /\ x.num \in Nat /\ NextIsGot(x.sender_id)
<1> DEFINE j == x.sender_id
<1>0. OrderedNow /\ NetOK /\ x \in Net /\ x.msg_type = "SENT_MESSAGE"
  BY BaseFacts DEF Of
<1>1. x.receiver_id = 0 /\ x.num \in Nat /\ j \in Workers
  BY <1>0, NetFacts DEF NetOK, Workers
<1>2. IsNotice(x, j)
  BY <1>0, <1>1 DEF IsNotice, Notices
<1>3. Mine(j) /\ SentsAt(j)
  BY <1>1, BaseFacts
<1> HIDE DEF j
<1>4. NextIsGot(j)
  <2>1. j \notin terminated[0]
    BY <1>0, <1>2, <1>3 DEF Mine, TermsAt
  <2> QED BY <2>1, <1>0, <1>1, <1>2 DEF View
<1>5. PICK g \in Net : /\ IsNotice(g, j) /\ g.msg_type = "GOT_MESSAGE"
                       /\ \A y \in Net : IsNotice(y, j) => g.num <= y.num
  BY <1>4 DEF NextIsGot
<1>6. g.num < x.num
  <2>1. g.num <= x.num /\ g.num \in Nat /\ g.sender_id = j /\ g.receiver_id = 0
    BY <1>0, <1>2, <1>5, NetFacts DEF IsNotice
  <2>2. g.num # x.num
    BY <2>1, <1>0, <1>1, <1>5, NetFacts DEF j
  <2> QED BY <2>1, <2>2, <1>1
<1>7. PICK c \in Net : /\ c.msg_type = "MESSAGE_HEADER" /\ c.sender_id = j
                       /\ c.receiver_id = 0 /\ c.num = x.num - 1
  BY <1>0, <1>3, <1>5, <1>6 DEF SentsAt, IsNotice, j
<1> QED BY <1>1, <1>4, <1>7 DEF Of, j

\* So no more of these notices are on their way than content.
LEMMA SentsBelowContents ==
  ASSUME Base, \A j \in Workers \ terminated[0] : View(j)
  PROVE  Pending("SENT_MESSAGE") <= Pending("MESSAGE_HEADER")
<1> DEFINE S == Of("SENT_MESSAGE", Net)
           T == Of("MESSAGE_HEADER", Net)
           f == [x \in S |-> CHOOSE c \in T :
                   c.sender_id = x.sender_id /\ c.receiver_id = 0 /\ c.num = x.num - 1]
<1>0. OrderedNow /\ S \subseteq Net
  BY BaseFacts DEF Of
<1>1. IsFiniteSet(S) /\ IsFiniteSet(T) /\ Cardinality(S) \in Nat /\ Cardinality(T) \in Nat
  BY <1>0, PendingType DEF Pending
<1>2. \A x \in S : f[x] \in T /\ f[x].sender_id = x.sender_id /\ f[x].num = x.num - 1
  <2> TAKE x \in S
  <2>1. \E c \in T : c.sender_id = x.sender_id /\ c.receiver_id = 0 /\ c.num = x.num - 1
    BY SentsHaveContent
  <2> HIDE DEF S, T
  <2> QED BY <2>1
<1>3. f \in [S -> T]
  BY <1>2
<1>4. \A x, y \in S : x # y => f[x] # f[y]
  <2> SUFFICES ASSUME NEW x \in S, NEW y \in S, f[x] = f[y] PROVE x = y
    OBVIOUS
  <2>1. x.sender_id = y.sender_id /\ x.num - 1 = y.num - 1
    BY <1>2
  <2>2. x.receiver_id = 0 /\ y.receiver_id = 0 /\ x.num \in Nat /\ y.num \in Nat
    BY SentsHaveContent
  <2>3. x.num = y.num
    BY <2>1, <2>2
  <2> QED BY <1>0, <2>1, <2>2, <2>3, NetFacts
<1> HIDE DEF f, S, T
<1>5. ~(Cardinality(T) < Cardinality(S))
  <2> SUFFICES ASSUME Cardinality(T) < Cardinality(S) PROVE FALSE
    OBVIOUS
  <2>1. \E x, y \in S : x # y /\ f[x] = f[y]
    BY <1>1, <1>3, FS_PigeonHole
  <2> QED BY <2>1, <1>4
<1> QED BY <1>1, <1>5 DEF Pending, S, T

\* When the counters say so, all workers wait, failed or have told their end,
\* and nothing is on its way to anyone that matters.
LEMMA Quiet ==
  ASSUME Base, WaitingBound, OutstandingExact, AllInWaitingState
  PROVE  /\ \A x \in Net : x.msg_type \notin {"MESSAGE_HEADER", "SENT_MESSAGE", "GOT_MESSAGE", "IN_WAITING_STATE"}
         /\ \A j \in Workers \ terminated[0] :
              /\ ~Released(j) /\ pc[j] \in {"receive_data", "failed"}
              /\ \A y \in Net : ~IsNotice(y, j)
         /\ Refused = {} /\ Pending("IN_WAITING_STATE") = 0 /\ Pending("GOT_MESSAGE") = 0
<1>0. SimpleTypes /\ OrderedNow /\ NetOK /\ terminated[0] \subseteq Workers
  BY BaseFacts
<1>1. \A j \in Workers \ terminated[0] : View(j)
  <2> DEFINE D == Workers \ terminated[0]
  <2>1. Viewed \in SUBSET D
    BY DEF Viewed, View
  <2>2. IsFiniteSet(D) /\ Cardinality(D) = Cardinality(Workers) - Cardinality(terminated[0])
        /\ Cardinality(terminated[0]) \in Nat
    <3>1. terminated[0] \in SUBSET Workers /\ IsFiniteSet(Workers)
      BY <1>0, FiniteLinks
    <3>2. IsFiniteSet(terminated[0]) /\ IsFiniteSet(D)
      BY <3>1, FS_Subset
    <3>3. Cardinality(Workers) = Cardinality(D) + Cardinality(terminated[0])
      <4>1. Workers = D \cup terminated[0] /\ D \cap terminated[0] = {}
        BY <3>1
      <4>2. Cardinality(D \cup terminated[0]) = Cardinality(D) + Cardinality(terminated[0]) - Cardinality(D \cap terminated[0])
        BY <3>2, FS_Union
      <4>3. Cardinality({}) = 0
        BY FS_EmptySet
      <4>4. Cardinality(D) \in Nat /\ Cardinality(terminated[0]) \in Nat
        BY <3>2, FS_CardinalityType
      <4> HIDE DEF D
      <4> QED BY <4>1, <4>2, <4>3, <4>4
    <3>4. Cardinality(D) \in Nat /\ Cardinality(terminated[0]) \in Nat
      BY <3>2, FS_CardinalityType
    <3> HIDE DEF D
    <3> QED BY <3>2, <3>3, <3>4
  <2>3. Cardinality(D) <= Cardinality(Viewed)
    <3>1. num_waiting_nodes + Cardinality(terminated[0]) = N - 1 /\ num_waiting_nodes \in Int
      BY <1>0 DEF AllInWaitingState, SimpleTypes
    <3>2. Cardinality(Workers) = N - 1 /\ N \in Nat
      BY FiniteLinks, BspAssumption
    <3> HIDE DEF D
    <3> QED BY <2>2, <3>1, <3>2, SetsType DEF WaitingBound
  <2>4. Cardinality(Viewed) <= Cardinality(D) /\ (Cardinality(D) = Cardinality(Viewed) => D = Viewed)
        /\ Cardinality(D) \in Nat
    BY <2>1, <2>2, FS_Subset, FS_CardinalityType
  <2>5. D = Viewed
    BY <2>3, <2>4, SetsType
  <2> QED BY <2>5 DEF Viewed
<1>2. /\ Pending("SENT_MESSAGE") \in Nat /\ Pending("GOT_MESSAGE") \in Nat /\ Pending("MESSAGE_HEADER") \in Nat
      /\ Pending("IN_WAITING_STATE") \in Nat
  BY <1>0, PendingType
<1>3. /\ Pending("GOT_MESSAGE") = 0 /\ Cardinality(Refused) = 0
      /\ Pending("SENT_MESSAGE") = Pending("MESSAGE_HEADER")
  <2>1. Pending("SENT_MESSAGE") <= Pending("MESSAGE_HEADER")
    BY <1>1, SentsBelowContents
  <2>2. 0 + Pending("SENT_MESSAGE") - Pending("GOT_MESSAGE") = Pending("MESSAGE_HEADER") + Cardinality(Refused)
    BY DEF OutstandingExact, AllInWaitingState
  <2> QED BY <1>2, <2>1, <2>2, SetsType
<1>4. ASSUME NEW type, Pending(type) = 0
      PROVE  \A x \in Net : x.msg_type # type
  <2>1. Of(type, Net) = {}
    BY <1>0, <1>4, PendingType, FS_EmptySet DEF Pending
  <2> QED BY <2>1 DEF Of
<1>5. \A x \in Net : x.msg_type # "GOT_MESSAGE"
  BY <1>3, <1>4
<1>6. \A j : ~NextIsGot(j)
  BY <1>5 DEF NextIsGot
<1>7. \A x \in Net : x.msg_type # "SENT_MESSAGE"
  BY <1>1, <1>6, SentsHaveContent DEF Of
<1>8. \A x \in Net : x.msg_type # "MESSAGE_HEADER"
  <2>1. Of("SENT_MESSAGE", Net) = {}
    BY <1>7 DEF Of
  <2>2. Pending("MESSAGE_HEADER") = 0
    BY <2>1, <1>3, FS_EmptySet DEF Pending
  <2> QED BY <2>2, <1>4
<1>9. \A j \in Workers \ terminated[0] :
              /\ ~Released(j) /\ pc[j] \in {"receive_data", "failed"}
              /\ \A y \in Net : ~IsNotice(y, j)
  BY <1>1, <1>6 DEF View
<1>10. \A x \in Net : x.msg_type # "IN_WAITING_STATE"
  <2> SUFFICES ASSUME NEW x \in Net, x.msg_type = "IN_WAITING_STATE" PROVE FALSE
    OBVIOUS
  <2>1. x.receiver_id = 0 /\ x.sender_id \in Workers
    BY <1>0, NetFacts DEF NetOK, Workers
  <2>2. IsNotice(x, x.sender_id)
    BY <2>1 DEF IsNotice, Notices
  <2>3. x.sender_id \in terminated[0] => \A y \in Net : ~IsNotice(y, x.sender_id)
    BY <2>1, BaseFacts DEF Mine, TermsAt
  <2> QED BY <2>1, <2>2, <2>3, <1>9
<1>11. Refused = {}
  BY <1>3, SetsType, FS_EmptySet
<1>12. Pending("IN_WAITING_STATE") = 0
  <2>1. Of("IN_WAITING_STATE", Net) = {}
    BY <1>10 DEF Of
  <2> QED BY <2>1, FS_EmptySet DEF Pending
<1> QED BY <1>3, <1>5, <1>7, <1>8, <1>9, <1>10, <1>11, <1>12

\* Each kind of step preserves WaitingBound.
LEMMA BoundKept ==
  ASSUME WaitingBound, SimpleTypes, num_waiting_nodes' = num_waiting_nodes,
         \A j \in Workers : View(j) => View(j)'
  PROVE  WaitingBound'
<1>1. Viewed \subseteq Viewed'
  BY DEF Viewed
<1>2. IsFiniteSet(Viewed') /\ Cardinality(Viewed') \in Nat
  <2>1. Viewed' \in SUBSET Workers
    BY DEF Viewed
  <2>2. IsFiniteSet(Viewed')
    BY <2>1, FiniteLinks, FS_Subset
  <2> QED BY <2>2, FS_CardinalityType
<1>3. Cardinality(Viewed) <= Cardinality(Viewed')
  BY <1>1, <1>2, FS_Subset
<1> QED BY <1>2, <1>3, SetsType DEF WaitingBound, SimpleTypes

\* Of a worker in Viewed, the control node takes no notice but a receipt.
LEMMA PoppedIsGot ==
  ASSUME Base, NEW j \in Workers, View(j), NEW i \in Nodes, NEW m \in Net, Popped(m, i), IsNotice(m, j)
  PROVE  m.msg_type = "GOT_MESSAGE" /\ i = 0
<1>0. OrderedNow /\ NetOK
  BY BaseFacts
<1>1. i = 0 /\ m.sender_id = j /\ m.receiver_id = 0 /\ NextIsGot(j)
  BY DEF Popped, IsNotice, View
<1>2. PICK g \in Net : /\ IsNotice(g, j) /\ g.msg_type = "GOT_MESSAGE"
                       /\ \A y \in Net : IsNotice(y, j) => g.num <= y.num
  BY <1>1 DEF NextIsGot
<1>3. g.sender_id = j /\ g.receiver_id = 0 /\ g.num <= m.num /\ g.num \in Nat /\ m.num \in Nat
  BY <1>0, <1>2, NetFacts DEF IsNotice
<1>4. m.num <= g.num
  BY <1>0, <1>1, <1>2, <1>3, PoppedFirst
<1>5. m.num = g.num
  BY <1>3, <1>4
<1> QED BY <1>0, <1>1, <1>2, <1>3, <1>5, NetFacts

\* The next notice of a worker stays the next.
LEMMA NextKept ==
  ASSUME OrderedNow, NEW i \in Workers, NEW T, NEW type, Act(i, T, type), type # "SEE_ALL_IN_WAITING_STATE",
         NextIsGot(i), \A m \in Net \ Net' : ~IsNotice(m, i)
  PROVE  NextIsGot(i)'
<1>1. Owns(i, T, type)
  BY OwnFacts
<1>2. PICK g \in Net : /\ IsNotice(g, i) /\ g.msg_type = "GOT_MESSAGE"
                       /\ \A y \in Net : IsNotice(y, i) => g.num <= y.num
  BY DEF NextIsGot
<1>3. g.num \in Nat /\ g.num <= written[<<i, 0>>] /\ written[<<i, 0>>] \in Nat
  BY <1>1, <1>2, NetFacts DEF IsNotice, Owns
<1>4. \A y \in Net' : IsNotice(y, i) => g.num <= y.num
  <2> TAKE y \in Net'
  <2> HAVE IsNotice(y, i)
  <2>1. CASE y \in Net
    BY <2>1, <1>2
  <2>2. CASE y \notin Net
    <3>1. y.num = written[<<i, y.receiver_id>>] + 1 /\ y.receiver_id = 0
      BY <2>2, <1>1 DEF Owns, IsNotice
    <3>2. y.num = written[<<i, 0>>] + 1
      BY <3>1
    <3> QED BY <3>2, <1>3
  <2> QED BY <2>1, <2>2
<1>5. g \in Net'
  BY <1>2
<1> QED BY <1>2, <1>4, <1>5 DEF NextIsGot, IsNotice

\* What the control node can tell of worker j while others act.
LEMMA ViewOther ==
  ASSUME Base, NEW i \in Nodes, NEW T, NEW type, Act(i, T, type), type # "SEE_ALL_IN_WAITING_STATE",
         Moves(i), Learns(i), NEW j \in Workers, j # i \/ (T = {} /\ pc'[j] = pc[j]),
         View(j), \A m \in Net \ Net' : ~IsNotice(m, j)
  PROVE  View(j)'
<1>0. OrderedNow /\ NetOK /\ Adds(i, T, type) /\ j \in Nodes /\ j # 0
  BY BaseFacts, ActFacts, LinkFacts
<1>1. ~Released(j)'
  BY <1>0 DEF View, Released, Adds
<1>2. j \notin terminated'[0]
  <2> SUFFICES ASSUME j \in terminated'[0] PROVE FALSE
    OBVIOUS
  <2>1. j \notin terminated[0]
    BY DEF View
  <2>2. i = 0
    BY <2>1, LinkFacts DEF Learns
  <2>3. PICK m \in Net \ Net' : /\ Popped(m, i) /\ m.msg_type = "NODE_TERMINATE" /\ m.sender_id = j
    BY <2>1, <2>2 DEF Learns
  <2> QED BY <2>2, <2>3 DEF Popped, IsNotice, Notices
<1>3. \A y \in Net' : IsNotice(y, j) => y \in Net
  BY <1>0 DEF Adds, IsNotice
<1>4. pc'[j] = pc[j]
  BY <1>0 DEF Moves
<1>5. NextIsGot(j) => NextIsGot(j)'
  BY <1>3 DEF NextIsGot, IsNotice
<1>6. (\A y \in Net : ~IsNotice(y, j)) => (\A y \in Net' : ~IsNotice(y, j))
  BY <1>3
<1> QED BY <1>1, <1>2, <1>4, <1>5, <1>6 DEF View, IsNotice

\* All steps but a receipt that the control node counts, or the end of an epoch.
LEMMA BoundStep ==
  ASSUME Base, WaitingBound, NEW i \in Nodes, NEW T, NEW type, Act(i, T, type),
         type # "SEE_ALL_IN_WAITING_STATE", Moves(i), Learns(i),
         num_waiting_nodes' = num_waiting_nodes, \A m \in Net \ Net' : m.msg_type # "GOT_MESSAGE",
         i \in Workers /\ View(i) => View(i)'
  PROVE  WaitingBound'
<1>1. ASSUME NEW j \in Workers, View(j) PROVE View(j)'
  <2>1. \A m \in Net \ Net' : ~IsNotice(m, j)
    BY <1>1, PoppedIsGot DEF Moves
  <2>2. CASE j = i
    BY <2>2, <1>1
  <2>3. CASE j # i
    BY <2>1, <2>3, <1>1, ViewOther
  <2> QED BY <2>2, <2>3
<1>2. SimpleTypes
  BY BaseFacts
<1> QED BY <1>1, <1>2, BoundKept

\* What the control node does with a notice.
LEMMA NoticeFacts ==
  ASSUME Base, NEW i \in Nodes, PopNotice(i)
  PROVE  /\ i = 0 /\ Act(0, {}, "READ_ERROR") /\ Moves(0) /\ Learns(0) /\ pc' = pc /\ terminated' = terminated
         /\ \E m \in Net :
              /\ Popped(m, 0) /\ Net' = Net \ {m} /\ m.sender_id \in Workers /\ IsNotice(m, m.sender_id)
              /\ \/ /\ m.msg_type = "IN_WAITING_STATE" /\ num_waiting_nodes' = num_waiting_nodes + 1
                    /\ outstanding_messages' = outstanding_messages
                 \/ /\ m.msg_type = "GOT_MESSAGE" /\ num_waiting_nodes' = num_waiting_nodes - 1
                    /\ outstanding_messages' = outstanding_messages - 1
                 \/ /\ m.msg_type = "SENT_MESSAGE" /\ num_waiting_nodes' = num_waiting_nodes
                    /\ outstanding_messages' = outstanding_messages + 1
<1>0. SimpleTypes /\ OrderedNow /\ NetOK /\ terminated[0] \subseteq Workers
  BY BaseFacts
<1>i. i = 0
  BY PopNoticeBase
<1>s. stream' = stream /\ written' = written
  BY DEF PopNotice
<1>3. /\ terminated' = terminated /\ current_epoch' = current_epoch
      /\ pc[i] \in {"receive_data", "closing"} /\ pc' = pc
  BY DEF PopNotice, Pop
<1>1. ASSUME NEW type \in {"IN_WAITING_STATE", "GOT_MESSAGE", "SENT_MESSAGE"}, Pop(i, type)
      PROVE  /\ Act(0, {}, "READ_ERROR")
             /\ \E m \in Net : /\ Popped(m, 0) /\ Net' = Net \ {m} /\ m.sender_id \in Workers
                               /\ IsNotice(m, m.sender_id) /\ m.msg_type = type
  <2>1. Act(i, {}, "READ_ERROR") /\ Pulls(i, type)
    BY <1>0, <1>s, <1>1, SilentPop
  <2>2. PICK m \in Net : Popped(m, i) /\ m.msg_type = type /\ Net \ Net' = {m}
    BY <2>1 DEF Pulls
  <2>3. Net' = Net \ {m}
    <3>1. Adds(i, {}, "READ_ERROR")
      BY <2>1, ActFacts
    <3> QED BY <3>1, <2>2 DEF Adds
  <2>4. m.sender_id \in Workers /\ m.receiver_id = 0
    BY <1>0, <1>i, <2>2, NetFacts DEF Popped, Workers
  <2> QED BY <1>i, <2>1, <2>2, <2>3, <2>4 DEF IsNotice, Notices
<1>2. /\ Act(0, {}, "READ_ERROR")
      /\ \E m \in Net :
              /\ Popped(m, 0) /\ Net' = Net \ {m} /\ m.sender_id \in Workers /\ IsNotice(m, m.sender_id)
              /\ \/ /\ m.msg_type = "IN_WAITING_STATE" /\ num_waiting_nodes' = num_waiting_nodes + 1
                    /\ outstanding_messages' = outstanding_messages
                 \/ /\ m.msg_type = "GOT_MESSAGE" /\ num_waiting_nodes' = num_waiting_nodes - 1
                    /\ outstanding_messages' = outstanding_messages - 1
                 \/ /\ m.msg_type = "SENT_MESSAGE" /\ num_waiting_nodes' = num_waiting_nodes
                    /\ outstanding_messages' = outstanding_messages + 1
  <2>1. CASE /\ Pop(i, "IN_WAITING_STATE") /\ num_waiting_nodes' = num_waiting_nodes + 1
             /\ outstanding_messages' = outstanding_messages
    BY <2>1, <1>1
  <2>2. CASE /\ Pop(i, "GOT_MESSAGE") /\ num_waiting_nodes' = num_waiting_nodes - 1
             /\ outstanding_messages' = outstanding_messages - 1
    BY <2>2, <1>1
  <2>3. CASE /\ Pop(i, "SENT_MESSAGE") /\ num_waiting_nodes' = num_waiting_nodes
             /\ outstanding_messages' = outstanding_messages + 1
    BY <2>3, <1>1
  <2> QED BY <2>1, <2>2, <2>3 DEF PopNotice
<1>4. Moves(0) /\ Learns(0)
  BY <1>0, <1>2, <1>3, <1>i DEF Moves, Learns, SimpleTypes
<1> QED BY <1>2, <1>3, <1>4, <1>i

\* Once the notice that it waits is taken, the node is seen to wait.
LEMMA WaiterSeen ==
  ASSUME Base, Base', NEW m \in Net, Popped(m, 0), Net' = Net \ {m}, m.sender_id \in Workers,
         IsNotice(m, m.sender_id), m.msg_type = "IN_WAITING_STATE", Act(0, {}, "READ_ERROR"),
         pc' = pc, terminated' = terminated
  PROVE  View(m.sender_id)'
<1> DEFINE j == m.sender_id
<1>0. /\ OrderedNow /\ NetOK /\ Mine(j) /\ j \in Workers /\ IsNotice(m, j) /\ m.receiver_id = 0 /\ m.sender_id = j
  BY BaseFacts DEF IsNotice
<1> HIDE DEF j
<1>1. j \notin terminated[0] /\ ~Released(j)
  BY <1>0 DEF Mine, TermsAt, ToldsAt
<1>2. ~Released(j)'
  BY <1>1 DEF Released
<1>3. \A y \in Net' : IsNotice(y, j) => y \in Net /\ y.num \in Nat /\ m.num + 1 <= y.num /\ y.num <= written[<<j, 0>>]
  <2> TAKE y \in Net'
  <2> HAVE IsNotice(y, j)
  <2>1. y \in Net /\ y.sender_id = j /\ y.receiver_id = 0 /\ y.msg_type # "MESSAGE_HEADER" /\ y # m
    BY DEF IsNotice, Notices
  <2>2. m.num <= y.num
    BY <1>0, <2>1, PoppedFirst
  <2>3. y.num \in Nat /\ m.num \in Nat /\ y.num <= written[<<j, 0>>] /\ y.num # m.num
    BY <1>0, <2>1, NetFacts
  <2> QED BY <2>1, <2>2, <2>3
<1>4. m.num \in Nat /\ written[<<j, 0>>] \in Nat
  <2>1. <<m.sender_id, m.receiver_id>> = <<j, 0>>
    BY <1>0
  <2> QED BY <1>0, <2>1, NetFacts
<1>5. \/ \E g \in Net : g.msg_type = "GOT_MESSAGE" /\ g.sender_id = j /\ g.num = m.num + 1
      \/ pc[j] = "receive_data" /\ ~Released(j) /\ m.num = written[<<j, 0>>]
      \/ pc[j] = "failed" /\ \A y \in Net : IsNotice(y, j) => y.num <= m.num
  BY <1>0 DEF Mine, WaitsAt
<1>6. CASE \E g \in Net : g.msg_type = "GOT_MESSAGE" /\ g.sender_id = j /\ g.num = m.num + 1
  <2>1. PICK g \in Net : g.msg_type = "GOT_MESSAGE" /\ g.sender_id = j /\ g.num = m.num + 1
    BY <1>6
  <2>2. g \in Net' /\ g.receiver_id = 0
    BY <1>0, <2>1 DEF NetOK
  <2>3. NextIsGot(j)'
    BY <1>3, <2>1, <2>2 DEF NextIsGot, IsNotice, Notices
  <2> QED BY <1>1, <1>2, <2>3 DEF View, j
<1>7. CASE pc[j] = "receive_data" /\ m.num = written[<<j, 0>>]
  <2>1. \A y \in Net' : ~IsNotice(y, j)
    BY <1>3, <1>4, <1>7
  <2> QED BY <1>1, <1>2, <1>7, <2>1 DEF View, IsNotice, j
<1>8. CASE pc[j] = "failed" /\ \A y \in Net : IsNotice(y, j) => y.num <= m.num
  <2>1. \A y \in Net' : ~IsNotice(y, j)
    BY <1>3, <1>4, <1>8
  <2> QED BY <1>1, <1>2, <1>8, <2>1 DEF View, IsNotice, j
<1> QED BY <1>5, <1>6, <1>7, <1>8

\* The control node takes a notice.
LEMMA BoundNotice ==
  ASSUME Base, Base', WaitingBound, NEW i \in Nodes, PopNotice(i)
  PROVE  WaitingBound'
<1>0. SimpleTypes /\ OrderedNow
  BY BaseFacts
<1>1. /\ i = 0 /\ Act(0, {}, "READ_ERROR") /\ Moves(0) /\ Learns(0) /\ pc' = pc /\ terminated' = terminated
  BY NoticeFacts
<1>2. PICK m \in Net :
        /\ Popped(m, 0) /\ Net' = Net \ {m} /\ m.sender_id \in Workers /\ IsNotice(m, m.sender_id)
        /\ \/ m.msg_type = "IN_WAITING_STATE" /\ num_waiting_nodes' = num_waiting_nodes + 1
           \/ m.msg_type = "GOT_MESSAGE" /\ num_waiting_nodes' = num_waiting_nodes - 1
           \/ m.msg_type = "SENT_MESSAGE" /\ num_waiting_nodes' = num_waiting_nodes
  BY NoticeFacts
<1> DEFINE j == m.sender_id
<1>3. 0 \in Nodes /\ 0 \notin Workers
  BY LinkFacts
<1>4. ASSUME NEW k \in Workers, k # j, View(k) PROVE View(k)'
  <2>1. \A x \in Net \ Net' : ~IsNotice(x, k)
    BY <1>2, <1>4 DEF IsNotice
  <2>2. k # 0
    BY LinkFacts
  <2> QED BY <1>1, <1>3, <1>4, <2>1, <2>2, ViewOther
<1>5. IsFiniteSet(Viewed') /\ Cardinality(Viewed') \in Nat /\ IsFiniteSet(Viewed) /\ Cardinality(Viewed) \in Nat
  <2>1. Viewed' \in SUBSET Workers
    BY DEF Viewed
  <2>2. IsFiniteSet(Viewed')
    BY <2>1, FiniteLinks, FS_Subset
  <2> QED BY <2>2, SetsType, FS_CardinalityType
<1>n. num_waiting_nodes \in Int /\ num_waiting_nodes <= Cardinality(Viewed)
  BY <1>0 DEF SimpleTypes, WaitingBound
<1>6. CASE m.msg_type = "IN_WAITING_STATE" /\ num_waiting_nodes' = num_waiting_nodes + 1
  <2>1. j \notin Viewed
    BY <1>2, <1>3, <1>6, PoppedIsGot DEF Viewed
  <2>2. j \in Viewed'
    BY <1>1, <1>2, <1>6, WaiterSeen DEF Viewed
  <2>3. Viewed \cup {j} \in SUBSET Viewed'
    BY <2>1, <2>2, <1>4 DEF Viewed
  <2> HIDE DEF j
  <2>4. Cardinality(Viewed \cup {j}) = Cardinality(Viewed) + 1
    BY <2>1, <1>5, FS_AddElement
  <2>5. Cardinality(Viewed \cup {j}) <= Cardinality(Viewed')
    BY <2>3, <1>5, FS_Subset
  <2> QED BY <1>5, <1>6, <1>n, <2>4, <2>5 DEF WaitingBound
<1>7. CASE m.msg_type = "GOT_MESSAGE" /\ num_waiting_nodes' = num_waiting_nodes - 1
  <2>1. Viewed \ {j} \in SUBSET Viewed'
    BY <1>4 DEF Viewed
  <2> HIDE DEF j
  <2>2. Cardinality(Viewed \ {j}) = IF j \in Viewed THEN Cardinality(Viewed) - 1 ELSE Cardinality(Viewed)
    BY <1>5, FS_RemoveElement
  <2>3. Cardinality(Viewed \ {j}) <= Cardinality(Viewed')
    BY <2>1, <1>5, FS_Subset
  <2> QED BY <1>5, <1>7, <1>n, <2>2, <2>3 DEF WaitingBound
<1>8. CASE m.msg_type = "SENT_MESSAGE" /\ num_waiting_nodes' = num_waiting_nodes
  <2>1. ~View(j)
    BY <1>2, <1>3, <1>8, PoppedIsGot
  <2> QED BY <2>1, <1>0, <1>4, <1>8, BoundKept
<1> QED BY <1>2, <1>6, <1>7, <1>8

\* What Act means for the counts.
LEMMA KeepsAct ==
  ASSUME NEW i \in Nodes, NEW T, NEW type, Act(i, T, type), NEW t, t # type \/ T \subseteq {i},
         \A m \in Net \ Net' : m.msg_type # t
  PROVE  Keeps(t)
<1>1. Adds(i, T, type)
  BY ActFacts
<1> QED BY <1>1 DEF Keeps, Adds

LEMMA AddsAct ==
  ASSUME NEW i \in Workers, NEW type, Act(i, {0}, type), type # "SEE_ALL_IN_WAITING_STATE",
         \A m \in Net \ Net' : m.msg_type # type
  PROVE  \E m : Adds1(type, m)
<1>1. Owns(i, {0}, type) /\ i \in Nodes /\ i # 0
  BY OwnFacts, LinkFacts
<1>2. PICK m \in Net' : m \notin Net /\ m.msg_type = type
  <2>1. \A j \in {0} : j # i => \E x \in Net' : x \notin Net /\ x.msg_type = type /\ x.receiver_id = j
    BY <1>1, ActFacts
  <2> QED BY <2>1, <1>1
<1>4. Adds(i, {0}, type)
  BY <1>1 DEF Owns
<1>5. \A x \in Net' : x \notin Net =>
        x.sender_id = i /\ x.receiver_id = 0 /\ x.num = written[<<i, 0>>] + 1
  <2> TAKE x \in Net'
  <2> HAVE x \notin Net
  <2>1. x.sender_id = i /\ x.receiver_id \in {0} /\ x.num = written[<<i, x.receiver_id>>] + 1
    BY <1>4 DEF Adds
  <2>2. x.receiver_id = 0
    BY <2>1
  <2> QED BY <2>1, <2>2
<1>3. \A x \in Net' : x \notin Net => x = m
  <2> TAKE x \in Net'
  <2> HAVE x \notin Net
  <2>1. x.sender_id = i /\ x.receiver_id = 0 /\ m.sender_id = i /\ m.receiver_id = 0 /\ x.num = m.num
    BY <1>2, <1>5
  <2>2. x \in Flow(stream', msg_buffer') /\ m \in Flow(stream', msg_buffer') /\ Ordered(stream', msg_buffer', written')
    BY <1>1, <1>2 DEF Owns, Net, OrderedNow
  <2> QED BY <2>1, <2>2, FlowUnique
<1> QED BY <1>2, <1>3 DEF Adds1

LEMMA TakesOne ==
  ASSUME NEW i \in Nodes, NEW T, NEW type, Act(i, T, type), NEW m \in Net, Net \ Net' = {m},
         type # m.msg_type \/ T \subseteq {i}
  PROVE  Takes1(m.msg_type, m) /\ \A t : t # m.msg_type => \A x \in Net \ Net' : x.msg_type # t
<1>1. Adds(i, T, type)
  BY ActFacts
<1> QED BY <1>1 DEF Takes1, Adds

\* The invariants on the counters when nothing counted moves.
LEMMA OutstandingSame ==
  ASSUME OutstandingExact, Keeps("MESSAGE_HEADER"), Keeps("SENT_MESSAGE"), Keeps("GOT_MESSAGE"),
         outstanding_messages' = outstanding_messages, Refused' = Refused
  PROVE  OutstandingExact'
  BY PendingKeeps DEF OutstandingExact

LEMMA WaitingSame ==
  ASSUME WaitingExact, Keeps("IN_WAITING_STATE"), Keeps("GOT_MESSAGE"), Keeps("SEE_ALL_IN_WAITING_STATE"),
         num_waiting_nodes' = num_waiting_nodes, NEW i \in Nodes,
         \A j \in Nodes : j # i => pc'[j] = pc[j],
         \/ pc'[i] = pc[i]
         \/ pc'[i] = "failed"
         \/ pc[i] \notin {"failed", "refused"} /\ (i = 0 \/ "receive_data" \notin {pc[i], pc'[i]})
  PROVE  WaitingExact'
<1> SUFFICES ASSUME \A k \in Nodes : pc'[k] \notin {"failed", "refused"}
             PROVE  num_waiting_nodes' + Pending("IN_WAITING_STATE")' - Pending("GOT_MESSAGE")'
                      = Cardinality(Waiting')
  BY DEF WaitingExact
<1>1. \A j : Released(j)' <=> Released(j)
  BY DEF Keeps, Released
<1>2. Waiting' = Waiting
  <2> SUFFICES ASSUME NEW j \in Workers
               PROVE  pc'[j] = "receive_data" /\ ~Released(j)' <=> pc[j] = "receive_data" /\ ~Released(j)
    BY DEF Waiting
  <2>1. j \in Nodes /\ j # 0
    BY LinkFacts
  <2> QED BY <1>1, <2>1
<1>3. \A k \in Nodes : pc[k] \notin {"failed", "refused"}
  OBVIOUS
<1> QED BY <1>2, <1>3, PendingKeeps DEF WaitingExact

\* Nobody else is refused.
LEMMA RefusedSame ==
  ASSUME NEW i \in Nodes, \A j \in Nodes : j # i => pc'[j] = pc[j], pc[i] # "refused", pc'[i] # "refused"
  PROVE  Refused' = Refused
  BY DEF Refused

\* Steps that move no message that is counted.
LEMMA Uncounted ==
  ASSUME Base, OutstandingExact, WaitingExact, NEW i \in Nodes, NEW T, NEW type, Act(i, T, type), Moves(i),
         type \in {"NODE_TERMINATE", "READ_ERROR"},
         \A m \in Net \ Net' : m.msg_type \in {"NODE_TERMINATE", "READ_ERROR"},
         num_waiting_nodes' = num_waiting_nodes, outstanding_messages' = outstanding_messages,
         pc'[i] # "refused",
         \/ pc'[i] = pc[i]
         \/ pc'[i] = "failed"
         \/ i = 0 \/ "receive_data" \notin {pc[i], pc'[i]}
  PROVE  OutstandingExact' /\ WaitingExact'
<1>1. /\ Keeps("MESSAGE_HEADER") /\ Keeps("SENT_MESSAGE") /\ Keeps("GOT_MESSAGE")
      /\ Keeps("IN_WAITING_STATE") /\ Keeps("SEE_ALL_IN_WAITING_STATE")
  BY KeepsAct
<1>2. (\A j \in Nodes : j # i => pc'[j] = pc[j]) /\ pc[i] \notin {"failed", "refused"}
  BY DEF Moves
<1>3. Refused' = Refused
  BY <1>2, RefusedSame
<1> QED BY <1>1, <1>2, <1>3, OutstandingSame, WaitingSame

\* A worker that acts while its receipt is the next notice.
LEMMA ViewNext ==
  ASSUME OrderedNow, NEW i \in Workers, NEW T, NEW type, Act(i, T, type), type # "SEE_ALL_IN_WAITING_STATE",
         View(i), NextIsGot(i), \A m \in Net \ Net' : ~IsNotice(m, i), terminated'[0] = terminated[0]
  PROVE  View(i)'
<1>1. NextIsGot(i)'
  BY NextKept
<1>2. ~Released(i)'
  BY OwnFacts DEF Owns, View
<1> QED BY <1>1, <1>2 DEF View

\* Each action preserves the invariant.
LEMMA EnterReceiveIInv ==
  ASSUME IInv, NEW i \in Nodes, EnterReceive(i)
  PROVE  IInv'
<1>0. /\ Base /\ WaitingBound /\ OutstandingExact /\ WaitingExact /\ SimpleTypes /\ OrderedNow
  BY BaseFacts DEF IInv
<1>1. Act(i, {0}, "IN_WAITING_STATE") /\ Net \subseteq Net'
  BY <1>0, EnterReceiveAct
<1>2. Base'
  BY <1>0, EnterReceiveBase
<1>3. /\ terminated' = terminated /\ current_epoch' = current_epoch
      /\ outstanding_messages' = outstanding_messages /\ num_waiting_nodes' = num_waiting_nodes
      /\ pc[i] = "running" /\ pc' = [pc EXCEPT ![i] = "receive_data"] /\ pc'[i] = "receive_data"
      /\ \A j \in Nodes : j # i => pc'[j] = pc[j]
  BY <1>0 DEF EnterReceive, Goes, counters, SimpleTypes
<1>4. Moves(i) /\ Learns(i)
  BY <1>0, <1>1, <1>3 DEF Moves, Learns, SimpleTypes
<1>5. i \in Workers /\ View(i) => View(i)'
  BY <1>0, <1>1, <1>3, ViewNext DEF View
<1>6. WaitingBound'
  BY <1>0, <1>1, <1>3, <1>4, <1>5, BoundStep
<1>7. /\ Keeps("MESSAGE_HEADER") /\ Keeps("SENT_MESSAGE") /\ Keeps("GOT_MESSAGE")
      /\ Keeps("SEE_ALL_IN_WAITING_STATE")
  BY <1>1, KeepsAct
<1>8. OutstandingExact'
  BY <1>0, <1>3, <1>7, RefusedSame, OutstandingSame
<1>9. WaitingExact'
  <2>1. CASE i = 0
    <3>1. Keeps("IN_WAITING_STATE")
      BY <1>1, <2>1, KeepsAct
    <3> QED BY <2>1, <3>1, <1>0, <1>3, <1>7, WaitingSame
  <2>2. CASE i # 0
    <3>0. i \in Workers
      BY <2>2 DEF Workers
    <3>1. PICK m : Adds1("IN_WAITING_STATE", m)
      BY <3>0, <1>1, AddsAct
    <3>2. Pending("IN_WAITING_STATE")' = Pending("IN_WAITING_STATE") + 1 /\ Pending("IN_WAITING_STATE") \in Nat
      BY <3>1, <1>0, PendingAdds, PendingType
    <3>3. Pending("GOT_MESSAGE")' = Pending("GOT_MESSAGE") /\ Pending("GOT_MESSAGE") \in Nat
      BY <1>0, <1>7, PendingKeeps, PendingType
    <3>4. \A j : Released(j)' <=> Released(j)
      BY <1>7 DEF Keeps, Released
    <3>5. ~Released(i)
      BY <3>0, <1>0, <1>3, BaseFacts DEF Mine, ToldsAt
    <3>6. Waiting' = Waiting \cup {i} /\ i \notin Waiting
      <4>1. \A j \in Workers : j \in Nodes
        BY LinkFacts
      <4> QED BY <4>1, <3>0, <3>4, <3>5, <1>3 DEF Waiting
    <3>7. Cardinality(Waiting') = Cardinality(Waiting) + 1
      BY <3>6, SetsType, FS_AddElement
    <3>8. (\A k \in Nodes : pc'[k] \notin {"failed", "refused"}) => \A k \in Nodes : pc[k] \notin {"failed", "refused"}
      BY <1>3
    <3> QED BY <3>2, <3>3, <3>7, <3>8, <1>0, <1>3, SetsType DEF WaitingExact, SimpleTypes
  <2> QED BY <2>1, <2>2
<1> QED BY <1>2, <1>6, <1>8, <1>9 DEF IInv

\* The program of a node ends.
LEMMA EndIInv ==
  ASSUME IInv, NEW i \in Nodes, EnterClose(i) \/ Crash(i)
  PROVE  IInv'
<1> DEFINE T == IF i = 0 THEN {} ELSE Nodes
<1>0. /\ Base /\ WaitingBound /\ OutstandingExact /\ WaitingExact /\ SimpleTypes /\ OrderedNow
  BY BaseFacts DEF IInv
<1>1. /\ Act(i, T, "NODE_TERMINATE") \/ Act(i, Nodes, "READ_ERROR")
      /\ Net \subseteq Net'
  BY <1>0, EnterCloseAct, CrashAct
<1> HIDE DEF T
<1>2. Base'
  BY <1>0, EnterCloseBase, CrashBase
<1>3. /\ terminated' = terminated /\ current_epoch' = current_epoch
      /\ outstanding_messages' = outstanding_messages /\ num_waiting_nodes' = num_waiting_nodes
      /\ pc[i] = "running" /\ pc'[i] \in {"closing", "failed"}
      /\ \A j \in Nodes : j # i => pc'[j] = pc[j]
  BY <1>0 DEF EnterClose, Crash, Goes, counters, SimpleTypes
<1>4. Moves(i) /\ Learns(i)
  BY <1>0, <1>1, <1>3 DEF Moves, Learns, SimpleTypes
<1>5. ASSUME NEW U, NEW type \in {"NODE_TERMINATE", "READ_ERROR"}, Act(i, U, type)
      PROVE  WaitingBound' /\ OutstandingExact' /\ WaitingExact'
  <2>1. i \in Workers /\ View(i) => View(i)'
    BY <1>0, <1>1, <1>3, <1>5, ViewNext DEF View
  <2>2. WaitingBound'
    BY <1>0, <1>1, <1>3, <1>4, <1>5, <2>1, BoundStep
  <2>3. OutstandingExact' /\ WaitingExact'
    BY <1>0, <1>1, <1>3, <1>4, <1>5, Uncounted
  <2> QED BY <2>2, <2>3
<1> QED BY <1>1, <1>2, <1>5 DEF IInv

LEMMA ReceiveAloneIInv ==
  ASSUME IInv, NEW i \in Nodes, ReceiveAlone(i)
  PROVE  IInv'
<1>0. /\ Base /\ WaitingBound /\ OutstandingExact /\ WaitingExact /\ SimpleTypes /\ OrderedNow
  BY BaseFacts DEF IInv
<1>1. Act(i, {}, "READ_ERROR") /\ Net' = Net
  BY <1>0, ReceiveAloneAct
<1>2. Base' /\ i = 0 /\ i \notin Workers
  BY <1>0, ReceiveAloneBase, LinkFacts
<1>3. /\ terminated' = terminated /\ current_epoch' = current_epoch
      /\ outstanding_messages' = outstanding_messages /\ num_waiting_nodes' = num_waiting_nodes
      /\ pc[i] = "receive_data" /\ pc'[i] = "running"
      /\ \A j \in Nodes : j # i => pc'[j] = pc[j]
  BY <1>0 DEF ReceiveAlone, Goes, counters, SimpleTypes
<1>4. Moves(i) /\ Learns(i)
  BY <1>0, <1>1, <1>3 DEF Moves, Learns, SimpleTypes
<1>5. WaitingBound'
  BY <1>0, <1>1, <1>2, <1>3, <1>4, BoundStep
<1>6. OutstandingExact' /\ WaitingExact'
  BY <1>0, <1>1, <1>2, <1>3, <1>4, Uncounted
<1> QED BY <1>2, <1>5, <1>6 DEF IInv

LEMMA PopTerminateIInv ==
  ASSUME IInv, NEW i \in Nodes, PopTerminate(i)
  PROVE  IInv'
<1>0. /\ Base /\ WaitingBound /\ OutstandingExact /\ WaitingExact /\ SimpleTypes /\ OrderedNow
  BY BaseFacts DEF IInv
<1>1. Act(i, {}, "READ_ERROR") /\ Pulls(i, "NODE_TERMINATE")
  BY <1>0, SilentPop DEF PopTerminate
<1>p. PICK m \in Net : /\ Popped(m, i) /\ m = Head(msg_buffer[i])
                       /\ m.msg_type = "NODE_TERMINATE" /\ Net \ Net' = {m}
  BY <1>1 DEF Pulls
<1>2. Base'
  BY <1>0, PopTerminateBase
<1>3. /\ terminated' = [terminated EXCEPT ![i] = terminated[i] \cup {m.sender_id}]
      /\ current_epoch' = current_epoch
      /\ outstanding_messages' = outstanding_messages /\ num_waiting_nodes' = num_waiting_nodes
      /\ pc[i] \in {"receive_data", "closing"} /\ pc' = pc
  BY <1>p DEF PopTerminate, Pop, counters
<1>4. Moves(i) /\ Learns(i)
  BY <1>0, <1>p, <1>3 DEF Moves, Learns, SimpleTypes
<1>5. i \in Workers /\ View(i) => View(i)'
  <2> HAVE i \in Workers /\ View(i)
  <2>1. m.receiver_id = i /\ i # 0
    BY <1>p, LinkFacts DEF Popped
  <2>2. \A x \in Net \ Net' : ~IsNotice(x, i)
    BY <1>p, <2>1 DEF IsNotice
  <2> QED BY <2>2, <1>0, <1>1, <1>3, <1>4, ViewOther
<1>6. WaitingBound'
  BY <1>0, <1>1, <1>p, <1>3, <1>4, <1>5, BoundStep
<1>7. OutstandingExact' /\ WaitingExact'
  BY <1>0, <1>1, <1>p, <1>3, <1>4, Uncounted
<1> QED BY <1>2, <1>6, <1>7 DEF IInv

LEMMA CloseIInv ==
  ASSUME IInv, NEW i \in Nodes, Close(i)
  PROVE  IInv'
<1> DEFINE T == IF i # 0 THEN {} ELSE Nodes
<1>0. /\ Base /\ WaitingBound /\ OutstandingExact /\ WaitingExact /\ SimpleTypes /\ OrderedNow
  BY BaseFacts DEF IInv
<1>1. Act(i, T, "NODE_TERMINATE") /\ Net \subseteq Net'
  BY <1>0, CloseAct
<1> HIDE DEF T
<1>2. Base'
  BY <1>0, CloseBase
<1>3. /\ terminated' = terminated /\ current_epoch' = current_epoch
      /\ outstanding_messages' = outstanding_messages /\ num_waiting_nodes' = num_waiting_nodes
      /\ pc[i] = "closing" /\ pc'[i] \in {"closed", "failed"}
      /\ \A j \in Nodes : j # i => pc'[j] = pc[j]
  BY <1>0 DEF Close, Goes, counters, SimpleTypes
<1>4. Moves(i) /\ Learns(i)
  BY <1>0, <1>1, <1>3 DEF Moves, Learns, SimpleTypes
<1>5. i \in Workers /\ View(i) => View(i)'
  BY <1>0, <1>1, <1>3, ViewNext DEF View
<1>6. WaitingBound'
  BY <1>0, <1>1, <1>3, <1>4, <1>5, BoundStep
<1>7. OutstandingExact' /\ WaitingExact'
  BY <1>0, <1>1, <1>3, <1>4, Uncounted
<1> QED BY <1>2, <1>6, <1>7 DEF IInv

LEMMA PopContentIInv ==
  ASSUME IInv, NEW i \in Nodes, PopContent(i)
  PROVE  IInv'
<1>0. /\ Base /\ WaitingBound /\ OutstandingExact /\ WaitingExact /\ SimpleTypes /\ OrderedNow /\ NetOK
  BY BaseFacts DEF IInv
<1>1. Act(i, {0}, "GOT_MESSAGE") /\ Pulls(i, "MESSAGE_HEADER")
  BY <1>0, PopContentAct
<1>p. PICK m \in Net : /\ Popped(m, i) /\ m = Head(msg_buffer[i])
                       /\ m.msg_type = "MESSAGE_HEADER" /\ Net \ Net' = {m}
  BY <1>1 DEF Pulls
<1>2. Base'
  BY <1>0, PopContentBase
<1>3. /\ terminated' = terminated /\ current_epoch' = current_epoch
      /\ num_waiting_nodes' = num_waiting_nodes
      /\ outstanding_messages' = outstanding_messages - Got(i)
      /\ pc[i] = "receive_data" /\ pc' = [pc EXCEPT ![i] = "running"] /\ pc'[i] = "running"
      /\ \A j \in Nodes : j # i => pc'[j] = pc[j]
      /\ m.epoch <= current_epoch[i]
  BY <1>0, <1>p DEF PopContent, Pop, Within, Goes, SimpleTypes
<1>4. Moves(i) /\ Learns(i)
  BY <1>0, <1>p, <1>3 DEF Moves, Learns, SimpleTypes
<1>g. i \in Workers => \E x : Adds1("GOT_MESSAGE", x)
  BY <1>1, <1>p, AddsAct
<1>n. \A x \in Net \ Net' : ~IsNotice(x, i)
  BY <1>p DEF IsNotice, Notices
<1>5. i \in Workers /\ View(i) => View(i)'
  <2> HAVE i \in Workers /\ View(i)
  <2>1. CASE NextIsGot(i)
    BY <2>1, <1>0, <1>1, <1>3, <1>n, ViewNext
  <2>2. CASE \A y \in Net : ~IsNotice(y, i)
    <3>1. Owns(i, {0}, "GOT_MESSAGE") /\ i # 0
      BY <1>1, OwnFacts, LinkFacts
    <3>2. PICK g : Adds1("GOT_MESSAGE", g)
      BY <1>g
    <3>3. g \in Net' /\ g \notin Net /\ g.msg_type = "GOT_MESSAGE"
      BY <3>2 DEF Adds1
    <3>4. g.sender_id = i /\ g.receiver_id = 0
      <4>1. Adds(i, {0}, "GOT_MESSAGE")
        BY <3>1 DEF Owns
      <4> QED BY <4>1, <3>3 DEF Adds
    <3>5. \A y \in Net' : IsNotice(y, i) => y = g
      <4> TAKE y \in Net'
      <4> HAVE IsNotice(y, i)
      <4>1. y \notin Net
        BY <2>2
      <4>2. y.msg_type = "GOT_MESSAGE"
        <5>1. Adds(i, {0}, "GOT_MESSAGE")
          BY <3>1 DEF Owns
        <5> QED BY <4>1, <5>1 DEF Adds
      <4> QED BY <3>2, <4>1, <4>2 DEF Adds1
    <3>6. g.num \in Nat
      <4>1. g \in Flow(stream', msg_buffer') /\ Ordered(stream', msg_buffer', written')
        BY <3>1, <3>3 DEF Owns, Net, OrderedNow
      <4> QED BY <4>1, FlowTypes
    <3>7. NextIsGot(i)'
      BY <3>3, <3>4, <3>5, <3>6 DEF NextIsGot, IsNotice, Notices
    <3>8. ~Released(i)'
      BY <3>1 DEF Owns, View
    <3> QED BY <3>7, <3>8, <1>3 DEF View
  <2> QED BY <2>1, <2>2 DEF View
<1>6. WaitingBound'
  BY <1>0, <1>1, <1>p, <1>3, <1>4, <1>5, BoundStep
<1>7. Keeps("SENT_MESSAGE") /\ Keeps("IN_WAITING_STATE") /\ Keeps("SEE_ALL_IN_WAITING_STATE")
  BY <1>1, <1>p, KeepsAct
<1>8. Takes1("MESSAGE_HEADER", m)
  BY <1>1, <1>p, TakesOne
<1>9. /\ Pending("MESSAGE_HEADER")' = Pending("MESSAGE_HEADER") - 1
      /\ Pending("SENT_MESSAGE")' = Pending("SENT_MESSAGE")
      /\ Pending("IN_WAITING_STATE")' = Pending("IN_WAITING_STATE")
      /\ Pending("MESSAGE_HEADER") \in Nat /\ Pending("SENT_MESSAGE") \in Nat
      /\ Pending("IN_WAITING_STATE") \in Nat /\ Pending("GOT_MESSAGE") \in Nat
      /\ Cardinality(Refused) \in Nat /\ Cardinality(Waiting) \in Nat
      /\ num_waiting_nodes \in Int /\ outstanding_messages \in Int
  BY <1>0, <1>7, <1>8, PendingKeeps, PendingTakes, PendingType, SetsType DEF SimpleTypes
<1>10. Refused' = Refused
  BY <1>3, RefusedSame
<1>11. CASE i = 0
  <2>1. Keeps("GOT_MESSAGE")
    BY <1>1, <1>p, <1>11, KeepsAct
  <2>2. Pending("GOT_MESSAGE")' = Pending("GOT_MESSAGE")
    BY <2>1, PendingKeeps
  <2>3. OutstandingExact'
    BY <1>0, <1>3, <1>9, <1>10, <1>11, <2>2 DEF OutstandingExact, Got
  <2>4. WaitingExact'
    BY <1>0, <1>3, <1>7, <1>11, <2>1, WaitingSame
  <2> QED BY <1>2, <1>6, <2>3, <2>4 DEF IInv
<1>12. CASE i # 0
  <2>0. i \in Workers
    BY <1>12 DEF Workers
  <2>1. PICK g : Adds1("GOT_MESSAGE", g)
    BY <1>g, <2>0
  <2>2. Pending("GOT_MESSAGE")' = Pending("GOT_MESSAGE") + 1
    BY <2>1, <1>0, PendingAdds
  <2>3. OutstandingExact'
    BY <1>0, <1>3, <1>9, <1>10, <1>12, <2>2 DEF OutstandingExact, Got
  <2>4. \A j : Released(j)' <=> Released(j)
    BY <1>7 DEF Keeps, Released
  <2>5. ~Released(i)
    <3>1. m.epoch = current_epoch[0] /\ current_epoch[0] \in Nat /\ current_epoch[i] \in Nat
      BY <1>0, <1>p, LinkFacts DEF NetOK, SimpleTypes
    <3> QED BY <3>1, <2>0, <1>0, <1>3, BaseFacts DEF Mine, ToldsAt
  <2>6. Waiting' = Waiting \ {i} /\ i \in Waiting
    <3>1. \A j \in Workers : j \in Nodes
      BY LinkFacts
    <3> QED BY <3>1, <2>0, <2>4, <2>5, <1>3 DEF Waiting
  <2>7. Cardinality(Waiting') = Cardinality(Waiting) - 1
    BY <2>6, SetsType, FS_RemoveElement
  <2>8. (\A k \in Nodes : pc'[k] \notin {"failed", "refused"}) => \A k \in Nodes : pc[k] \notin {"failed", "refused"}
    BY <1>3
  <2>9. WaitingExact'
    BY <2>2, <2>7, <2>8, <1>0, <1>3, <1>9 DEF WaitingExact
  <2> QED BY <1>2, <1>6, <2>3, <2>9 DEF IInv
<1> QED BY <1>11, <1>12

LEMMA PopSeeAllIInv ==
  ASSUME IInv, NEW i \in Nodes, PopSeeAll(i)
  PROVE  IInv'
<1>0. /\ Base /\ WaitingBound /\ OutstandingExact /\ WaitingExact /\ SimpleTypes /\ OrderedNow
  BY BaseFacts DEF IInv
<1>1. Act(i, {}, "READ_ERROR") /\ Pulls(i, "SEE_ALL_IN_WAITING_STATE")
  BY <1>0, SilentPop DEF PopSeeAll
<1>p. PICK m \in Net : /\ Popped(m, i) /\ m.msg_type = "SEE_ALL_IN_WAITING_STATE" /\ Net \ Net' = {m}
  BY <1>1 DEF Pulls
<1>2. Base' /\ i \in Workers /\ i # 0
  BY <1>0, PopSeeAllBase, LinkFacts
<1>r. Released(i)
  BY <1>p DEF Released, Popped
<1>3. /\ terminated' = terminated /\ current_epoch'[0] = current_epoch[0]
      /\ \A j \in Nodes : j # i => current_epoch'[j] = current_epoch[j]
      /\ outstanding_messages' = outstanding_messages /\ num_waiting_nodes' = num_waiting_nodes
      /\ pc[i] \in {"receive_data", "closing"} /\ pc'[i] \in {"running", "closing"}
      /\ \A j \in Nodes : j # i => pc'[j] = pc[j]
  BY <1>0, <1>2, LinkFacts DEF PopSeeAll, Pop, Goes, counters, SimpleTypes
<1>4. Moves(i) /\ Learns(i)
  BY <1>0, <1>p, <1>3 DEF Moves, Learns, SimpleTypes
<1>5. WaitingBound'
  <2>1. ~View(i)
    BY <1>r DEF View
  <2> QED BY <2>1, <1>0, <1>1, <1>p, <1>3, <1>4, BoundStep
<1>6. /\ Keeps("MESSAGE_HEADER") /\ Keeps("SENT_MESSAGE") /\ Keeps("GOT_MESSAGE")
      /\ Keeps("IN_WAITING_STATE")
  BY <1>1, <1>p, KeepsAct
<1>7. OutstandingExact'
  BY <1>0, <1>3, <1>6, RefusedSame, OutstandingSame
<1>8. WaitingExact'
  <2>1. Takes1("SEE_ALL_IN_WAITING_STATE", m)
    BY <1>1, <1>p, TakesOne
  <2>2. \A j \in Workers : j # i => (Released(j)' <=> Released(j))
    <3>1. m.receiver_id = i
      BY <1>p DEF Popped
    <3> QED BY <2>1, <3>1 DEF Takes1, Released
  <2>3. Waiting' = Waiting
    <3>1. \A j \in Workers : j \in Nodes
      BY LinkFacts
    <3>2. i \notin Waiting /\ i \notin Waiting'
      BY <1>r, <1>3 DEF Waiting
    <3> QED BY <3>1, <3>2, <2>2, <1>3 DEF Waiting
  <2>4. (\A k \in Nodes : pc'[k] \notin {"failed", "refused"}) => \A k \in Nodes : pc[k] \notin {"failed", "refused"}
    BY <1>3
  <2> QED BY <2>3, <2>4, <1>0, <1>3, <1>6, PendingKeeps DEF WaitingExact
<1> QED BY <1>2, <1>5, <1>7, <1>8 DEF IInv

LEMMA PopFatalIInv ==
  ASSUME IInv, NEW i \in Nodes, PopFatal(i)
  PROVE  IInv'
<1> DEFINE T == IF i # 0 /\ pc[i] = "closing" THEN {} ELSE Nodes
<1>0. /\ Base /\ WaitingBound /\ OutstandingExact /\ WaitingExact /\ SimpleTypes /\ OrderedNow
  BY BaseFacts DEF IInv
<1>1. /\ Act(i, T, "READ_ERROR")
      /\ \/ Pulls(i, "READ_ERROR") /\ pc' = [pc EXCEPT ![i] = "failed"]
         \/ pc[i] = "closing" /\ Pulls(i, "MESSAGE_HEADER") /\ pc' = [pc EXCEPT ![i] = "refused"]
  BY <1>0, PopFatalAct
<1> HIDE DEF T
<1>p. PICK m \in Net : /\ Popped(m, i) /\ Net \ Net' = {m}
                       /\ \/ m.msg_type = "READ_ERROR" /\ pc'[i] = "failed"
                          \/ m.msg_type = "MESSAGE_HEADER" /\ pc'[i] = "refused" /\ pc[i] = "closing"
  BY <1>0, <1>1 DEF Pulls, SimpleTypes
<1>2. Base'
  BY <1>0, PopFatalBase
<1>3. /\ terminated' = terminated /\ current_epoch' = current_epoch
      /\ outstanding_messages' = outstanding_messages /\ num_waiting_nodes' = num_waiting_nodes
      /\ pc[i] \in {"receive_data", "closing"}
      /\ \A j \in Nodes : j # i => pc'[j] = pc[j]
  BY <1>0, <1>1 DEF PopFatal, Pop, Goes, counters, SimpleTypes
<1>4. Moves(i) /\ Learns(i)
  BY <1>0, <1>p, <1>3 DEF Moves, Learns, SimpleTypes
<1>n. \A x \in Net \ Net' : ~IsNotice(x, i)
  BY <1>p DEF IsNotice, Notices
<1>5. i \in Workers /\ View(i) => View(i)'
  <2> HAVE i \in Workers /\ View(i)
  <2>1. CASE NextIsGot(i)
    BY <2>1, <1>0, <1>1, <1>3, <1>n, ViewNext
  <2>2. CASE ~NextIsGot(i)
    <3>1. pc[i] = "receive_data" /\ pc'[i] = "failed" /\ \A y \in Net : ~IsNotice(y, i)
      BY <2>2, <1>p, <1>3 DEF View
    <3>2. Adds(i, T, "READ_ERROR")
      BY <1>1, ActFacts
    <3>3. \A y \in Net' : ~IsNotice(y, i)
      BY <3>1, <3>2 DEF Adds, IsNotice, Notices
    <3>4. ~Released(i)'
      BY <1>1, OwnFacts DEF Owns, View
    <3> QED BY <3>1, <3>3, <3>4, <1>3 DEF View, IsNotice
  <2> QED BY <2>1, <2>2
<1>6. WaitingBound'
  BY <1>0, <1>1, <1>p, <1>3, <1>4, <1>5, BoundStep
<1>7. WaitingExact'
  BY <1>p DEF WaitingExact
<1>8. OutstandingExact'
  <2>1. CASE m.msg_type = "READ_ERROR" /\ pc'[i] = "failed"
    BY <2>1, <1>0, <1>1, <1>p, <1>3, <1>4, Uncounted
  <2>2. CASE m.msg_type = "MESSAGE_HEADER" /\ pc'[i] = "refused"
    <3>1. Takes1("MESSAGE_HEADER", m)
      BY <2>2, <1>1, <1>p, TakesOne
    <3>2. Keeps("SENT_MESSAGE") /\ Keeps("GOT_MESSAGE")
      BY <2>2, <1>1, <1>p, KeepsAct
    <3>3. Refused' = Refused \cup {i} /\ i \notin Refused
      BY <2>2, <1>3 DEF Refused
    <3>4. Cardinality(Refused') = Cardinality(Refused) + 1 /\ Cardinality(Refused) \in Nat
      BY <3>3, SetsType, FS_AddElement
    <3>5. /\ Pending("MESSAGE_HEADER")' = Pending("MESSAGE_HEADER") - 1
          /\ Pending("SENT_MESSAGE")' = Pending("SENT_MESSAGE")
          /\ Pending("GOT_MESSAGE")' = Pending("GOT_MESSAGE")
          /\ Pending("MESSAGE_HEADER") \in Nat /\ Pending("SENT_MESSAGE") \in Nat
          /\ Pending("GOT_MESSAGE") \in Nat
      BY <1>0, <3>1, <3>2, PendingKeeps, PendingTakes, PendingType
    <3> QED BY <3>4, <3>5, <1>0, <1>3 DEF OutstandingExact, SimpleTypes
  <2> QED BY <1>p, <2>1, <2>2
<1> QED BY <1>2, <1>6, <1>7, <1>8 DEF IInv

LEMMA PopNoticeIInv ==
  ASSUME IInv, NEW i \in Nodes, PopNotice(i)
  PROVE  IInv'
<1>0. /\ Base /\ WaitingBound /\ OutstandingExact /\ WaitingExact /\ SimpleTypes /\ OrderedNow
  BY BaseFacts DEF IInv
<1>1. Base'
  BY <1>0, PopNoticeBase
<1>2. WaitingBound'
  BY <1>0, <1>1, BoundNotice
<1>3. Act(0, {}, "READ_ERROR") /\ pc' = pc /\ 0 \in Nodes
  BY <1>0, NoticeFacts, LinkFacts
<1>4. PICK m \in Net :
        /\ Net' = Net \ {m}
        /\ \/ /\ m.msg_type = "IN_WAITING_STATE" /\ num_waiting_nodes' = num_waiting_nodes + 1
              /\ outstanding_messages' = outstanding_messages
           \/ /\ m.msg_type = "GOT_MESSAGE" /\ num_waiting_nodes' = num_waiting_nodes - 1
              /\ outstanding_messages' = outstanding_messages - 1
           \/ /\ m.msg_type = "SENT_MESSAGE" /\ num_waiting_nodes' = num_waiting_nodes
              /\ outstanding_messages' = outstanding_messages + 1
  BY <1>0, NoticeFacts
<1>5. /\ Takes1(m.msg_type, m)
      /\ \A t : t # m.msg_type => Keeps(t)
  BY <1>4 DEF Takes1, Keeps
<1>6. /\ Refused' = Refused
      /\ Waiting' = Waiting
  <2>1. \A j : Released(j)' <=> Released(j)
    BY <1>4 DEF Released
  <2> QED BY <1>3, <2>1 DEF Refused, Waiting
<1>7. /\ Pending("MESSAGE_HEADER") \in Nat /\ Pending("SENT_MESSAGE") \in Nat
      /\ Pending("IN_WAITING_STATE") \in Nat /\ Pending("GOT_MESSAGE") \in Nat
      /\ Cardinality(Refused) \in Nat /\ Cardinality(Waiting) \in Nat
      /\ num_waiting_nodes \in Int /\ outstanding_messages \in Int
      /\ Pending("MESSAGE_HEADER")' = Pending("MESSAGE_HEADER")
  BY <1>0, <1>4, <1>5, PendingKeeps, PendingType, SetsType DEF SimpleTypes
<1>8. Pending(m.msg_type)' = Pending(m.msg_type) - 1
  BY <1>0, <1>5, PendingTakes
<1>9. \A t : t # m.msg_type => Pending(t)' = Pending(t)
  BY <1>5, PendingKeeps
<1>10. OutstandingExact'
  <2>1. CASE m.msg_type = "IN_WAITING_STATE" /\ outstanding_messages' = outstanding_messages
    BY <2>1, <1>0, <1>6, <1>7, <1>9 DEF OutstandingExact
  <2>2. CASE m.msg_type = "GOT_MESSAGE" /\ outstanding_messages' = outstanding_messages - 1
    BY <2>2, <1>0, <1>6, <1>7, <1>8, <1>9 DEF OutstandingExact
  <2>3. CASE m.msg_type = "SENT_MESSAGE" /\ outstanding_messages' = outstanding_messages + 1
    BY <2>3, <1>0, <1>6, <1>7, <1>8, <1>9 DEF OutstandingExact
  <2> QED BY <1>4, <2>1, <2>2, <2>3
<1>11. WaitingExact'
  <2> SUFFICES ASSUME \A k \in Nodes : pc[k] \notin {"failed", "refused"}
               PROVE  num_waiting_nodes' + Pending("IN_WAITING_STATE")' - Pending("GOT_MESSAGE")'
                        = Cardinality(Waiting)
    BY <1>3, <1>6 DEF WaitingExact
  <2>0. num_waiting_nodes + Pending("IN_WAITING_STATE") - Pending("GOT_MESSAGE") = Cardinality(Waiting)
    BY <1>0 DEF WaitingExact
  <2>1. CASE m.msg_type = "IN_WAITING_STATE" /\ num_waiting_nodes' = num_waiting_nodes + 1
    BY <2>0, <2>1, <1>7, <1>8, <1>9
  <2>2. CASE m.msg_type = "GOT_MESSAGE" /\ num_waiting_nodes' = num_waiting_nodes - 1
    BY <2>0, <2>2, <1>7, <1>8, <1>9
  <2>3. CASE m.msg_type = "SENT_MESSAGE" /\ num_waiting_nodes' = num_waiting_nodes
    BY <2>0, <2>3, <1>7, <1>8, <1>9
  <2> QED BY <1>4, <2>1, <2>2, <2>3
<1> QED BY <1>1, <1>2, <1>10, <1>11 DEF IInv

LEMMA ReadIInv ==
  ASSUME IInv, NEW l \in Links, read_thread(l)
  PROVE  IInv'
<1>0. /\ Base /\ WaitingBound /\ OutstandingExact /\ WaitingExact /\ OrderedNow
  BY BaseFacts DEF IInv
<1>1. Base' /\ Net' = Net
  BY <1>0, ReadBase, ReadAct
<1>2. /\ outstanding_messages' = outstanding_messages /\ num_waiting_nodes' = num_waiting_nodes
      /\ terminated' = terminated /\ pc' = pc
  BY DEF read_thread, counters
<1>3. /\ Refused' = Refused /\ \A t : Pending(t)' = Pending(t)
      /\ \A j : (Released(j)' <=> Released(j)) /\ (NextIsGot(j)' <=> NextIsGot(j))
  BY <1>1, <1>2 DEF Refused, Pending, Released, NextIsGot, IsNotice
<1>4. Viewed' = Viewed /\ Waiting' = Waiting
  <2>1. \A j : View(j)' <=> View(j)
    BY <1>1, <1>2, <1>3 DEF View, IsNotice
  <2> QED BY <2>1, <1>2, <1>3 DEF Viewed, Waiting
<1>5. WaitingBound' /\ OutstandingExact' /\ WaitingExact'
  BY <1>0, <1>2, <1>3, <1>4 DEF WaitingBound, OutstandingExact, WaitingExact
<1> QED BY <1>1, <1>5 DEF IInv

LEMMA SendIInv ==
  ASSUME DirectedRoutes, IInv, NEW l \in Links, send_data(l)
  PROVE  IInv'
<1>0. /\ Base /\ WaitingBound /\ OutstandingExact /\ WaitingExact /\ SimpleTypes /\ OrderedNow
  BY BaseFacts DEF IInv
<1>l. l[1] \in Nodes /\ l = <<l[1], l[2]>>
  BY LinkFacts
<1>1. Base'
  BY <1>0, SendBase
<1>c. PICK c, New : Sending(l, c, New)
  <2>1. current_epoch[l[1]] \in Nat
    BY <1>0, <1>l DEF SimpleTypes
  <2> QED BY <2>1, <1>0, SendAct
<1>2. /\ Net' = Net \cup {c} \cup New /\ c \notin Net /\ \A m \in New : m \notin Net /\ m # c
      /\ c.msg_type = "MESSAGE_HEADER"
      /\ \A m \in New : m.msg_type = "SENT_MESSAGE" /\ m.sender_id = l[1] /\ m.receiver_id = 0
                        /\ m.num = written[<<l[1], 0>>] + IF l[2] = 0 THEN 2 ELSE 1
  BY <1>c DEF Sending
<1>3. /\ terminated' = terminated /\ current_epoch' = current_epoch
      /\ num_waiting_nodes' = num_waiting_nodes /\ pc[l[1]] = "running" /\ pc' = pc
      /\ outstanding_messages' = outstanding_messages + IF l[1] = 0 THEN 1 ELSE 0
  BY DEF send_data
<1>4. WaitingBound'
  <2>1. ASSUME NEW j \in Workers, View(j) PROVE View(j)'
    <3>1. ~Released(j)'
      BY <1>2, <2>1 DEF View, Released
    <3>2. CASE j # l[1]
      <4>1. \A y : (IsNotice(y, j) /\ y \in Net') <=> (IsNotice(y, j) /\ y \in Net)
        BY <3>2, <1>2 DEF IsNotice, Notices
      <4>2. NextIsGot(j) => NextIsGot(j)'
        BY <4>1 DEF NextIsGot, IsNotice
      <4> QED BY <3>1, <4>1, <4>2, <2>1, <1>3 DEF View, IsNotice
    <3>3. CASE j = l[1]
      <4>1. PICK g \in Net : /\ IsNotice(g, j) /\ g.msg_type = "GOT_MESSAGE"
                             /\ \A y \in Net : IsNotice(y, j) => g.num <= y.num
        BY <2>1, <3>3, <1>3 DEF View, NextIsGot
      <4>2. g.num \in Nat /\ g.num <= written[<<j, 0>>] /\ written[<<j, 0>>] \in Nat
        BY <4>1, <1>0, NetFacts DEF IsNotice
      <4>3. \A y \in Net' : IsNotice(y, j) => g.num <= y.num
        <5> TAKE y \in Net'
        <5> HAVE IsNotice(y, j)
        <5>1. CASE y \in Net
          BY <5>1, <4>1
        <5>2. CASE y \in New
          <6>1. y.num = written[<<j, 0>>] + IF l[2] = 0 THEN 2 ELSE 1
            BY <5>2, <3>3, <1>2
          <6> QED BY <6>1, <4>2
        <5>3. y # c
          BY <1>2 DEF IsNotice, Notices
        <5> QED BY <5>1, <5>2, <5>3, <1>2
      <4>4. g \in Net'
        BY <1>2
      <4>5. NextIsGot(j)'
        BY <4>1, <4>3, <4>4 DEF NextIsGot, IsNotice
      <4> QED BY <3>1, <4>5, <2>1, <1>3 DEF View
    <3> QED BY <3>2, <3>3
  <2> QED BY <2>1, <1>0, <1>3, BoundKept
<1>5. /\ Adds1("MESSAGE_HEADER", c) /\ Keeps("GOT_MESSAGE")
      /\ Keeps("IN_WAITING_STATE") /\ Keeps("SEE_ALL_IN_WAITING_STATE")
  BY <1>2 DEF Adds1, Keeps
<1>6. /\ Pending("MESSAGE_HEADER")' = Pending("MESSAGE_HEADER") + 1
      /\ Pending("GOT_MESSAGE")' = Pending("GOT_MESSAGE")
      /\ Pending("MESSAGE_HEADER") \in Nat /\ Pending("SENT_MESSAGE") \in Nat
      /\ Pending("GOT_MESSAGE") \in Nat /\ Cardinality(Refused) \in Nat /\ outstanding_messages \in Int
  BY <1>0, <1>5, PendingKeeps, PendingAdds, PendingType, SetsType DEF SimpleTypes
<1>7. Refused' = Refused
  BY <1>3 DEF Refused
<1>8. WaitingExact'
  BY <1>0, <1>3, <1>5, <1>l, WaitingSame
<1>9. OutstandingExact'
  <2>1. CASE l[1] = 0
    <3>1. New = {}
      BY <2>1, <1>c DEF Sending
    <3>2. Keeps("SENT_MESSAGE")
      BY <3>1, <1>2 DEF Keeps
    <3>3. Pending("SENT_MESSAGE")' = Pending("SENT_MESSAGE")
      BY <3>2, PendingKeeps
    <3> QED BY <2>1, <3>3, <1>0, <1>3, <1>6, <1>7 DEF OutstandingExact
  <2>2. CASE l[1] # 0
    <3>1. PICK n : New = {n}
      BY <2>2, <1>c DEF Sending
    <3>2. Adds1("SENT_MESSAGE", n)
      BY <3>1, <1>2 DEF Adds1
    <3>3. Pending("SENT_MESSAGE")' = Pending("SENT_MESSAGE") + 1
      BY <3>2, <1>0, PendingAdds
    <3> QED BY <2>2, <3>3, <1>0, <1>3, <1>6, <1>7 DEF OutstandingExact
  <2> QED BY <2>1, <2>2
<1> QED BY <1>1, <1>4, <1>8, <1>9 DEF IInv

\* The end of an epoch: what stays true of worker j, who is told unless it has
\* told its end.
LEMMA EpochWorker ==
  ASSUME IInv, EndEpoch, NetOK', NEW j \in Workers
  PROVE  WaitsAt(j)' /\ SentsAt(j)' /\ TermsAt(j)' /\ ToldsAt(j)' /\ (Released(j)' \/ pc'[j] # "receive_data")
<1> DEFINE T == Workers \ terminated[0]
           see == "SEE_ALL_IN_WAITING_STATE"
<1>0. /\ Base /\ SimpleTypes /\ OrderedNow /\ NetOK /\ Mine(j) /\ terminated[0] \subseteq Workers
      /\ j \in Nodes /\ j # 0
  BY BaseFacts, LinkFacts DEF IInv
<1>1. Act(0, T, see) /\ Net \subseteq Net' /\ 0 \in Nodes
  BY <1>0, EndEpochAct, LinkFacts
<1>2. Adds(0, T, see)
  BY <1>1, ActFacts
<1>q. /\ \A x \in Net : x.msg_type \notin {"MESSAGE_HEADER", "SENT_MESSAGE", "GOT_MESSAGE", "IN_WAITING_STATE"}
      /\ \A k \in Workers \ terminated[0] :
              /\ ~Released(k) /\ pc[k] \in {"receive_data", "failed"}
              /\ \A y \in Net : ~IsNotice(y, k)
  BY Quiet DEF EndEpoch, IInv
<1>3. /\ terminated' = terminated /\ current_epoch'[0] = current_epoch[0] + 1 /\ current_epoch'[j] = current_epoch[j]
      /\ pc'[j] = pc[j] /\ pc[0] \in {"receive_data", "closing"}
      /\ current_epoch[0] \in Nat /\ current_epoch[j] \in Nat
  BY <1>0, LinkFacts DEF EndEpoch, MayDetect, SimpleTypes
<1>4. \A x \in Net' : x \in Net \/ (x.msg_type = see /\ x.sender_id = 0 /\ x.receiver_id \in T)
  BY <1>2 DEF Adds
<1>5. \A y \in Net' : IsNotice(y, j) => y \in Net
  BY <1>0, <1>4 DEF IsNotice, Notices
<1>6. WaitsAt(j)' /\ SentsAt(j)'
  <2>1. \A x \in Net' : x.msg_type # "IN_WAITING_STATE" /\ x.msg_type # "SENT_MESSAGE"
    BY <1>4, <1>q
  <2> QED BY <2>1 DEF WaitsAt, SentsAt
<1>7. TermsAt(j)'
  <2>1. \A l \in Links : l[1] = j => written'[l] = written[l] /\ stream'[l] = stream[l]
    BY <1>0, <1>1, ActFacts
  <2>2. \A x \in Net' : x.msg_type = "NODE_TERMINATE" => x \in Net
    BY <1>4
  <2>3. ~AllOver
    BY <1>3 DEF AllOver
  <2>4. \A x \in Net' : x.msg_type = "NODE_TERMINATE" /\ x.sender_id = j =>
       x.num = written'[<<j, x.receiver_id>>] /\ Over(j)'
    <3> TAKE x \in Net'
    <3> HAVE x.msg_type = "NODE_TERMINATE" /\ x.sender_id = j
    <3> DEFINE l == <<j, x.receiver_id>>
    <3>1. x \in Net
      BY <2>2
    <3>2. l \in Links /\ l[1] = j
      BY <3>1, <1>0, NetFacts
    <3>3. x.num = written[l] /\ Over(j)
      BY <3>1, <1>0 DEF Mine, TermsAt
    <3> HIDE DEF l
    <3>4. x.num = written'[l]
      BY <2>1, <3>2, <3>3
    <3> QED BY <3>3, <3>4, <1>3 DEF Over, l
  <2>5. j \in terminated'[0] => /\ Over(j)' /\ stream'[<<j, 0>>] = <<>>
                                /\ \A y \in Net' : ~IsNotice(y, j)
    <3> HAVE j \in terminated'[0]
    <3>1. Over(j) /\ stream[<<j, 0>>] = <<>> /\ \A y \in Net : ~IsNotice(y, j)
      BY <1>0, <1>3 DEF Mine, TermsAt
    <3>2. <<j, 0>> \in Links /\ <<j, 0>>[1] = j
      BY <1>0, LinkFacts
    <3> QED BY <2>1, <3>1, <3>2, <1>3, <1>5 DEF Over
  <2>6. /\ \A x \in Net' : x.msg_type = "NODE_TERMINATE" /\ x.sender_id = 0 /\ x.receiver_id = j => AllOver'
        /\ 0 \in terminated'[j] => AllOver'
    BY <1>0, <1>3, <2>2, <2>3 DEF Mine, TermsAt
  <2> QED BY <2>4, <2>5, <2>6 DEF TermsAt, IsNotice
<1>8. CASE j \in terminated[0]
  <2>1. Over(j) /\ \A y \in Net : ~IsNotice(y, j)
    BY <1>0, <1>8 DEF Mine, TermsAt
  <2>2. \A x \in Net' : x.msg_type = see /\ x.receiver_id = j => x \in Net
    BY <1>4, <1>8
  <2>3. \A x, y \in Net : x.msg_type = see /\ x.receiver_id = j
                          /\ y.msg_type = see /\ y.receiver_id = j => x = y
    BY <1>0 DEF Mine, ToldsAt
  <2>4. Released(j)' => pc'[j] \in {"receive_data", "failed"} /\ \A y \in Net' : ~IsNotice(y, j)
    <3>1. Released(j)' => Released(j)
      BY <2>2 DEF Released
    <3>2. Released(j) => pc[j] \in {"receive_data", "failed"}
      BY <1>0 DEF Mine, ToldsAt
    <3> QED BY <3>1, <3>2, <2>1, <1>3, <1>5
  <2>5. pc'[j] \notin {"running", "receive_data"}
    BY <2>1, <1>3 DEF Over
  <2>6. ToldsAt(j)'
    BY <2>2, <2>3, <2>4, <2>5 DEF ToldsAt, IsNotice
  <2> QED BY <1>6, <1>7, <2>5, <2>6
<1>9. CASE j \notin terminated[0]
  <2>1. /\ ~Released(j) /\ pc[j] \in {"receive_data", "failed"}
        /\ \A y \in Net : ~IsNotice(y, j)
    BY <1>q, <1>9
  <2>2. PICK s \in Net' : s \notin Net /\ s.msg_type = see /\ s.receiver_id = j
    <3>1. \A k \in T : k # 0 => \E x \in Net' : x \notin Net /\ x.msg_type = see /\ x.receiver_id = k
      BY <1>1, ActFacts
    <3> QED BY <3>1, <1>0, <1>9
  <2>3. \A x \in Net' : x.msg_type = see /\ x.receiver_id = j => x \notin Net
    BY <2>1 DEF Released
  <2>4. \A x \in Net' : x.msg_type = see /\ x.receiver_id = j =>
          x.sender_id = 0 /\ x.num = written[<<0, j>>] + 1
    <3> TAKE x \in Net'
    <3> HAVE x.msg_type = see /\ x.receiver_id = j
    <3>1. x.sender_id = 0 /\ x.num = written[<<0, x.receiver_id>>] + 1
      BY <1>2, <2>3 DEF Adds
    <3> QED BY <3>1
  <2>5. \A x, y \in Net' : x.msg_type = see /\ x.receiver_id = j
                          /\ y.msg_type = see /\ y.receiver_id = j => x = y
    <3> TAKE x, y \in Net'
    <3> HAVE x.msg_type = see /\ x.receiver_id = j /\ y.msg_type = see /\ y.receiver_id = j
    <3>1. x.sender_id = y.sender_id /\ x.receiver_id = y.receiver_id /\ x.num = y.num
      BY <2>4
    <3>2. x \in Flow(stream', msg_buffer') /\ y \in Flow(stream', msg_buffer') /\ Ordered(stream', msg_buffer', written')
      BY <1>1, ActFacts DEF Net, OrderedNow
    <3> QED BY <3>1, <3>2, FlowUnique
  <2>6. Released(j)'
    BY <2>2 DEF Released
  <2>7. pc'[j] \in {"receive_data", "failed"} /\ \A y \in Net' : ~IsNotice(y, j)
    BY <2>1, <1>3, <1>5
  <2>8. pc'[j] = "receive_data" => current_epoch'[0] = current_epoch'[j] + 1
    <3>1. pc[j] = "receive_data" => current_epoch[0] = current_epoch[j] + 0
      BY <2>1, <1>0 DEF Mine, ToldsAt
    <3> QED BY <3>1, <1>3
  <2>9. ToldsAt(j)'
    BY <2>5, <2>6, <2>7, <2>8 DEF ToldsAt, IsNotice
  <2> QED BY <1>6, <1>7, <2>6, <2>9
<1> QED BY <1>8, <1>9

LEMMA EndEpochIInv ==
  ASSUME IInv, EndEpoch
  PROVE  IInv'
<1> DEFINE T == Workers \ terminated[0]
           see == "SEE_ALL_IN_WAITING_STATE"
<1>0. /\ Base /\ SimpleTypes /\ OrderedNow /\ NetOK /\ terminated[0] \subseteq Workers
      /\ WaitingBound /\ OutstandingExact /\ WaitingExact
  BY BaseFacts DEF IInv
<1>1. Act(0, T, see) /\ Net \subseteq Net' /\ 0 \in Nodes /\ OrderedNow'
  BY <1>0, EndEpochAct, LinkFacts DEF Act
<1> HIDE DEF T
<1>q. /\ \A x \in Net : x.msg_type \notin {"MESSAGE_HEADER", "SENT_MESSAGE", "GOT_MESSAGE", "IN_WAITING_STATE"}
      /\ Pending("IN_WAITING_STATE") = 0 /\ Pending("GOT_MESSAGE") = 0
  BY <1>0, Quiet DEF EndEpoch
<1>2. NetOK'
  BY <1>0, <1>1, <1>q, NetStep, TypeFacts
<1>3. \A j \in Workers :
        WaitsAt(j)' /\ SentsAt(j)' /\ TermsAt(j)' /\ ToldsAt(j)' /\ (Released(j)' \/ pc'[j] # "receive_data")
  BY <1>2, EpochWorker
<1>4. /\ terminated' = terminated /\ current_epoch' = [current_epoch EXCEPT ![0] = current_epoch[0] + 1]
      /\ outstanding_messages' = outstanding_messages /\ num_waiting_nodes' = 0 /\ sent' = sent
      /\ pc[0] \in {"receive_data", "closing"}
      /\ pc' = pc \/ pc' = [pc EXCEPT ![0] = "running"]
  BY DEF EndEpoch, MayDetect, AfterEpoch
<1>5. SimpleTypes'
  BY <1>0, <1>1, <1>4 DEF SimpleTypes
<1>6. Base'
  BY <1>0, <1>1, <1>2, <1>3, <1>4, <1>5 DEF Base, WorkersOK
<1>7. WaitingBound'
  <2>1. IsFiniteSet(Viewed') /\ Cardinality(Viewed') \in Nat
    <3>1. Viewed' \in SUBSET Workers
      BY DEF Viewed
    <3>2. IsFiniteSet(Viewed')
      BY <3>1, FiniteLinks, FS_Subset
    <3> QED BY <3>2, FS_CardinalityType
  <2> QED BY <2>1, <1>4 DEF WaitingBound
<1>8. Keeps("MESSAGE_HEADER") /\ Keeps("SENT_MESSAGE") /\ Keeps("GOT_MESSAGE") /\ Keeps("IN_WAITING_STATE")
  BY <1>1, KeepsAct
<1>9. OutstandingExact'
  <2>1. Refused' = Refused
    BY <1>0, <1>4 DEF Refused, SimpleTypes
  <2> QED BY <2>1, <1>0, <1>4, <1>8, OutstandingSame
<1>10. WaitingExact'
  <2>1. Waiting' = {}
    BY <1>3 DEF Waiting
  <2>2. Cardinality(Waiting') = 0
    BY <2>1, FS_EmptySet
  <2>3. Pending("IN_WAITING_STATE")' = 0 /\ Pending("GOT_MESSAGE")' = 0
    BY <1>8, <1>q, PendingKeeps
  <2> QED BY <2>2, <2>3, <1>4 DEF WaitingExact
<1> QED BY <1>6, <1>7, <1>9, <1>10 DEF IInv

-----------------------------------------------------------------------------
(* The invariant *)

\* The invariant holds initially.
LEMMA InitNet ==
  ASSUME Init
  PROVE  Net = {} /\ OrderedNow
<1>1. /\ \A l \in Links : stream[l] = <<>> /\ written[l] = 0
      /\ \A i \in Nodes : msg_buffer[i] = <<>>
  BY DEF Init
<1>2. Len(<<>>) = 0 /\ <<>> \in Seq(Messages) /\ 0 \in Nat
  OBVIOUS
<1>3. /\ \A l \in Links : \A k \in 1..Len(stream[l]) : FALSE
      /\ \A i \in Nodes : \A k \in 1..Len(msg_buffer[i]) : FALSE
  BY <1>1, <1>2
<1>4. Net = {}
  BY <1>3 DEF Net, Flow
<1>5. Typed(stream, msg_buffer, written)
  BY <1>2 DEF Init, Typed
<1>6. StreamOf(stream, written) /\ StreamSorted(stream) /\ BufferOf(msg_buffer, written)
      /\ BufferSorted(msg_buffer)
  BY <1>3 DEF StreamOf, StreamSorted, BufferOf, BufferSorted
<1>7. BufferFirst(stream, msg_buffer)
  BY <1>3, LinkFacts DEF BufferFirst
<1> QED BY <1>4, <1>5, <1>6, <1>7 DEF OrderedNow, Ordered

LEMMA InitIInv ==
  ASSUME Init
  PROVE  IInv
<1>1. Net = {} /\ OrderedNow
  BY InitNet
<1>2. SimpleTypes
  BY LinkFacts DEF Init, SimpleTypes
<1>3. \A j : ~Released(j) /\ \A y \in Net : ~IsNotice(y, j)
  BY <1>1 DEF Released
<1>4. terminated[0] = {} /\ \A j \in Nodes : terminated[j] = {} /\ pc[j] = "running" /\ current_epoch[j] = 1
  BY LinkFacts DEF Init
<1>5. NetOK
  BY <1>1 DEF NetOK
<1>6. ASSUME NEW j \in Workers PROVE WaitsAt(j) /\ SentsAt(j) /\ TermsAt(j) /\ ToldsAt(j)
  <2>1. WaitsAt(j) /\ SentsAt(j)
    BY <1>1 DEF WaitsAt, SentsAt
  <2>2. TermsAt(j)
    BY <1>1, <1>4, LinkFacts DEF TermsAt
  <2>3. current_epoch[0] = 1 /\ current_epoch[j] = 1 /\ ~Released(j)
    BY <1>3, <1>4, LinkFacts
  <2>4. ToldsAt(j)
    BY <1>1, <2>3 DEF ToldsAt
  <2> QED BY <2>1, <2>2, <2>4
<1>7. Base
  BY <1>1, <1>2, <1>4, <1>5, <1>6 DEF Base, WorkersOK
<1>8. Refused = {} /\ Waiting = {}
  BY <1>4, LinkFacts DEF Refused, Waiting
<1>9. \A t : Pending(t) = 0
  <2>1. \A t : Of(t, Net) = {}
    BY <1>1 DEF Of
  <2> QED BY <2>1, FS_EmptySet DEF Pending
<1>10. outstanding_messages = 0 /\ num_waiting_nodes = 0
  BY DEF Init
<1>11. Cardinality(Refused) = 0 /\ Cardinality(Waiting) = 0
  BY <1>8, FS_EmptySet
<1>12. WaitingBound /\ OutstandingExact /\ WaitingExact
  BY <1>9, <1>10, <1>11, SetsType DEF WaitingBound, OutstandingExact, WaitingExact
<1> QED BY <1>7, <1>12 DEF IInv

\* It is about the variables of Bsp only.
LEMMA StutterIInv ==
  ASSUME IInv, UNCHANGED vars
  PROVE  IInv'
<1>1. /\ outstanding_messages' = outstanding_messages /\ num_waiting_nodes' = num_waiting_nodes
      /\ terminated' = terminated /\ current_epoch' = current_epoch /\ stream' = stream
      /\ msg_buffer' = msg_buffer /\ pc' = pc /\ sent' = sent /\ written' = written
  BY DEF vars, counters
<1>2. Net' = Net /\ (OrderedNow => OrderedNow')
  BY <1>1 DEF Net, OrderedNow
<1>3. SimpleTypes => SimpleTypes'
  BY <1>1 DEF SimpleTypes
<1>4. NetOK => NetOK'
  BY <1>1, <1>2 DEF NetOK
<1>5. \A j : /\ Released(j)' <=> Released(j)
             /\ NextIsGot(j)' <=> NextIsGot(j)
  BY <1>2 DEF Released, NextIsGot, IsNotice
<1>6. \A j : View(j)' <=> View(j)
  BY <1>1, <1>2, <1>5 DEF View, IsNotice
<1>7. Viewed' = Viewed /\ Waiting' = Waiting /\ Refused' = Refused /\ \A t : Pending(t)' = Pending(t)
  BY <1>1, <1>2, <1>5, <1>6 DEF Viewed, Waiting, Refused, Pending
<1>8. WaitingBound' /\ OutstandingExact' /\ WaitingExact'
  BY <1>1, <1>7 DEF IInv, WaitingBound, OutstandingExact, WaitingExact
<1>9. AllOver' <=> AllOver
  BY <1>1 DEF AllOver, AllTerminated
<1>10. ASSUME NEW j \in Workers, WaitsAt(j), SentsAt(j), TermsAt(j), ToldsAt(j)
       PROVE  WaitsAt(j)' /\ SentsAt(j)' /\ TermsAt(j)' /\ ToldsAt(j)'
  <2>1. WaitsAt(j)'
    BY <1>1, <1>2, <1>5, <1>10 DEF WaitsAt, IsNotice
  <2>2. SentsAt(j)'
    BY <1>2, <1>10 DEF SentsAt
  <2>3. TermsAt(j)'
    BY <1>1, <1>2, <1>9, <1>10 DEF TermsAt, IsNotice, Over
  <2>4. ToldsAt(j)'
    BY <1>1, <1>2, <1>5, <1>10 DEF ToldsAt, IsNotice
  <2> QED BY <2>1, <2>2, <2>3, <2>4
<1>11. Base'
  BY <1>1, <1>2, <1>3, <1>4, <1>10 DEF IInv, Base, WorkersOK
<1> QED BY <1>8, <1>11 DEF IInv

\* Every step preserves it.
LEMMA NextIInv ==
  ASSUME DirectedRoutes, IInv, [Next]_vars
  PROVE  IInv'
<1>1. ASSUME NEW l \in Links, read_thread(l) PROVE IInv'
  BY <1>1, ReadIInv
<1>2. ASSUME NEW l \in Links, send_data(l) PROVE IInv'
  BY <1>2, SendIInv
<1>3. ASSUME NEW i \in Nodes, EnterReceive(i) PROVE IInv'
  BY <1>3, EnterReceiveIInv
<1>4. ASSUME NEW i \in Nodes, EnterClose(i) \/ Crash(i) PROVE IInv'
  BY <1>4, EndIInv
<1>5. ASSUME NEW i \in Nodes, ReceiveAlone(i) PROVE IInv'
  BY <1>5, ReceiveAloneIInv
<1>6. CASE EndEpoch
  BY <1>6, EndEpochIInv
<1>7. ASSUME NEW i \in Nodes, PopContent(i) PROVE IInv'
  BY <1>7, PopContentIInv
<1>8. ASSUME NEW i \in Nodes, PopNotice(i) PROVE IInv'
  BY <1>8, PopNoticeIInv
<1>9. ASSUME NEW i \in Nodes, PopTerminate(i) PROVE IInv'
  BY <1>9, PopTerminateIInv
<1>10. ASSUME NEW i \in Nodes, PopSeeAll(i) PROVE IInv'
  BY <1>10, PopSeeAllIInv
<1>11. ASSUME NEW i \in Nodes, PopFatal(i) PROVE IInv'
  BY <1>11, PopFatalIInv
<1>12. ASSUME NEW i \in Nodes, Close(i) PROVE IInv'
  BY <1>12, CloseIInv
<1>13. CASE UNCHANGED vars
  BY <1>13, StutterIInv
<1> QED BY <1>1, <1>2, <1>3, <1>4, <1>5, <1>6, <1>7, <1>8, <1>9, <1>10, <1>11, <1>12, <1>13
        DEF Next, Continue

\* The control node's counters, the notices and messages on their way and the
\* places of the programs fit together in every state, whatever the nodes and
\* their read threads do, along direct routes.
THEOREM Invariance == ASSUME DirectedRoutes PROVE Spec => []IInv
<1>1. Init => IInv
  BY InitIInv
<1>2. IInv /\ [Next]_vars => IInv'
  BY NextIInv
<1> QED BY <1>1, <1>2, PTL DEF Spec

-----------------------------------------------------------------------------
(* Whatever the routes *)

\* Along any routes, the count of messages needs only that links deliver in order.
CountInv == SimpleTypes /\ OrderedNow /\ OutstandingExact

\* Steps that move no message that is counted, and count none.
LEMMA CountKept ==
  ASSUME OutstandingExact, NEW i \in Nodes, NEW T, NEW type, Act(i, T, type),
         type \notin {"MESSAGE_HEADER", "SENT_MESSAGE", "GOT_MESSAGE"},
         \A m \in Net \ Net' : m.msg_type \notin {"MESSAGE_HEADER", "SENT_MESSAGE", "GOT_MESSAGE"},
         outstanding_messages' = outstanding_messages, Refused' = Refused
  PROVE  OutstandingExact'
  BY KeepsAct, OutstandingSame

\* The counts are numbers.
LEMMA CountTypes ==
  ASSUME SimpleTypes, OrderedNow
  PROVE  /\ Pending("MESSAGE_HEADER") \in Nat /\ Pending("SENT_MESSAGE") \in Nat
         /\ Pending("GOT_MESSAGE") \in Nat /\ Cardinality(Refused) \in Nat
         /\ outstanding_messages \in Int
  BY PendingType, SetsType DEF SimpleTypes

\* Programs that go on, begin to wait or end count nothing.
LEMMA CountProgram ==
  ASSUME CountInv, NEW i \in Nodes,
         EnterReceive(i) \/ EnterClose(i) \/ Crash(i) \/ ReceiveAlone(i) \/ Close(i)
  PROVE  OutstandingExact'
<1>0. SimpleTypes /\ OrderedNow /\ OutstandingExact
  BY DEF CountInv
<1>1. PICK T, type : /\ Act(i, T, type) /\ Net \subseteq Net'
                     /\ type \in {"IN_WAITING_STATE", "NODE_TERMINATE", "READ_ERROR"}
  BY <1>0, EnterReceiveAct, EnterCloseAct, CrashAct, ReceiveAloneAct, CloseAct
<1>2. /\ outstanding_messages' = outstanding_messages
      /\ pc[i] # "refused" /\ pc'[i] # "refused" /\ \A j \in Nodes : j # i => pc'[j] = pc[j]
  BY <1>0 DEF EnterReceive, EnterClose, Crash, ReceiveAlone, Close, Goes, counters, SimpleTypes
<1>3. Refused' = Refused
  BY <1>2, RefusedSame
<1> QED BY <1>0, <1>1, <1>2, <1>3, CountKept

\* Nor does the control node when it ends an epoch.
LEMMA CountEpoch ==
  ASSUME CountInv, EndEpoch
  PROVE  OutstandingExact'
<1>0. SimpleTypes /\ OrderedNow /\ OutstandingExact /\ 0 \in Nodes
  BY LinkFacts DEF CountInv
<1>1. Act(0, Workers \ terminated[0], "SEE_ALL_IN_WAITING_STATE") /\ Net \subseteq Net'
  BY <1>0, EndEpochAct
<1>2. /\ outstanding_messages' = outstanding_messages
      /\ pc[0] # "refused" /\ pc'[0] # "refused" /\ \A j \in Nodes : j # 0 => pc'[j] = pc[j]
  BY <1>0 DEF EndEpoch, MayDetect, SimpleTypes
<1>3. Refused' = Refused
  BY <1>0, <1>2, RefusedSame
<1> QED BY <1>0, <1>1, <1>2, <1>3, CountKept

\* Nor does who is told of an end.
LEMMA CountTold ==
  ASSUME CountInv, NEW i \in Nodes, PopTerminate(i) \/ PopSeeAll(i)
  PROVE  OutstandingExact'
<1>0. SimpleTypes /\ OrderedNow /\ OutstandingExact
  BY DEF CountInv
<1>1. /\ Act(i, {}, "READ_ERROR")
      /\ Pulls(i, "NODE_TERMINATE") \/ Pulls(i, "SEE_ALL_IN_WAITING_STATE")
  BY <1>0, SilentPop DEF PopTerminate, PopSeeAll
<1>2. \A m \in Net \ Net' : m.msg_type \notin {"MESSAGE_HEADER", "SENT_MESSAGE", "GOT_MESSAGE"}
  BY <1>1 DEF Pulls
<1>3. /\ outstanding_messages' = outstanding_messages
      /\ pc[i] # "refused" /\ pc'[i] # "refused" /\ \A j \in Nodes : j # i => pc'[j] = pc[j]
  BY <1>0 DEF PopTerminate, PopSeeAll, Pop, Goes, counters, SimpleTypes
<1>4. Refused' = Refused
  BY <1>3, RefusedSame
<1> QED BY <1>0, <1>1, <1>2, <1>3, <1>4, CountKept

\* Content that was sent is on its way, and so is its notice unless the control
\* node sent it.
LEMMA CountSend ==
  ASSUME CountInv, NEW l \in Links, send_data(l)
  PROVE  OutstandingExact'
<1>0. SimpleTypes /\ OrderedNow /\ OutstandingExact /\ l[1] \in Nodes
  BY LinkFacts DEF CountInv
<1>c. PICK c, New : Sending(l, c, New)
  <2>1. current_epoch[l[1]] \in Nat
    BY <1>0 DEF SimpleTypes
  <2> QED BY <2>1, <1>0, SendAct
<1>1. /\ Net' = Net \cup {c} \cup New /\ c \notin Net /\ \A m \in New : m \notin Net /\ m # c
      /\ c.msg_type = "MESSAGE_HEADER" /\ \A m \in New : m.msg_type = "SENT_MESSAGE"
  BY <1>c DEF Sending
<1>2. Adds1("MESSAGE_HEADER", c) /\ Keeps("GOT_MESSAGE")
  BY <1>1 DEF Adds1, Keeps
<1>3. /\ Pending("MESSAGE_HEADER")' = Pending("MESSAGE_HEADER") + 1
      /\ Pending("GOT_MESSAGE")' = Pending("GOT_MESSAGE")
  BY <1>0, <1>2, PendingKeeps, PendingAdds
<1>4. Refused' = Refused /\ outstanding_messages' = outstanding_messages + IF l[1] = 0 THEN 1 ELSE 0
  BY DEF send_data, Refused
<1>5. CASE l[1] = 0
  <2>1. New = {}
    BY <1>5, <1>c DEF Sending
  <2>2. Keeps("SENT_MESSAGE")
    BY <2>1, <1>1 DEF Keeps
  <2>3. Pending("SENT_MESSAGE")' = Pending("SENT_MESSAGE")
    BY <2>2, PendingKeeps
  <2> QED BY <1>5, <2>3, <1>0, <1>3, <1>4, CountTypes DEF OutstandingExact
<1>6. CASE l[1] # 0
  <2>1. PICK n : New = {n}
    BY <1>6, <1>c DEF Sending
  <2>2. Adds1("SENT_MESSAGE", n)
    BY <2>1, <1>1 DEF Adds1
  <2>3. Pending("SENT_MESSAGE")' = Pending("SENT_MESSAGE") + 1
    BY <2>2, <1>0, PendingAdds
  <2> QED BY <1>6, <2>3, <1>0, <1>3, <1>4, CountTypes DEF OutstandingExact
<1> QED BY <1>5, <1>6

\* Content that was received is replaced by its notice, which is not written by
\* the control node.
LEMMA CountReceive ==
  ASSUME CountInv, NEW i \in Nodes, PopContent(i)
  PROVE  OutstandingExact'
<1>0. SimpleTypes /\ OrderedNow /\ OutstandingExact
  BY DEF CountInv
<1>1. Act(i, {0}, "GOT_MESSAGE") /\ Pulls(i, "MESSAGE_HEADER")
  BY <1>0, PopContentAct
<1>p. PICK m \in Net : m.msg_type = "MESSAGE_HEADER" /\ Net \ Net' = {m}
  BY <1>1 DEF Pulls
<1>2. /\ outstanding_messages' = outstanding_messages - Got(i)
      /\ pc[i] # "refused" /\ pc'[i] # "refused" /\ \A j \in Nodes : j # i => pc'[j] = pc[j]
  BY <1>0 DEF PopContent, Goes, SimpleTypes
<1>3. Refused' = Refused
  BY <1>2, RefusedSame
<1>4. Takes1("MESSAGE_HEADER", m) /\ Keeps("SENT_MESSAGE")
  BY <1>1, <1>p, TakesOne, KeepsAct
<1>5. /\ Pending("MESSAGE_HEADER")' = Pending("MESSAGE_HEADER") - 1
      /\ Pending("SENT_MESSAGE")' = Pending("SENT_MESSAGE")
  BY <1>0, <1>4, PendingKeeps, PendingTakes
<1>6. CASE i = 0
  <2>1. Keeps("GOT_MESSAGE")
    BY <1>1, <1>p, <1>6, KeepsAct
  <2>2. Pending("GOT_MESSAGE")' = Pending("GOT_MESSAGE")
    BY <2>1, PendingKeeps
  <2> QED BY <2>2, <1>0, <1>2, <1>3, <1>5, <1>6, CountTypes DEF OutstandingExact, Got
<1>7. CASE i # 0
  <2>1. i \in Workers
    BY <1>7 DEF Workers
  <2>2. PICK g : Adds1("GOT_MESSAGE", g)
    BY <1>1, <1>p, <2>1, AddsAct
  <2>3. Pending("GOT_MESSAGE")' = Pending("GOT_MESSAGE") + 1
    BY <2>2, <1>0, PendingAdds
  <2> QED BY <2>3, <1>0, <1>2, <1>3, <1>5, <1>7, CountTypes DEF OutstandingExact, Got
<1> QED BY <1>6, <1>7

\* A notice on its way becomes part of the counter.
LEMMA CountNotice ==
  ASSUME CountInv, NEW i \in Nodes, PopNotice(i)
  PROVE  OutstandingExact'
<1>0. SimpleTypes /\ OrderedNow /\ OutstandingExact
  BY DEF CountInv
<1>1. PICK type \in {"IN_WAITING_STATE", "GOT_MESSAGE", "SENT_MESSAGE"} :
        /\ Pop(i, type)
        /\ outstanding_messages' = outstanding_messages + (CASE type = "GOT_MESSAGE" -> -1
                                                             [] type = "SENT_MESSAGE" -> 1
                                                             [] OTHER -> 0)
  BY <1>0 DEF PopNotice, SimpleTypes
<1>2. stream' = stream /\ written' = written /\ pc' = pc
  BY DEF PopNotice
<1>3. Act(i, {}, "READ_ERROR") /\ Pulls(i, type)
  BY <1>0, <1>1, <1>2, SilentPop
<1>4. PICK m \in Net : m.msg_type = type /\ Net \ Net' = {m}
  BY <1>3 DEF Pulls
<1>5. Takes1(type, m)
  BY <1>3, <1>4, TakesOne
<1>6. \A t : t \in {"MESSAGE_HEADER", "SENT_MESSAGE", "GOT_MESSAGE"} /\ t # type => Keeps(t)
  BY <1>3, <1>4, KeepsAct
<1>7. Pending(type)' = Pending(type) - 1
  BY <1>0, <1>5, PendingTakes
<1>8. \A t : t \in {"MESSAGE_HEADER", "SENT_MESSAGE", "GOT_MESSAGE"} /\ t # type => Pending(t)' = Pending(t)
  BY <1>6, PendingKeeps
<1>9. Refused' = Refused
  BY <1>2 DEF Refused
<1>10. CASE type = "IN_WAITING_STATE"
  BY <1>0, <1>1, <1>8, <1>9, <1>10, CountTypes DEF OutstandingExact
<1>11. CASE type = "GOT_MESSAGE"
  BY <1>0, <1>1, <1>7, <1>8, <1>9, <1>11, CountTypes DEF OutstandingExact
<1>12. CASE type = "SENT_MESSAGE"
  BY <1>0, <1>1, <1>7, <1>8, <1>9, <1>12, CountTypes DEF OutstandingExact
<1> QED BY <1>10, <1>11, <1>12

\* Content that comes too late is not counted as received: its node counts instead.
LEMMA CountFatal ==
  ASSUME CountInv, NEW i \in Nodes, PopFatal(i)
  PROVE  OutstandingExact'
<1>0. SimpleTypes /\ OrderedNow /\ OutstandingExact
  BY DEF CountInv
<1>1. PICK T : /\ Act(i, T, "READ_ERROR")
               /\ \/ Pulls(i, "READ_ERROR") /\ pc' = [pc EXCEPT ![i] = "failed"]
                  \/ pc[i] = "closing" /\ Pulls(i, "MESSAGE_HEADER") /\ pc' = [pc EXCEPT ![i] = "refused"]
  BY <1>0, PopFatalAct
<1>2. /\ outstanding_messages' = outstanding_messages
      /\ pc[i] \in {"receive_data", "closing"} /\ \A j \in Nodes : j # i => pc'[j] = pc[j]
  BY <1>0, <1>1 DEF PopFatal, Pop, Goes, counters, SimpleTypes
<1>3. CASE Pulls(i, "READ_ERROR") /\ pc' = [pc EXCEPT ![i] = "failed"]
  <2>1. Refused' = Refused
    BY <1>0, <1>2, <1>3, RefusedSame DEF SimpleTypes
  <2>2. \A m \in Net \ Net' : m.msg_type = "READ_ERROR"
    BY <1>3 DEF Pulls
  <2> QED BY <2>1, <2>2, <1>0, <1>1, <1>2, CountKept
<1>4. CASE Pulls(i, "MESSAGE_HEADER") /\ pc' = [pc EXCEPT ![i] = "refused"]
  <2>1. PICK m \in Net : m.msg_type = "MESSAGE_HEADER" /\ Net \ Net' = {m}
    BY <1>4 DEF Pulls
  <2>2. Takes1("MESSAGE_HEADER", m) /\ Keeps("SENT_MESSAGE") /\ Keeps("GOT_MESSAGE")
    BY <2>1, <1>1, TakesOne, KeepsAct
  <2>3. Refused' = Refused \cup {i} /\ i \notin Refused
    BY <1>0, <1>2, <1>4 DEF Refused, SimpleTypes
  <2>4. Cardinality(Refused') = Cardinality(Refused) + 1
    BY <2>3, SetsType, FS_AddElement
  <2>5. /\ Pending("MESSAGE_HEADER")' = Pending("MESSAGE_HEADER") - 1
        /\ Pending("SENT_MESSAGE")' = Pending("SENT_MESSAGE")
        /\ Pending("GOT_MESSAGE")' = Pending("GOT_MESSAGE")
    BY <1>0, <2>2, PendingKeeps, PendingTakes
  <2> QED BY <2>4, <2>5, <1>0, <1>2, CountTypes DEF OutstandingExact
<1> QED BY <1>1, <1>3, <1>4

\* The types and the order of delivery, along any routes.
LEMMA OrderKept ==
  ASSUME SimpleTypes, OrderedNow, Next
  PROVE  SimpleTypes' /\ OrderedNow'
<1>1. OrderedNow'
  <2>1. ASSUME NEW l \in Links, read_thread(l) PROVE OrderedNow'
    BY <2>1, ReadAct
  <2>2. ASSUME NEW l \in Links, send_data(l) PROVE OrderedNow'
    <3>1. current_epoch[l[1]] \in Nat
      BY LinkFacts DEF SimpleTypes
    <3> QED BY <2>2, <3>1, SendAct DEF Sending
  <2>3. ASSUME NEW i \in Nodes, EnterReceive(i) \/ EnterClose(i) \/ Crash(i) \/ ReceiveAlone(i) \/ Close(i)
        PROVE  OrderedNow'
    BY <2>3, EnterReceiveAct, EnterCloseAct, CrashAct, ReceiveAloneAct, CloseAct DEF Act
  <2>4. CASE EndEpoch
    BY <2>4, EndEpochAct DEF Act
  <2>5. ASSUME NEW i \in Nodes, PopContent(i) \/ PopFatal(i) PROVE OrderedNow'
    BY <2>5, PopContentAct, PopFatalAct DEF Act
  <2>6. ASSUME NEW i \in Nodes, PopNotice(i) \/ PopTerminate(i) \/ PopSeeAll(i) PROVE OrderedNow'
    BY <2>6, SilentPop DEF Act, PopNotice, PopTerminate, PopSeeAll
  <2> QED BY <2>1, <2>2, <2>3, <2>4, <2>5, <2>6 DEF Next, Continue
<1>2. SimpleTypes'
  <2>0. 0 \in Nodes
    BY LinkFacts
  <2>1. ASSUME NEW l \in Links, read_thread(l) \/ send_data(l) PROVE SimpleTypes'
    BY <2>1 DEF read_thread, send_data, counters, SimpleTypes
  <2>2. ASSUME NEW i \in Nodes, EnterReceive(i) \/ EnterClose(i) \/ Crash(i) \/ ReceiveAlone(i) \/ Close(i)
        PROVE  SimpleTypes'
    BY <2>2 DEF EnterReceive, EnterClose, Crash, ReceiveAlone, Close, Goes, counters, SimpleTypes
  <2>3. CASE EndEpoch
    BY <2>0, <2>3 DEF EndEpoch, AfterEpoch, SimpleTypes
  <2>4. ASSUME NEW i \in Nodes, PopContent(i) \/ PopFatal(i) \/ PopSeeAll(i) PROVE SimpleTypes'
    BY <2>4 DEF PopContent, PopFatal, PopSeeAll, Goes, Got, counters, SimpleTypes
  <2>5. ASSUME NEW i \in Nodes, PopNotice(i) PROVE SimpleTypes'
    BY <2>5 DEF PopNotice, SimpleTypes
  <2>6. ASSUME NEW i \in Nodes, PopTerminate(i) PROVE SimpleTypes'
    <3>1. Head(msg_buffer[i]) \in Net
      BY <2>6, PopEffect DEF PopTerminate
    <3>2. Head(msg_buffer[i]).sender_id \in Nodes
      BY <3>1, NetFacts
    <3> QED BY <2>6, <3>2 DEF PopTerminate, counters, SimpleTypes
  <2> QED BY <2>1, <2>2, <2>3, <2>4, <2>5, <2>6 DEF Next, Continue
<1> QED BY <1>1, <1>2

LEMMA CountStep ==
  ASSUME CountInv, [Next]_vars
  PROVE  CountInv'
<1>0. SimpleTypes /\ OrderedNow /\ OutstandingExact
  BY DEF CountInv
<1>1. CASE Next
  <2>1. ASSUME NEW l \in Links, read_thread(l) PROVE OutstandingExact'
    <3>1. Net' = Net
      BY <2>1, <1>0, ReadAct
    <3>2. pc' = pc /\ outstanding_messages' = outstanding_messages
      BY <2>1 DEF read_thread, counters
    <3> QED BY <3>1, <3>2, <1>0 DEF OutstandingExact, Pending, Refused
  <2> QED BY <1>0, <1>1, <2>1, OrderKept, CountProgram, CountEpoch, CountTold, CountSend, CountReceive,
             CountNotice, CountFatal DEF Next, Continue, CountInv
<1>2. CASE UNCHANGED vars
  <2>1. /\ outstanding_messages' = outstanding_messages /\ num_waiting_nodes' = num_waiting_nodes
        /\ terminated' = terminated /\ current_epoch' = current_epoch /\ stream' = stream
        /\ msg_buffer' = msg_buffer /\ pc' = pc /\ sent' = sent /\ written' = written
    BY <1>2 DEF vars, counters
  <2>2. Net' = Net /\ OrderedNow'
    BY <2>1, <1>0 DEF Net, OrderedNow
  <2> QED BY <2>1, <2>2, <1>0 DEF CountInv, SimpleTypes, OutstandingExact, Pending, Refused
<1> QED BY <1>1, <1>2

\* outstanding_messages is exact but for the notices on their way and the
\* messages refused by nodes that had ended, along any routes and whoever dies
\* (bsp.cpp: notify_control_node, receive_data).  A barrier that opens too early
\* is therefore not a miscount: the notices are what comes too late.
THEOREM MessagesAreCounted == Spec => []OutstandingExact
<1>1. Init => CountInv
  BY InitIInv, BaseFacts DEF IInv, CountInv
<1>2. CountInv /\ [Next]_vars => CountInv'
  BY CountStep
<1>3. CountInv => OutstandingExact
  BY DEF CountInv
<1> QED BY <1>1, <1>2, <1>3, PTL DEF Spec

-----------------------------------------------------------------------------
(* The properties of Bsp in terms of Net *)

\* Way, OnTheWay and Told in terms of Net.
LEMMA WayNet ==
  ASSUME OrderedNow, NEW l \in Links
  PROVE  Way(l) = {m \in Net : m.sender_id = l[1] /\ m.receiver_id = l[2]}
<1> DEFINE s == stream[l]
           b == msg_buffer[l[2]]
<1>0. l[1] \in Nodes /\ l[2] \in Nodes /\ l = <<l[1], l[2]>>
  BY LinkFacts
<1>t. /\ stream \in [Links -> Seq(Messages)] /\ msg_buffer \in [Nodes -> Seq(Messages)]
      /\ \A k \in Links : \A x \in 1..Len(stream[k]) :
           stream[k][x].sender_id = k[1] /\ stream[k][x].receiver_id = k[2]
      /\ \A i \in Nodes : \A x \in 1..Len(msg_buffer[i]) : msg_buffer[i][x].receiver_id = i
  BY DEF OrderedNow, Ordered, Typed, StreamOf, BufferOf
<1>1. /\ s \in Seq(Messages) /\ b \in Seq(Messages)
      /\ DOMAIN s = 1..Len(s) /\ DOMAIN b = 1..Len(b)
  BY <1>0, <1>t
<1>2. ASSUME NEW m \in Way(l) PROVE m \in Net /\ m.sender_id = l[1] /\ m.receiver_id = l[2]
  <2>1. CASE \E x \in 1..Len(s) : s[x] = m
    BY <2>1, <1>1, <1>t DEF Net, Flow
  <2>2. CASE m.sender_id = l[1] /\ \E x \in 1..Len(b) : b[x] = m
    BY <2>2, <1>0, <1>1, <1>t DEF Net, Flow
  <2> QED BY <2>1, <2>2, <1>1 DEF Way, Entries
<1>3. ASSUME NEW m \in Net, m.sender_id = l[1], m.receiver_id = l[2] PROVE m \in Way(l)
  <2>1. \/ \E k \in Links : \E x \in 1..Len(stream[k]) : stream[k][x] = m
        \/ \E i \in Nodes : \E x \in 1..Len(msg_buffer[i]) : msg_buffer[i][x] = m
    BY DEF Net, Flow
  <2>2. ASSUME NEW k \in Links, NEW x \in 1..Len(stream[k]), stream[k][x] = m
        PROVE  m \in Way(l)
    <3>1. k[1] = l[1] /\ k[2] = l[2]
      BY <1>3, <2>2, <1>t
    <3>2. k = l
      BY <3>1, LinkFacts
    <3> QED BY <2>2, <3>2, <1>1 DEF Way, Entries
  <2>3. ASSUME NEW i \in Nodes, NEW x \in 1..Len(msg_buffer[i]), msg_buffer[i][x] = m
        PROVE  m \in Way(l)
    <3>1. i = l[2]
      BY <1>3, <2>3, <1>t
    <3> QED BY <2>3, <3>1, <1>1, <1>3 DEF Way, Entries
  <2> QED BY <2>1, <2>2, <2>3
<1> QED BY <1>2, <1>3

LEMMA OnTheWayNet ==
  ASSUME OrderedNow
  PROVE  \A type : OnTheWay(type) = Of(type, Net)
<1>1. UNION {Way(l) : l \in Links} = Net
  <2>1. ASSUME NEW l \in Links PROVE Way(l) \subseteq Net
    BY WayNet
  <2>2. ASSUME NEW m \in Net PROVE \E l \in Links : m \in Way(l)
    <3> DEFINE l == <<m.sender_id, m.receiver_id>>
    <3>1. l \in Links /\ l[1] = m.sender_id /\ l[2] = m.receiver_id
      BY NetFacts
    <3>2. m \in {x \in Net : x.sender_id = l[1] /\ x.receiver_id = l[2]}
      BY <3>1
    <3> HIDE DEF l
    <3>3. m \in Way(l)
      BY <3>1, <3>2, WayNet
    <3> QED BY <3>1, <3>3
  <2> QED BY <2>1, <2>2
<1> QED BY <1>1 DEF OnTheWay

LEMMA ToldNet ==
  ASSUME Base, NEW i \in Nodes
  PROVE  Told(i) <=> Released(i) /\ i # 0
<1>0. OrderedNow /\ NetOK /\ 0 \in Nodes
  BY BaseFacts, LinkFacts
<1>1. CASE i = 0
  BY <1>1 DEF Told
<1>2. CASE i # 0
  <2> DEFINE l == <<0, i>>
  <2>1. l \in Links /\ l[1] = 0 /\ l[2] = i
    BY <1>2, LinkFacts
  <2> HIDE DEF l
  <2>2. Way(l) = {m \in Net : m.sender_id = 0 /\ m.receiver_id = i}
    BY <1>0, <2>1, WayNet
  <2>3. Told(i) <=> \E m \in Net : m.sender_id = 0 /\ m.receiver_id = i /\ m.msg_type = "SEE_ALL_IN_WAITING_STATE"
    BY <1>2, <2>2 DEF Told, Of, l
  <2>4. \A m \in Net : m.msg_type = "SEE_ALL_IN_WAITING_STATE" => m.sender_id = 0
    BY <1>0 DEF NetOK
  <2> QED BY <1>2, <2>3, <2>4 DEF Released
<1> QED BY <1>1, <1>2

\* The properties follow from the invariant.
LEMMA BaseTypeOK ==
  ASSUME Base
  PROVE  TypeOK
  BY DEF Base, SimpleTypes, OrderedNow, Ordered, Typed, TypeOK

LEMMA IInvExact ==
  ASSUME IInv
  PROVE  CountersExact
<1>0. Base /\ OrderedNow /\ OutstandingExact /\ WaitingExact /\ SimpleTypes
  BY BaseFacts DEF IInv
<1>1. \A type : Cardinality(OnTheWay(type)) = Pending(type)
  BY <1>0, OnTheWayNet DEF Pending
<1>2. {i \in Workers : pc[i] = "receive_data" /\ ~Told(i)} = Waiting
  <2>1. \A i \in Workers : Told(i) <=> Released(i)
    BY <1>0, ToldNet, LinkFacts
  <2> QED BY <2>1 DEF Waiting
<1>3. ASSUME \A i \in Nodes : pc[i] \notin {"failed", "refused"}
      PROVE  /\ outstanding_messages + Pending("SENT_MESSAGE") - Pending("GOT_MESSAGE") = Pending("MESSAGE_HEADER")
             /\ num_waiting_nodes + Pending("IN_WAITING_STATE") - Pending("GOT_MESSAGE") = Cardinality(Waiting)
  <2>1. Cardinality(Refused) = 0
    <3>1. Refused = {}
      BY <1>3 DEF Refused
    <3> QED BY <3>1, FS_EmptySet
  <2>2. num_waiting_nodes + Pending("IN_WAITING_STATE") - Pending("GOT_MESSAGE") = Cardinality(Waiting)
    BY <1>0, <1>3 DEF WaitingExact
  <2>3. Pending("MESSAGE_HEADER") \in Nat
    BY <1>0, PendingType
  <2> QED BY <1>0, <2>1, <2>2, <2>3 DEF OutstandingExact
<1>4. TypeOK
  BY <1>0, BaseTypeOK
<1> QED BY <1>1, <1>2, <1>3, <1>4 DEF CountersExact

\* Until some node dies the control node's counters agree with the notices,
\* the messages and the nodes that wait, whatever the programs send along
\* direct routes (bsp.cpp: outstanding_messages, num_waiting_nodes).
THEOREM CountersStayExact == ASSUME DirectedRoutes PROVE Spec => []CountersExact
<1>1. Spec => []IInv
  BY Invariance
<1>2. IInv => CountersExact
  BY IInvExact
<1> QED BY <1>1, <1>2, PTL

\* When the control node ends an epoch no other program computes and no
\* message is on its way (bsp_abstract.h: what must have been true for receive
\* to return false).
THEOREM BarrierStaysQuiet == ASSUME DirectedRoutes PROVE Spec => BarrierIsQuiet
<1>1. Spec => []IInv
  BY Invariance
<1>2. ASSUME IInv, [Next]_vars
      PROVE  [current_epoch'[0] # current_epoch[0] =>
               /\ \A i \in Workers : State(i) # "computing"
               /\ OnTheWay("MESSAGE_HEADER") = {}]_vars
  <2>0. Base /\ SimpleTypes /\ OrderedNow /\ WaitingBound /\ OutstandingExact
    BY <1>2, BaseFacts DEF IInv
  <2>1. CASE EndEpoch
    <3>1. /\ \A x \in Net : x.msg_type # "MESSAGE_HEADER"
          /\ \A j \in Workers \ terminated[0] : pc[j] \in {"receive_data", "failed"}
      BY <2>0, <2>1, Quiet DEF EndEpoch
    <3>2. OnTheWay("MESSAGE_HEADER") = {}
      BY <2>0, <3>1, OnTheWayNet DEF Of
    <3>3. ASSUME NEW j \in Workers PROVE State(j) # "computing"
      <4>1. j \in terminated[0] => Over(j)
        BY <2>0, BaseFacts DEF Mine, TermsAt
      <4>2. pc[j] # "running"
        BY <3>1, <4>1 DEF Over
      <4> QED BY <4>2 DEF State
    <3> QED BY <3>2, <3>3
  <2>2. CASE \E i \in Nodes : PopSeeAll(i)
    <3>1. PICK i \in Nodes : PopSeeAll(i)
      BY <2>2
    <3>2. i # 0
      BY <3>1, <2>0, PopSeeAllBase, LinkFacts
    <3>3. current_epoch'[0] = current_epoch[0]
      BY <3>1, <3>2, <2>0, LinkFacts DEF PopSeeAll, SimpleTypes
    <3> QED BY <3>3
  <2>3. CASE ~EndEpoch /\ ~\E i \in Nodes : PopSeeAll(i)
    <3>1. current_epoch' = current_epoch
      BY <1>2, <2>3 DEF Next, Continue, read_thread, send_data, EnterReceive, EnterClose, Crash, ReceiveAlone,
         PopContent, PopNotice, PopTerminate, PopFatal, Close, vars
    <3> QED BY <3>1
  <2> QED BY <2>1, <2>2, <2>3
<1> QED BY <1>1, <1>2, PTL DEF Spec, BarrierIsQuiet

-----------------------------------------------------------------------------
(* The refinement *)

\* The state of node i and the transit of link l, in terms of Net.
StatesOK == Base => \A i \in Nodes :
  /\ pc[i] = "running" => State(i) = "computing" /\ ~Released(i)
  /\ pc[i] = "receive_data" /\ Released(i) => State(i) = "released"
  /\ pc[i] = "receive_data" /\ ~Released(i) => State(i) = "waiting"
  /\ Over(i) => State(i) = "done"
  /\ ~Released(0)
  /\ pc[i] \in {"running", "receive_data"} \/ Over(i)

\* It holds of this state and of the next.
LEMMA StateNet == StatesOK
<1> SUFFICES ASSUME Base, NEW i \in Nodes
             PROVE  /\ pc[i] = "running" => State(i) = "computing" /\ ~Released(i)
                    /\ pc[i] = "receive_data" /\ Released(i) => State(i) = "released"
                    /\ pc[i] = "receive_data" /\ ~Released(i) => State(i) = "waiting"
                    /\ Over(i) => State(i) = "done"
                    /\ ~Released(0)
                    /\ pc[i] \in {"running", "receive_data"} \/ Over(i)
  BY DEF StatesOK
<1>0. OrderedNow /\ NetOK /\ SimpleTypes
  BY BaseFacts
<1>1. ~Released(0)
  <2> SUFFICES ASSUME NEW m \in Net, m.msg_type = "SEE_ALL_IN_WAITING_STATE", m.receiver_id = 0 PROVE FALSE
    BY DEF Released
  <2> QED BY <1>0, NetFacts DEF NetOK
<1>2. Told(i) <=> Released(i)
  BY <1>1, ToldNet
<1>3. pc[i] = "running" => ~Released(i)
  <2>1. i \in Workers => ToldsAt(i)
    BY BaseFacts DEF Mine
  <2> QED BY <1>1, <2>1 DEF ToldsAt, Workers
<1>4. pc[i] \in {"running", "receive_data"} \/ Over(i)
  BY <1>0 DEF SimpleTypes, Over
<1> QED BY <1>1, <1>2, <1>3, <1>4 DEF State, Over

LEMMA StateNetNext == StatesOK'
  BY StateNet, PTL

\* The same fact of this state and of the next.
WaysOK == OrderedNow => \A l \in Links :
  /\ Way(l) = {m \in Net : m.sender_id = l[1] /\ m.receiver_id = l[2]}
  /\ \A m \in Net : m.msg_type = "MESSAGE_HEADER" /\ m.sender_id = l[1] /\ m.receiver_id = l[2]
       => m.num \in Transit(l)
  /\ \A n \in Transit(l) : \E m \in Net :
       /\ m.msg_type = "MESSAGE_HEADER" /\ m.sender_id = l[1] /\ m.receiver_id = l[2] /\ m.num = n

\* That, too, holds of this state and of the next.
LEMMA TransitNet == WaysOK
<1>1. ASSUME OrderedNow, NEW l \in Links
      PROVE  Way(l) = {m \in Net : m.sender_id = l[1] /\ m.receiver_id = l[2]}
  BY <1>1, WayNet
<1> QED BY <1>1 DEF WaysOK, Transit, Of

LEMMA TransitNetNext == WaysOK'
  BY TransitNet, PTL

\* The contents on their way stay the same.
Carries == \A m : m.msg_type = "MESSAGE_HEADER" => (m \in Net <=> m \in Net')
\* So do the nodes that are told.
Tells == \A i : Released(i)' <=> Released(i)

\* When the contents on their way stay, so does the transit of every link.
LEMMA TransitSame ==
  ASSUME OrderedNow, OrderedNow', Carries
  PROVE  \A l \in Links : Transit(l)' = Transit(l)
<1> TAKE l \in Links
<1>1. Transit(l) = {m.num : m \in {x \in Net : x.msg_type = "MESSAGE_HEADER" /\ x.sender_id = l[1] /\ x.receiver_id = l[2]}}
  <2>1. Way(l) = {m \in Net : m.sender_id = l[1] /\ m.receiver_id = l[2]}
    BY WayNet
  <2> QED BY <2>1 DEF Transit, Of
<1>2. Transit(l)' = {m.num : m \in {x \in Net' : x.msg_type = "MESSAGE_HEADER" /\ x.sender_id = l[1] /\ x.receiver_id = l[2]}}
  <2>1. Way(l)' = {m \in Net' : m.sender_id = l[1] /\ m.receiver_id = l[2]}
    BY TransitNetNext DEF WaysOK
  <2> QED BY <2>1 DEF Transit, Of
<1>3. {x \in Net : x.msg_type = "MESSAGE_HEADER" /\ x.sender_id = l[1] /\ x.receiver_id = l[2]}
      = {x \in Net' : x.msg_type = "MESSAGE_HEADER" /\ x.sender_id = l[1] /\ x.receiver_id = l[2]}
  BY DEF Carries
<1> QED BY <1>1, <1>2, <1>3

\* Content m leaves its link, of which it is the oldest.
LEMMA TransitTakes ==
  ASSUME Base, Base', NEW i \in Nodes, NEW m, Popped(m, i), m.msg_type = "MESSAGE_HEADER",
         \A x : x.msg_type = "MESSAGE_HEADER" => (x \in Net' <=> x \in Net /\ x # m)
  PROVE  \E l \in Links : /\ l[2] = i /\ m.num \in Transit(l)
                          /\ \A n \in Transit(l) : m.num <= n
                          /\ \A k \in Links : Transit(k)' = IF k = l THEN Transit(l) \ {m.num} ELSE Transit(k)
<1>0. OrderedNow /\ OrderedNow' /\ NetOK /\ m \in Net /\ m.receiver_id = i
  BY BaseFacts DEF Popped, Base
<1> DEFINE l == <<m.sender_id, i>>
<1>1. l \in Links /\ l[1] = m.sender_id /\ l[2] = i
  BY <1>0, NetFacts
<1> HIDE DEF l
<1>2. m.num \in Transit(l)
  BY <1>0, <1>1, TransitNet DEF WaysOK
<1>3. ASSUME NEW n \in Transit(l) PROVE m.num <= n
  <2>1. PICK x \in Net : /\ x.msg_type = "MESSAGE_HEADER" /\ x.sender_id = l[1] /\ x.receiver_id = l[2] /\ x.num = n
    BY <1>0, <1>1, TransitNet DEF WaysOK
  <2>2. x.num < m.num => x.epoch > m.epoch
    BY <1>1, <2>1 DEF Popped
  <2>3. x.epoch = m.epoch /\ m.epoch \in Nat
    BY <1>0, <2>1, NetFacts DEF NetOK
  <2>4. x.num \in Nat /\ m.num \in Nat
    BY <1>0, <2>1, NetFacts
  <2> QED BY <2>1, <2>2, <2>3, <2>4
<1>4. ASSUME NEW k \in Links PROVE Transit(k)' = IF k = l THEN Transit(l) \ {m.num} ELSE Transit(k)
  <2>1. \A n \in Transit(k)' : n \in Transit(k) /\ (k = l => n # m.num)
    <3> TAKE n \in Transit(k)'
    <3>1. PICK x \in Net' : /\ x.msg_type = "MESSAGE_HEADER" /\ x.sender_id = k[1] /\ x.receiver_id = k[2] /\ x.num = n
      BY <1>0, TransitNetNext DEF WaysOK
    <3>2. x \in Net /\ x # m
      BY <3>1
    <3>3. n \in Transit(k)
      BY <1>0, <3>1, <3>2, TransitNet DEF WaysOK
    <3>4. k = l => n # m.num
      BY <1>0, <1>1, <3>1, <3>2, NetFacts
    <3> QED BY <3>3, <3>4
  <2>2. \A n \in Transit(k) : k # l \/ n # m.num => n \in Transit(k)'
    <3> TAKE n \in Transit(k)
    <3> HAVE k # l \/ n # m.num
    <3>1. PICK x \in Net : /\ x.msg_type = "MESSAGE_HEADER" /\ x.sender_id = k[1] /\ x.receiver_id = k[2] /\ x.num = n
      BY <1>0, TransitNet DEF WaysOK
    <3>2. x # m
      <4> SUFFICES ASSUME x = m PROVE FALSE
        OBVIOUS
      <4>1. k[1] = l[1] /\ k[2] = l[2] /\ n = m.num
        BY <1>0, <1>1, <3>1
      <4>2. k = l
        BY <1>1, <4>1, LinkFacts
      <4> QED BY <4>1, <4>2
    <3>3. x \in Net'
      BY <3>1, <3>2
    <3> QED BY <1>0, <3>1, <3>3, TransitNetNext DEF WaysOK
  <2> QED BY <2>1, <2>2
<1> QED BY <1>1, <1>2, <1>3, <1>4

\* What an action that writes control messages leaves.
LEMMA CarriesAct ==
  ASSUME NEW i \in Nodes, NEW T, NEW type \in Types \ {"MESSAGE_HEADER"}, Act(i, T, type),
         \A m \in Net \ Net' : m.msg_type # "MESSAGE_HEADER"
  PROVE  Carries
<1>1. Adds(i, T, type)
  BY ActFacts
<1> QED BY <1>1 DEF Adds, Carries

LEMMA TellsAct ==
  ASSUME NEW i \in Nodes, NEW T, NEW type \in Types \ {"SEE_ALL_IN_WAITING_STATE"}, Act(i, T, type),
         \A m \in Net \ Net' : m.msg_type # "SEE_ALL_IN_WAITING_STATE"
  PROVE  Tells
<1>1. Adds(i, T, type)
  BY ActFacts
<1>2. \A m : m.msg_type = "SEE_ALL_IN_WAITING_STATE" => (m \in Net <=> m \in Net')
  BY <1>1 DEF Adds
<1> QED BY <1>2 DEF Released, Tells

\* The steps of Supersteps, in terms of Bsp's states and messages.
Stays == \A l \in Links : Transit(l)' = Transit(l)
Turns(i, v) == \A j \in Nodes : State(j)' = IF j = i THEN v ELSE State(j)
Same == \A j \in Nodes : State(j)' = State(j)
Loses(l) == \E n \in Transit(l) :
  /\ \A m \in Transit(l) : n <= m
  /\ \A k \in Links : Transit(k)' = IF k = l THEN Transit(l) \ {n} ELSE Transit(k)

\* The state of Supersteps.
AState == [i \in Nodes |-> State(i)]
ATransit == [l \in Links |-> Transit(l)]

\* Steps of Supersteps, in terms of the mapped variables.
LEMMA MapStays == ASSUME Stays PROVE ATransit' = ATransit
<1>1. \A l \in Links : Transit(l)' = Transit(l)
  BY DEF Stays
<1> QED BY <1>1 DEF ATransit

LEMMA MapSame == ASSUME Same PROVE AState' = AState
<1>1. \A j \in Nodes : State(j)' = State(j)
  BY DEF Same
<1> QED BY <1>1 DEF AState

LEMMA MapTurns ==
  ASSUME NEW i \in Nodes, NEW v, Turns(i, v)
  PROVE  AState' = [AState EXCEPT ![i] = v]
<1>1. \A j \in Nodes : State(j)' = IF j = i THEN v ELSE State(j)
  BY DEF Turns
<1> QED BY <1>1 DEF AState

LEMMA MapLoses ==
  ASSUME NEW l \in Links, Loses(l)
  PROVE  \E n \in ATransit[l] : /\ \A m \in ATransit[l] : n <= m
                                /\ ATransit' = [ATransit EXCEPT ![l] = ATransit[l] \ {n}]
<1>1. PICK n \in Transit(l) : /\ \A m \in Transit(l) : n <= m
                              /\ \A k \in Links : Transit(k)' = IF k = l THEN Transit(l) \ {n} ELSE Transit(k)
  BY DEF Loses
<1>2. ATransit[l] = Transit(l)
  BY DEF ATransit
<1>3. ATransit' = [ATransit EXCEPT ![l] = ATransit[l] \ {n}]
  BY <1>1, <1>2 DEF ATransit
<1> QED BY <1>1, <1>2, <1>3

\* Each of the steps of Supersteps, recognised.
LEMMA ThatIsStutter ==
  ASSUME Same, Stays
  PROVE  [Abstract!Next]_<<AState, ATransit>>
  BY MapSame, MapStays

LEMMA ThatIsWait ==
  ASSUME NEW i \in Nodes, State(i) = "computing", Turns(i, "waiting"), Stays
  PROVE  Abstract!Next
<1>1. AState' = [AState EXCEPT ![i] = "waiting"] /\ ATransit' = ATransit /\ AState[i] = "computing"
  BY MapTurns, MapStays DEF AState
<1>2. Abstract!Wait(i)
  BY <1>1 DEF Abstract!Wait, Abstract!Becomes, AState, ATransit
<1> QED BY <1>2 DEF Abstract!Next

LEMMA ThatIsNotice ==
  ASSUME NEW i \in Nodes, State(i) = "released", Turns(i, "computing"), Stays
  PROVE  Abstract!Next
<1>1. AState' = [AState EXCEPT ![i] = "computing"] /\ ATransit' = ATransit /\ AState[i] = "released"
  BY MapTurns, MapStays DEF AState
<1>2. Abstract!Notice(i)
  BY <1>1 DEF Abstract!Notice, Abstract!Becomes, AState, ATransit
<1> QED BY <1>2 DEF Abstract!Next

LEMMA ThatIsEnd ==
  ASSUME NEW i \in Nodes, Turns(i, "done"), Stays
  PROVE  Abstract!Next
<1>1. AState' = [AState EXCEPT ![i] = "done"] /\ ATransit' = ATransit
  BY MapTurns, MapStays
<1>2. Abstract!End(i)
  BY <1>1 DEF Abstract!End, Abstract!Becomes, AState, ATransit
<1> QED BY <1>2 DEF Abstract!Next

LEMMA ThatIsLeftAlone ==
  ASSUME NEW i \in Nodes, State(i) = "waiting",
         \A j \in Nodes \ {i} : State(j) = "done" /\ Transit(<<j, i>>) = {},
         Turns(i, "computing"), Stays
  PROVE  Abstract!Next
<1>1. AState' = [AState EXCEPT ![i] = "computing"] /\ ATransit' = ATransit /\ AState[i] = "waiting"
  BY MapTurns, MapStays DEF AState
<1>2. \A j \in Nodes \ {i} : AState[j] = "done" /\ ATransit[<<j, i>>] = {}
  BY LinkFacts DEF AState, ATransit
<1>3. Abstract!LeftAlone(i)
  BY <1>1, <1>2 DEF Abstract!LeftAlone, Abstract!Becomes, AState, ATransit
<1> QED BY <1>3 DEF Abstract!Next

LEMMA ThatIsSend ==
  ASSUME NEW l \in Links, State(l[1]) = "computing", Same, NEW n,
         \A m \in Transit(l) : m < n,
         \A k \in Links : Transit(k)' = IF k = l THEN Transit(l) \cup {n} ELSE Transit(k)
  PROVE  Abstract!Next
<1>1. AState' = AState /\ AState[l[1]] = "computing"
  BY MapSame, LinkFacts DEF AState
<1>2. ATransit' = [ATransit EXCEPT ![l] = ATransit[l] \cup {n}] /\ ATransit[l] = Transit(l) /\ n \in ATransit'[l]
  BY DEF ATransit
<1>3. Abstract!Send(l)
  BY <1>1, <1>2 DEF Abstract!Send, AState, ATransit
<1> QED BY <1>3 DEF Abstract!Next, Abstract!Links, Links

LEMMA ThatIsReceive ==
  ASSUME NEW l \in Links, State(l[2]) = "waiting", Turns(l[2], "computing"), Loses(l)
  PROVE  Abstract!Next
<1>1. AState' = [AState EXCEPT ![l[2]] = "computing"] /\ AState[l[2]] = "waiting"
  BY MapTurns, LinkFacts DEF AState
<1>2. \E n \in ATransit[l] : /\ \A m \in ATransit[l] : n <= m
                             /\ ATransit' = [ATransit EXCEPT ![l] = ATransit[l] \ {n}]
  BY MapLoses
<1>3. Abstract!Receive(l)
  BY <1>1, <1>2 DEF Abstract!Receive, Abstract!Takes, Abstract!Becomes, AState, ATransit
<1> QED BY <1>3 DEF Abstract!Next, Abstract!Links, Links

LEMMA ThatIsLose ==
  ASSUME NEW l \in Links, State(l[2]) = "done", Same, Loses(l)
  PROVE  Abstract!Next
<1>1. AState' = AState /\ AState[l[2]] = "done"
  BY MapSame, LinkFacts DEF AState
<1>2. \E n \in ATransit[l] : /\ \A m \in ATransit[l] : n <= m
                             /\ ATransit' = [ATransit EXCEPT ![l] = ATransit[l] \ {n}]
  BY MapLoses
<1>3. Abstract!Lose(l)
  BY <1>1, <1>2 DEF Abstract!Lose, Abstract!Takes, AState, ATransit
<1> QED BY <1>3 DEF Abstract!Next, Abstract!Links, Links

LEMMA ThatIsRelease ==
  ASSUME \A i \in Nodes : State(i) \in {"waiting", "done"},
         \A l \in Links : Transit(l) = {}, Stays,
         \A i \in Nodes : /\ State(i)' \in {"computing", "released", "done"}
                          /\ State(i) = "done" <=> State(i)' = "done"
  PROVE  Abstract!Next
<1>1. ATransit' = ATransit /\ \A l \in Links : ATransit[l] = {}
  BY MapStays DEF ATransit
<1>2. \A i \in Nodes : AState[i] \in {"waiting", "done"} /\ (AState[i] = "done" <=> AState'[i] = "done")
  BY DEF AState
<1>3. AState' \in [Nodes -> {"computing", "released", "done"}]
  BY DEF AState
<1>4. Abstract!Release
  BY <1>1, <1>2, <1>3 DEF Abstract!Release, Abstract!Links, Links, AState, ATransit
<1> QED BY <1>4 DEF Abstract!Next

\* Every step of Bsp, taken where the invariant holds.
Now == Base /\ Base'

\* Who neither waits before nor after an action of another node stays as it is.
LEMMA OthersStay ==
  ASSUME Now, Tells, NEW i \in Nodes, \A j \in Nodes : j # i => pc'[j] = pc[j]
  PROVE  \A j \in Nodes : j # i => State(j)' = State(j)
<1> TAKE j \in Nodes
<1> HAVE j # i
<1>1. pc'[j] = pc[j] /\ (Released(j)' <=> Released(j)) /\ (Over(j)' <=> Over(j))
  BY DEF Tells, Over
<1> QED BY <1>1, StateNet, StateNetNext DEF StatesOK, Now

\* Each action of Bsp is a step of Supersteps, or none.
LEMMA ReadMaps ==
  ASSUME Now, NEW l \in Links, read_thread(l)
  PROVE  Same /\ Stays
<1>1. Net' = Net /\ OrderedNow /\ OrderedNow'
  BY ReadAct, BaseFacts DEF Now
<1>2. pc' = pc
  BY DEF read_thread
<1>3. Carries /\ Tells
  BY <1>1 DEF Carries, Tells, Released
<1>4. Stays
  BY <1>1, <1>3, TransitSame DEF Stays
<1>5. ASSUME NEW j \in Nodes PROVE State(j)' = State(j)
  <2>1. Over(j)' <=> Over(j)
    BY <1>2 DEF Over
  <2> QED BY <1>2, <1>3, <2>1, StateNet, StateNetNext DEF StatesOK, Now, Tells
<1> QED BY <1>4, <1>5 DEF Same

\* A node turns from one place of its program to another.
LEMMA NodeMaps ==
  ASSUME Now, NEW i \in Nodes, NEW T, NEW type \in Types \ {"MESSAGE_HEADER", "SEE_ALL_IN_WAITING_STATE"},
         Act(i, T, type), \A j \in Nodes : j # i => pc'[j] = pc[j],
         \A m \in Net \ Net' : m.msg_type \notin {"MESSAGE_HEADER", "SEE_ALL_IN_WAITING_STATE"}
  PROVE  /\ Stays /\ Tells
         /\ \A j \in Nodes : j # i => State(j)' = State(j)
         /\ \A v : State(i)' = v => Turns(i, v)
         /\ State(i)' = State(i) => Same
<1>1. Carries
  BY CarriesAct
<1>2. Tells
  BY TellsAct
<1>3. Stays
  BY <1>1, TransitSame, ActFacts DEF Stays
<1>4. \A j \in Nodes : j # i => State(j)' = State(j)
  BY <1>2, OthersStay
<1>5. \A v : State(i)' = v => Turns(i, v)
  BY <1>4 DEF Turns
<1>6. State(i)' = State(i) => Same
  BY <1>4 DEF Same
<1> QED BY <1>2, <1>3, <1>4, <1>5, <1>6

LEMMA EnterReceiveMaps ==
  ASSUME Now, NEW i \in Nodes, EnterReceive(i)
  PROVE  Abstract!Next
<1>0. OrderedNow /\ SimpleTypes
  BY BaseFacts DEF Now
<1>1. Act(i, {0}, "IN_WAITING_STATE") /\ Net \subseteq Net'
  BY <1>0, EnterReceiveAct
<1>2. pc[i] = "running" /\ pc' = [pc EXCEPT ![i] = "receive_data"]
  BY DEF EnterReceive, Goes
<1>3. pc'[i] = "receive_data" /\ \A j \in Nodes : j # i => pc'[j] = pc[j]
  BY <1>0, <1>2 DEF SimpleTypes
<1>4. Stays /\ Tells /\ \A v : State(i)' = v => Turns(i, v)
  BY <1>1, <1>3, NodeMaps, TypeFacts
<1>5. State(i) = "computing" /\ ~Released(i)
  BY <1>2, StateNet DEF StatesOK, Now
<1>6. State(i)' = "waiting"
  <2>1. ~Released(i)'
    BY <1>4, <1>5 DEF Tells
  <2> QED BY <1>3, <2>1, StateNetNext DEF StatesOK, Now
<1> QED BY <1>4, <1>5, <1>6, ThatIsWait

LEMMA EndMaps ==
  ASSUME Now, NEW i \in Nodes, EnterClose(i) \/ Crash(i)
  PROVE  Abstract!Next
<1>0. OrderedNow /\ SimpleTypes
  BY BaseFacts DEF Now
<1> DEFINE C == IF i = 0 THEN {} ELSE Nodes
<1>1. \/ Act(i, C, "NODE_TERMINATE") /\ Net \subseteq Net'
      \/ Act(i, Nodes, "READ_ERROR") /\ Net \subseteq Net'
  BY <1>0, EnterCloseAct, CrashAct
<1> HIDE DEF C
<1>2. pc' = [pc EXCEPT ![i] = "closing"] \/ pc' = [pc EXCEPT ![i] = "failed"]
  BY DEF EnterClose, Crash, Goes
<1>3. pc'[i] \in {"closing", "failed"} /\ \A j \in Nodes : j # i => pc'[j] = pc[j]
  BY <1>0, <1>2 DEF SimpleTypes
<1>4. Stays /\ \A v : State(i)' = v => Turns(i, v)
  BY <1>1, <1>3, NodeMaps, TypeFacts
<1>5. State(i)' = "done"
  BY <1>3, StateNetNext DEF StatesOK, Now, Over
<1> QED BY <1>4, <1>5, ThatIsEnd

LEMMA ReceiveAloneMaps ==
  ASSUME Now, NEW i \in Nodes, ReceiveAlone(i)
  PROVE  Abstract!Next
<1>0. OrderedNow /\ SimpleTypes /\ i = 0 /\ 0 \in Nodes /\ NetOK
  BY BaseFacts, ReceiveAloneBase, LinkFacts DEF Now
<1>1. Act(i, {}, "READ_ERROR") /\ Net' = Net
  BY <1>0, ReceiveAloneAct
<1>2. /\ pc[i] = "receive_data" /\ pc' = [pc EXCEPT ![i] = "running"]
      /\ terminated[i] = Nodes \ {i} /\ msg_buffer[i] = <<>>
  BY DEF ReceiveAlone, Goes, Abandoned, AllTerminated
<1>3. pc'[i] = "running" /\ \A j \in Nodes : j # i => pc'[j] = pc[j]
  BY <1>0, <1>2 DEF SimpleTypes
<1>4. Stays /\ \A v : State(i)' = v => Turns(i, v)
  BY <1>1, <1>3, NodeMaps, TypeFacts
<1>5. State(i) = "waiting"
  BY <1>0, <1>2, StateNet DEF StatesOK, Now
<1>6. State(i)' = "computing"
  BY <1>3, StateNetNext DEF StatesOK, Now
<1>7. ASSUME NEW j \in Nodes \ {i} PROVE State(j) = "done" /\ Transit(<<j, i>>) = {}
  <2>1. j \in Workers /\ j \in terminated[0]
    BY <1>0, <1>2 DEF Workers
  <2>2. Over(j) /\ stream[<<j, 0>>] = <<>>
    BY <2>1, BaseFacts DEF Now, Mine, TermsAt
  <2>3. Way(<<j, i>>) = {}
    BY <1>0, <1>2, <2>2 DEF Way, Entries
  <2>4. Transit(<<j, i>>) = {}
    BY <2>3 DEF Transit, Of
  <2> QED BY <2>2, <2>4, StateNet DEF StatesOK, Now
<1> QED BY <1>4, <1>5, <1>6, <1>7, ThatIsLeftAlone

LEMMA CloseMaps ==
  ASSUME Now, NEW i \in Nodes, Close(i)
  PROVE  Same /\ Stays
<1>0. OrderedNow /\ SimpleTypes
  BY BaseFacts DEF Now
<1> DEFINE T == IF i # 0 THEN {} ELSE Nodes
<1>1. Act(i, T, "NODE_TERMINATE") /\ Net \subseteq Net'
  BY <1>0, CloseAct
<1> HIDE DEF T
<1>2. pc[i] = "closing" /\ (pc' = [pc EXCEPT ![i] = "closed"] \/ pc' = [pc EXCEPT ![i] = "failed"])
  BY DEF Close, Goes
<1>3. pc'[i] \in {"closed", "failed"} /\ \A j \in Nodes : j # i => pc'[j] = pc[j]
  BY <1>0, <1>2 DEF SimpleTypes
<1>4. Stays /\ (State(i)' = State(i) => Same)
  BY <1>1, <1>3, NodeMaps, TypeFacts
<1>5. State(i)' = "done" /\ State(i) = "done"
  BY <1>2, <1>3, StateNet, StateNetNext DEF StatesOK, Now, Over
<1> QED BY <1>4, <1>5

LEMMA PopNoticeMaps ==
  ASSUME Now, NEW i \in Nodes, PopNotice(i)
  PROVE  Same /\ Stays
<1>1. /\ i = 0 /\ Act(0, {}, "READ_ERROR") /\ pc' = pc
      /\ \E m \in Net : Net' = Net \ {m} /\ IsNotice(m, m.sender_id)
  BY NoticeFacts DEF Now
<1>2. \A m \in Net \ Net' : m.msg_type \notin {"MESSAGE_HEADER", "SEE_ALL_IN_WAITING_STATE"}
  BY <1>1 DEF IsNotice, Notices
<1>3. Stays /\ Tells /\ (State(i)' = State(i) => Same)
  BY <1>1, <1>2, NodeMaps, TypeFacts
<1>4. State(i)' = State(i)
  <2>1. (Released(i)' <=> Released(i)) /\ (Over(i)' <=> Over(i))
    BY <1>1, <1>3 DEF Tells, Over
  <2> QED BY <1>1, <2>1, StateNet, StateNetNext DEF StatesOK, Now
<1> QED BY <1>3, <1>4

LEMMA PopTerminateMaps ==
  ASSUME Now, NEW i \in Nodes, PopTerminate(i)
  PROVE  Same /\ Stays
<1>0. OrderedNow
  BY BaseFacts DEF Now
<1>1. Act(i, {}, "READ_ERROR") /\ Pulls(i, "NODE_TERMINATE") /\ pc' = pc
  <2>1. Pop(i, "NODE_TERMINATE") /\ stream' = stream /\ written' = written /\ pc' = pc
    BY DEF PopTerminate
  <2> QED BY <1>0, <2>1, SilentPop
<1>2. \A m \in Net \ Net' : m.msg_type \notin {"MESSAGE_HEADER", "SEE_ALL_IN_WAITING_STATE"}
  BY <1>1 DEF Pulls
<1>3. Stays /\ Tells /\ (State(i)' = State(i) => Same)
  BY <1>1, <1>2, NodeMaps, TypeFacts
<1>4. State(i)' = State(i)
  <2>1. (Released(i)' <=> Released(i)) /\ (Over(i)' <=> Over(i))
    BY <1>1, <1>3 DEF Tells, Over
  <2>2. pc'[i] = pc[i]
    BY <1>1
  <2> QED BY <2>1, <2>2, StateNet, StateNetNext DEF StatesOK, Now
<1> QED BY <1>3, <1>4

\* Content that a node takes leaves its link.
LEMMA PullMaps ==
  ASSUME Now, NEW i \in Nodes, NEW T, NEW type \in Types \ {"MESSAGE_HEADER", "SEE_ALL_IN_WAITING_STATE"},
         Act(i, T, type), Pulls(i, "MESSAGE_HEADER"), \A j \in Nodes : j # i => pc'[j] = pc[j]
  PROVE  /\ Tells
         /\ \A v : State(i)' = v => Turns(i, v)
         /\ State(i)' = State(i) => Same
         /\ \E l \in Links : l[2] = i /\ Loses(l)
<1>0. Adds(i, T, type)
  BY ActFacts
<1>1. PICK m \in Net : Popped(m, i) /\ m.msg_type = "MESSAGE_HEADER" /\ Net \ Net' = {m}
  BY DEF Pulls
<1>2. Tells
  BY <1>1, TellsAct
<1>3. \A j \in Nodes : j # i => State(j)' = State(j)
  BY <1>2, OthersStay
<1>4. \A x : x.msg_type = "MESSAGE_HEADER" => (x \in Net' <=> x \in Net /\ x # m)
  BY <1>0, <1>1 DEF Adds
<1>5. PICK l \in Links : /\ l[2] = i /\ m.num \in Transit(l)
                         /\ \A n \in Transit(l) : m.num <= n
                         /\ \A k \in Links : Transit(k)' = IF k = l THEN Transit(l) \ {m.num} ELSE Transit(k)
  BY <1>1, <1>4, TransitTakes DEF Now
<1>6. l[2] = i /\ Loses(l)
  BY <1>5 DEF Loses
<1>7. \A v : State(i)' = v => Turns(i, v)
  BY <1>3 DEF Turns
<1>8. State(i)' = State(i) => Same
  BY <1>3 DEF Same
<1> QED BY <1>2, <1>6, <1>7, <1>8

LEMMA PopContentMaps ==
  ASSUME Now, NEW i \in Nodes, PopContent(i)
  PROVE  Abstract!Next
<1>0. OrderedNow /\ SimpleTypes /\ NetOK
  BY BaseFacts DEF Now
<1>1. Act(i, {0}, "GOT_MESSAGE") /\ Pulls(i, "MESSAGE_HEADER")
  BY <1>0, PopContentAct
<1>2. pc[i] = "receive_data" /\ pc' = [pc EXCEPT ![i] = "running"] /\ Within(i, Head(msg_buffer[i]))
  BY DEF PopContent, Pop, Goes
<1>3. pc'[i] = "running" /\ \A j \in Nodes : j # i => pc'[j] = pc[j]
  BY <1>0, <1>2 DEF SimpleTypes
<1>4. /\ Tells /\ \A v : State(i)' = v => Turns(i, v)
      /\ \E l \in Links : l[2] = i /\ Loses(l)
  BY <1>1, <1>3, PullMaps, TypeFacts
<1>5. ~Released(i)
  <2>1. CASE i = 0
    BY <2>1, StateNet DEF StatesOK, Now
  <2>2. CASE i # 0
    <3>1. PICK m \in Net : m = Head(msg_buffer[i]) /\ m.msg_type = "MESSAGE_HEADER"
      BY <1>1 DEF Pulls
    <3>2. m.epoch = current_epoch[0] /\ m.epoch <= current_epoch[i]
      BY <1>0, <1>2, <3>1 DEF NetOK, Within
    <3>3. ToldsAt(i)
      BY <2>2, BaseFacts DEF Now, Mine, Workers
    <3>4. current_epoch[0] = current_epoch[i] + IF Released(i) THEN 1 ELSE 0
      BY <1>2, <3>3 DEF ToldsAt
    <3>5. current_epoch[0] \in Nat /\ current_epoch[i] \in Nat
      BY <1>0, LinkFacts DEF SimpleTypes
    <3> QED BY <3>2, <3>4, <3>5
  <2> QED BY <2>1, <2>2
<1>6. State(i) = "waiting"
  BY <1>2, <1>5, StateNet DEF StatesOK, Now
<1>7. State(i)' = "computing"
  BY <1>3, StateNetNext DEF StatesOK, Now
<1> QED BY <1>4, <1>6, <1>7, ThatIsReceive

LEMMA PopFatalMaps ==
  ASSUME Now, NEW i \in Nodes, PopFatal(i)
  PROVE  Abstract!Next
<1>0. OrderedNow /\ SimpleTypes /\ NetOK
  BY BaseFacts DEF Now
<1> DEFINE T == IF i # 0 /\ pc[i] = "closing" THEN {} ELSE Nodes
<1>1. /\ Act(i, T, "READ_ERROR")
      /\ \/ Pulls(i, "READ_ERROR") /\ pc' = [pc EXCEPT ![i] = "failed"]
         \/ pc[i] = "closing" /\ Pulls(i, "MESSAGE_HEADER") /\ pc' = [pc EXCEPT ![i] = "refused"]
  BY <1>0, PopFatalAct
<1> HIDE DEF T
<1>2. pc'[i] \in {"failed", "refused"} /\ \A j \in Nodes : j # i => pc'[j] = pc[j]
  BY <1>0, <1>1 DEF SimpleTypes
<1>3. State(i)' = "done"
  BY <1>2, StateNetNext DEF StatesOK, Now, Over
<1>4. CASE Pulls(i, "READ_ERROR")
  <2>1. \A m \in Net \ Net' : m.msg_type \notin {"MESSAGE_HEADER", "SEE_ALL_IN_WAITING_STATE"}
    BY <1>4 DEF Pulls
  <2>2. Stays /\ \A v : State(i)' = v => Turns(i, v)
    BY <1>1, <1>2, <2>1, NodeMaps, TypeFacts
  <2> QED BY <1>3, <2>2, ThatIsEnd
<1>5. CASE pc[i] = "closing" /\ Pulls(i, "MESSAGE_HEADER")
  <2>1. State(i) = "done"
    BY <1>5, StateNet DEF StatesOK, Now, Over
  <2>2. (State(i)' = State(i) => Same) /\ \E l \in Links : l[2] = i /\ Loses(l)
    BY <1>1, <1>2, <1>5, PullMaps, TypeFacts
  <2> QED BY <1>3, <2>1, <2>2, ThatIsLose
<1> QED BY <1>1, <1>4, <1>5

LEMMA PopSeeAllMaps ==
  ASSUME Now, NEW i \in Nodes, PopSeeAll(i)
  PROVE  Abstract!Next
<1>0. OrderedNow /\ SimpleTypes /\ i \in Workers /\ Mine(i)
  BY BaseFacts, PopSeeAllBase DEF Now
<1>1. Act(i, {}, "READ_ERROR") /\ Pulls(i, "SEE_ALL_IN_WAITING_STATE")
  BY <1>0, SilentPop DEF PopSeeAll
<1>p. PICK m \in Net : Popped(m, i) /\ m.msg_type = "SEE_ALL_IN_WAITING_STATE" /\ Net \ Net' = {m}
  BY <1>1 DEF Pulls
<1>2. Released(i) /\ pc[i] = "receive_data"
  <2>1. Released(i)
    BY <1>p DEF Released, Popped
  <2> QED BY <1>0, <2>1 DEF Mine, ToldsAt, PopSeeAll, Pop
<1>3. pc' = [pc EXCEPT ![i] = "running"]
  BY <1>2 DEF PopSeeAll, Goes
<1>4. pc'[i] = "running" /\ \A j \in Nodes : j # i => pc'[j] = pc[j]
  BY <1>0, <1>3 DEF SimpleTypes
<1>5. Stays
  <2>1. Carries
    BY <1>1, <1>p, CarriesAct, TypeFacts
  <2> QED BY <1>1, <2>1, TransitSame, ActFacts DEF Stays
<1>6. ASSUME NEW j \in Nodes, j # i PROVE State(j)' = State(j)
  <2>1. Adds(i, {}, "READ_ERROR") /\ m.receiver_id = i
    BY <1>1, <1>p, ActFacts DEF Popped
  <2>2. \A x : x.receiver_id = j /\ x.msg_type = "SEE_ALL_IN_WAITING_STATE" => (x \in Net <=> x \in Net')
    BY <1>p, <1>6, <2>1 DEF Adds
  <2>3. (Released(j)' <=> Released(j)) /\ (Over(j)' <=> Over(j)) /\ pc'[j] = pc[j]
    BY <1>4, <1>6, <2>2 DEF Released, Over
  <2> QED BY <2>3, StateNet, StateNetNext DEF StatesOK, Now
<1>7. State(i) = "released" /\ State(i)' = "computing"
  BY <1>2, <1>4, StateNet, StateNetNext DEF StatesOK, Now
<1>8. Turns(i, "computing")
  BY <1>6, <1>7 DEF Turns
<1> QED BY <1>5, <1>7, <1>8, ThatIsNotice

LEMMA SendMaps ==
  ASSUME Now, NEW l \in Links, send_data(l)
  PROVE  Abstract!Next
<1>0. OrderedNow /\ OrderedNow' /\ SimpleTypes /\ l[1] \in Nodes
  BY BaseFacts, LinkFacts DEF Now, Base
<1>c. PICK c, New : Sending(l, c, New)
  <2>1. current_epoch[l[1]] \in Nat
    BY <1>0 DEF SimpleTypes
  <2> QED BY <1>0, <2>1, SendAct
<1>1. /\ Net' = Net \cup {c} \cup New /\ c \notin Net
      /\ c.msg_type = "MESSAGE_HEADER" /\ c.sender_id = l[1] /\ c.receiver_id = l[2] /\ c.num = written[l] + 1
      /\ \A n \in New : n.msg_type = "SENT_MESSAGE"
  BY <1>c DEF Sending
<1>2. pc[l[1]] = "running" /\ pc' = pc
  BY DEF send_data
<1>3. Tells
  BY <1>1 DEF Tells, Released
<1>4. Same
  <2> SUFFICES ASSUME NEW j \in Nodes PROVE State(j)' = State(j)
    BY DEF Same
  <2>1. (Released(j)' <=> Released(j)) /\ (Over(j)' <=> Over(j))
    BY <1>2, <1>3 DEF Tells, Over
  <2> QED BY <1>2, <2>1, StateNet, StateNetNext DEF StatesOK, Now
<1>5. State(l[1]) = "computing"
  BY <1>0, <1>2, StateNet DEF StatesOK, Now
<1>6. \A n \in Transit(l) : n < c.num
  <2> TAKE n \in Transit(l)
  <2>1. PICK x \in Net : x.sender_id = l[1] /\ x.receiver_id = l[2] /\ x.num = n
    BY <1>0, TransitNet DEF WaysOK
  <2>2. <<x.sender_id, x.receiver_id>> = l
    BY <2>1, LinkFacts
  <2>3. x.num \in Nat /\ written[l] \in Nat /\ x.num <= written[l]
    BY <1>0, <2>2, NetFacts
  <2> QED BY <1>1, <2>1, <2>3
<1>7. ASSUME NEW k \in Links PROVE Transit(k)' = IF k = l THEN Transit(l) \cup {c.num} ELSE Transit(k)
  <2>1. \A n \in Transit(k)' : n \in Transit(k) \/ (k = l /\ n = c.num)
    <3> TAKE n \in Transit(k)'
    <3>1. PICK x \in Net' : /\ x.msg_type = "MESSAGE_HEADER" /\ x.sender_id = k[1] /\ x.receiver_id = k[2] /\ x.num = n
      BY <1>0, TransitNetNext DEF WaysOK
    <3>2. CASE x \in Net
      BY <1>0, <3>1, <3>2, TransitNet DEF WaysOK
    <3>3. CASE x = c
      <4>1. k[1] = l[1] /\ k[2] = l[2] /\ n = c.num
        BY <1>1, <3>1, <3>3
      <4> QED BY <4>1, LinkFacts
    <3> QED BY <1>1, <3>1, <3>2, <3>3
  <2>2. \A n \in Transit(k) : n \in Transit(k)'
    <3> TAKE n \in Transit(k)
    <3>1. PICK x \in Net : /\ x.msg_type = "MESSAGE_HEADER" /\ x.sender_id = k[1] /\ x.receiver_id = k[2] /\ x.num = n
      BY <1>0, TransitNet DEF WaysOK
    <3>2. x \in Net'
      BY <1>1
    <3> QED BY <1>0, <3>1, <3>2, TransitNetNext DEF WaysOK
  <2>3. k = l => c.num \in Transit(k)'
    BY <1>0, <1>1, TransitNetNext DEF WaysOK
  <2> QED BY <2>1, <2>2, <2>3
<1> QED BY <1>4, <1>5, <1>6, <1>7, ThatIsSend

LEMMA EndEpochMaps ==
  ASSUME IInv, IInv', EndEpoch
  PROVE  Abstract!Next
<1>0. Now /\ Base /\ OrderedNow /\ SimpleTypes /\ WaitingBound /\ OutstandingExact /\ NetOK' /\ 0 \in Nodes
  BY BaseFacts, LinkFacts DEF IInv, Now, Base
<1> DEFINE T == Workers \ terminated[0]
<1>1. Act(0, T, "SEE_ALL_IN_WAITING_STATE") /\ Net \subseteq Net'
  BY <1>0, EndEpochAct
<1> HIDE DEF T
<1>q. /\ \A x \in Net : x.msg_type # "MESSAGE_HEADER"
      /\ \A j \in Workers \ terminated[0] : ~Released(j) /\ pc[j] \in {"receive_data", "failed"}
  BY <1>0, Quiet DEF EndEpoch
<1>2. /\ pc[0] \in {"receive_data", "closing"}
      /\ IF pc[0] = "closing" THEN pc' = pc ELSE pc' = [pc EXCEPT ![0] = "running"]
  BY DEF EndEpoch, MayDetect
<1>3. \A j \in Workers : pc'[j] = pc[j]
  BY <1>0, <1>2, LinkFacts DEF SimpleTypes
<1>4. Stays
  <2>1. Carries
    BY <1>0, <1>1, CarriesAct, TypeFacts
  <2> QED BY <1>0, <1>1, <2>1, TransitSame DEF Stays, Act
<1>5. ASSUME NEW l \in Links PROVE Transit(l) = {}
  BY <1>0, <1>q, TransitNet DEF WaysOK
<1>6. ASSUME NEW i \in Nodes
      PROVE  /\ State(i) \in {"waiting", "done"} /\ State(i)' \in {"computing", "released", "done"}
             /\ State(i) = "done" <=> State(i)' = "done"
  <2>1. CASE i = 0 /\ pc[0] = "closing"
    BY <2>1, <1>0, <1>2, StateNet, StateNetNext DEF StatesOK, Now, Over
  <2>2. CASE i = 0 /\ pc[0] = "receive_data"
    <3>1. pc'[0] = "running"
      BY <1>0, <1>2, <2>2 DEF SimpleTypes
    <3> QED BY <3>1, <2>2, <1>0, StateNet, StateNetNext DEF StatesOK, Now
  <2>3. CASE i \in Workers /\ Over(i)
    <3>1. Over(i)'
      BY <1>3, <2>3 DEF Over
    <3> QED BY <3>1, <2>3, <1>0, StateNet, StateNetNext DEF StatesOK, Now
  <2>4. CASE i \in Workers /\ ~Over(i)
    <3>1. i \notin terminated[0]
      BY <1>0, <2>4, BaseFacts DEF Mine, TermsAt
    <3>2. pc[i] = "receive_data" /\ ~Released(i) /\ pc'[i] = "receive_data"
      BY <1>3, <1>q, <2>4, <3>1 DEF Over
    <3>3. Released(i)'
      BY <1>0, <2>4, <3>2, EpochWorker
    <3> QED BY <3>2, <3>3, <1>0, StateNet, StateNetNext DEF StatesOK, Now
  <2> QED BY <1>2, <2>1, <2>2, <2>3, <2>4 DEF Workers
<1> QED BY <1>4, <1>5, <1>6, ThatIsRelease

\* The initial states are initial states.
LEMMA InitMaps == Init => Abstract!Init
<1> SUFFICES ASSUME Init PROVE Abstract!Init
  OBVIOUS
<1>1. \A i \in Nodes : State(i) = "computing"
  BY DEF Init, State
<1>2. ASSUME NEW l \in Links PROVE Transit(l) = {}
  <2>1. Base /\ Net = {}
    BY InitIInv, InitNet DEF IInv
  <2> QED BY <2>1, BaseFacts, TransitNet DEF WaysOK
<1>3. Abstract!Links = Links
  BY DEF Abstract!Links, Links
<1> QED BY <1>1, <1>2, <1>3 DEF Abstract!Init

\* Every step is a step of Supersteps, or none.
LEMMA NextMaps ==
  ASSUME IInv, IInv', [Next]_vars
  PROVE  [Abstract!Next]_<<AState, ATransit>>
<1>0. Now
  BY DEF Now, IInv
<1>1. ASSUME Same /\ Stays PROVE [Abstract!Next]_<<AState, ATransit>>
  BY <1>1, ThatIsStutter
<1>2. CASE UNCHANGED vars
  <2>1. AState' = AState /\ ATransit' = ATransit
    BY <1>2 DEF vars, counters, AState, ATransit, State, Told, Transit, Way, Of
  <2> QED BY <2>1
<1>3. ASSUME NEW l \in Links, read_thread(l) \/ send_data(l) PROVE [Abstract!Next]_<<AState, ATransit>>
  BY <1>0, <1>1, <1>3, ReadMaps, SendMaps
<1>4. ASSUME NEW i \in Nodes, EnterReceive(i) \/ EnterClose(i) \/ Crash(i) PROVE Abstract!Next
  BY <1>0, <1>4, EnterReceiveMaps, EndMaps
<1>5. ASSUME NEW i \in Nodes, Continue(i) PROVE [Abstract!Next]_<<AState, ATransit>>
  <2>1. CASE EndEpoch
    BY <2>1, EndEpochMaps
  <2>2. CASE ReceiveAlone(i) \/ PopContent(i) \/ PopSeeAll(i) \/ PopFatal(i)
    BY <1>0, <2>2, ReceiveAloneMaps, PopContentMaps, PopSeeAllMaps, PopFatalMaps
  <2>3. CASE PopNotice(i) \/ PopTerminate(i) \/ Close(i)
    BY <1>0, <1>1, <2>3, PopNoticeMaps, PopTerminateMaps, CloseMaps
  <2> QED BY <1>5, <2>1, <2>2, <2>3 DEF Continue
<1> QED BY <1>2, <1>3, <1>4, <1>5 DEF Next

\* What the programs of a job see is what the barrier promises: messages of a
\* pair of nodes come in the order they were sent, and a receive that reports
\* the end of an epoch does so when every program waits or has ended with no
\* message in transit (bsp_abstract.h).
THEOREM RefinesSupersteps == ASSUME DirectedRoutes PROVE Spec => ImplementsSupersteps
<1>1. Spec => []IInv
  BY Invariance
<1>2. Init => Abstract!Init
  BY InitMaps
<1>3. IInv /\ IInv' /\ [Next]_vars => [Abstract!Next]_<<AState, ATransit>>
  BY NextMaps
<1> QED BY <1>1, <1>2, <1>3, PTL DEF Spec, ImplementsSupersteps, Abstract!Spec, AState, ATransit
=============================================================================
