------------------------- MODULE ToolCallPathProofs -------------------------
(***************************************************************************)
(* The theorems about the components of a tool call hold of the path: a    *)
(* step of it is a step of the component or leaves its variables alone.    *)
(* Round, executor and server have their invariants in modules of their    *)
(* own; those of the stream of deltas and of the extractor are here.       *)
(***************************************************************************)
EXTENDS ToolCallPath, WellFoundedInduction, TLAPS

-----------------------------------------------------------------------------
(* Numbers and sequences.                                                  *)

\* A set of numbers that is not empty has a least one.
LEMMA LeastNat ==
    ASSUME NEW T \in SUBSET Nat, T # {}
    PROVE  \E x \in T : \A y \in T : x <= y
  <1>1. \A x, y \in Nat : y < x => <<y, x>> \in OpToRel(<, Nat)
    BY DEF OpToRel
  <1>2. \E R : IsWellFoundedOn(R, Nat) /\ \A x, y \in Nat : y < x => <<y, x>> \in R
    BY <1>1, NatLessThanWellFounded, Zenon
  <1>3. PICK R : IsWellFoundedOn(R, Nat) /\ \A x, y \in Nat : y < x => <<y, x>> \in R
    BY <1>2
  <1>4. PICK x \in T : \A y \in T : ~ (<<y, x>> \in R)
    BY <1>3, WFMin, Zenon
  <1>5. \A y \in T : ~ (y < x)
    BY <1>3, <1>4, Zenon
  <1>6. QED
    BY <1>4, <1>5

\* A bounded set of numbers that is not empty has a greatest one.
LEMMA GreatestNat ==
    ASSUME NEW n \in Nat, NEW T \in SUBSET (0 .. n), T # {}
    PROVE  \E x \in T : \A y \in T : x >= y
  <1> DEFINE U == {n - x : x \in T}
  <1>1. U \in SUBSET Nat /\ U # {}
    <2>1. \A x \in T : n - x \in Nat
      OBVIOUS
    <2>2. PICK x \in T : n - x \in U
      OBVIOUS
    <2>3. QED
      BY <2>1, <2>2
  <1>2. PICK u \in U : \A y \in U : u <= y
    BY <1>1, LeastNat
  <1>3. PICK x \in T : u = n - x
    OBVIOUS
  <1>4. \A y \in T : n - x <= n - y
    BY <1>2, <1>3
  <1>5. QED
    BY <1>4

\* A set of numbers with zero and all successors has them all.
LEMMA SetInduction ==
    ASSUME NEW T \in SUBSET Nat, 0 \in T, \A n \in T : n + 1 \in T
    PROVE  T = Nat
  <1>1. CASE Nat \ T # {}
    <2>1. PICK x \in Nat \ T : \A y \in Nat \ T : x <= y
      BY <1>1, LeastNat
    <2>2. x - 1 \in Nat /\ x - 1 \in T
      BY <2>1
    <2>3. QED
      BY <2>1, <2>2
  <1>2. QED
    BY <1>1

\* A sequence with one more element.
LEMMA AppendIs ==
    ASSUME NEW Q, NEW q \in Seq(Q), NEW x \in Q
    PROVE  /\ Append(q, x) \in Seq(Q) /\ Len(Append(q, x)) = Len(q) + 1
           /\ DOMAIN Append(q, x) = 1 .. Len(q) + 1
           /\ \A i \in DOMAIN q : Append(q, x)[i] = q[i]
           /\ Append(q, x)[Len(q) + 1] = x
  OBVIOUS

\* A sequence with another behind it.
LEMMA ConcatIs ==
    ASSUME NEW Q, NEW q \in Seq(Q), NEW r \in Seq(Q)
    PROVE  /\ q \o r \in Seq(Q) /\ Len(q \o r) = Len(q) + Len(r)
           /\ Len(q) \in Nat /\ Len(r) \in Nat /\ (r # <<>> => Len(r) > 0)
  <1>1. r # <<>> => Len(r) > 0
    OBVIOUS
  <1>2. QED
    BY <1>1

-----------------------------------------------------------------------------
(* The stream of deltas.                                                   *)

IndexOf(c) == plan.calls[c].index

\* What a buffer holds of a call of which n deltas have come: pieces of the
\* call in order, though some may be lost, and its id unless the first is.
OfCall(c, from, n) ==
    /\ \A j \in DOMAIN from.arguments :
         from.arguments[j].call = c /\ from.arguments[j].part <= n
    /\ \A j \in DOMAIN from.arguments, k \in DOMAIN from.arguments :
         j < k => from.arguments[j].part < from.arguments[k].part
    /\ from.id = IF from.named THEN plan.calls[c].id ELSE None

\* The buffers bs belong to calls of which the deltas cm have come.
Owned(bs, cm) ==
    \A i \in Stream!Indexes : bs[i] # None =>
        \E c \in Stream!Calls : IndexOf(c) = i /\ OfCall(c, bs[i], cm[c])

\* The buffer of a call of which n deltas have come, none of them lost.
Filled(c, n) ==
    IF n = 0 THEN None
    ELSE [id |-> plan.calls[c].id, named |-> TRUE,
          arguments |-> [p \in 1 .. n |-> [call |-> c, part |-> p]]]

AllThere(bs, cm) == \A c \in Stream!Calls : bs[IndexOf(c)] = Filled(c, cm[c])

Sent(c) == \E k \in DOMAIN dispatched : dispatched[k] = Stream!Made(c)

\* No id is dispatched twice, whatever the model answers.
IdsOnce ==
    /\ \A k \in DOMAIN dispatched :
         dispatched[k].id # None => dispatched[k].id \in sentIds
    /\ \A j \in DOMAIN dispatched, k \in DOMAIN dispatched :
         j # k => dispatched[j].id # dispatched[k].id \/ dispatched[j].id = None

\* Where nothing is lost the buffers of all calls are flushed in their order.
Flushing ==
    /\ Stream!Whole /\ spoken = plan.words
    /\ \A c \in Stream!Calls : \/ buffers[IndexOf(c)] = Filled(c, plan.calls[c].pieces)
                               \/ buffers[IndexOf(c)] = None /\ Sent(c)
    /\ \A k \in DOMAIN dispatched : \E c \in Stream!Calls :
         dispatched[k] = Stream!Made(c) /\ \A i \in Stream!Left : IndexOf(c) < i
    /\ Stream!InOrder
    /\ \A s \in sentIds : \E c \in Stream!Calls : plan.calls[c].id = s /\ Sent(c)
    /\ phase = "ended" => Stream!Left = {}

StreamInv ==
    /\ Stream!TypeOK
    /\ phase = "reading" => dispatched = <<>> /\ sentIds = {}
    /\ IdsOnce
    /\ Stream!Distinct =>
         /\ Owned(buffers, came)
         /\ \A k \in DOMAIN dispatched : \E c \in Stream!Calls : Stream!MadeOf(c, dispatched[k])
         /\ (phase = "reading" /\ ~incomplete) => AllThere(buffers, came) /\ spoken = words
         /\ (phase \in {"flushing", "ended"} /\ ~incomplete) => Flushing

-----------------------------------------------------------------------------
LEMMA PlanFacts ==
    ASSUME Stream!TypeOK
    PROVE  /\ Stream!Indexes \subseteq Nat
           /\ \A c \in Stream!Calls :
                /\ c \in Nat /\ IndexOf(c) \in Stream!Indexes /\ IndexOf(c) \in Nat
                /\ plan.calls[c].id \in Ids \cup {None} /\ plan.calls[c].pieces \in Nat \ {0}
           /\ plan.words \in Nat /\ plan.thoughts \in Nat
  <1>1. plan \in Plans /\ plan \in Stream!Plan
    BY PathAssumption DEF Stream!TypeOK
  <1>2. \A p \in Plans : /\ p.words \in Nat /\ p.thoughts \in Nat
                         /\ p.calls \in Seq([index : Nat, id : Ids \cup {None}, pieces : Nat \ {0}])
    BY PathAssumption DEF Stream!Plan
  <1>3. \A p \in Plans : \A c \in DOMAIN p.calls :
          c \in Nat /\ p.calls[c] \in [index : Nat, id : Ids \cup {None}, pieces : Nat \ {0}]
    <2> SUFFICES ASSUME NEW p \in Plans, NEW c \in DOMAIN p.calls
                 PROVE  /\ c \in Nat
                        /\ p.calls[c] \in [index : Nat, id : Ids \cup {None}, pieces : Nat \ {0}]
      OBVIOUS
    <2> DEFINE Cut == [index : Nat, id : Ids \cup {None}, pieces : Nat \ {0}]
    <2>1. p.calls \in Seq(Cut)
      BY <1>2
    <2> HIDE DEF Cut
    <2>2. DOMAIN p.calls = 1 .. Len(p.calls) /\ p.calls[c] \in Cut
      BY <2>1
    <2>3. c \in Nat /\ p.calls[c] \in Cut
      BY <2>1, <2>2
    <2>4. QED
      BY <2>3 DEF Cut
  <1>4. \A p \in Plans : \A c \in DOMAIN p.calls : p.calls[c].index \in Nat
    BY <1>3
  <1>5. Stream!Indexes \subseteq Nat
    BY <1>4 DEF Stream!Indexes
  <1>6. \A c \in Stream!Calls : IndexOf(c) \in Stream!Indexes
    BY <1>1 DEF Stream!Indexes, Stream!Calls, IndexOf
  <1>7. QED
    BY <1>1, <1>2, <1>3, <1>5, <1>6 DEF Stream!Calls, IndexOf

LEMMA DeltasFacts ==
    ASSUME NEW deltas \in Stream!Deltas
    PROVE  /\ Len(deltas) \in {0, 1, 2} /\ DOMAIN deltas = 1 .. Len(deltas)
           /\ \A k \in DOMAIN deltas : deltas[k] \in Stream!Calls
                                       /\ came[deltas[k]] < plan.calls[deltas[k]].pieces
           /\ Len(deltas) = 2 => deltas[1] # deltas[2]
           /\ Stream!ToSet(deltas) = {deltas[k] : k \in DOMAIN deltas}
           /\ deltas \in Seq(Stream!Calls)
  <1>1. PICK m \in 0 .. 2 :
          deltas \in [1 .. m -> {c \in Stream!Calls : came[c] < plan.calls[c].pieces}]
    BY DEF Stream!Deltas, Stream!SeqOf
  <1>2. \A j, k \in DOMAIN deltas : j # k => deltas[j] # deltas[k]
    BY DEF Stream!Deltas
  <1>3. deltas \in Seq(Stream!Calls) /\ Len(deltas) = m /\ DOMAIN deltas = 1 .. m
    BY <1>1
  <1>4. \A k \in DOMAIN deltas : deltas[k] \in Stream!Calls
                                 /\ came[deltas[k]] < plan.calls[deltas[k]].pieces
    BY <1>1
  <1>5. m = 2 => deltas[1] # deltas[2]
    BY <1>2, <1>3
  <1>6. QED
    BY <1>1, <1>3, <1>4, <1>5 DEF Stream!ToSet

\* The recursive function of Accumulated on the chunks there are.
LEMMA AccumulatedIs ==
    ASSUME NEW deltas \in Stream!Deltas
    PROVE  Stream!Accumulated(deltas) =
             CASE Len(deltas) = 0 -> buffers
               [] Len(deltas) = 1 -> Stream!Accumulate(buffers, deltas[1])
               [] Len(deltas) = 2 ->
                    Stream!Accumulate(Stream!Accumulate(buffers, deltas[1]), deltas[2])
  <1> DEFINE n == Len(deltas)
             first == buffers
             Turn(old, k) == Stream!Accumulate(old, deltas[k])
             Is(f) == f = [k \in 0 .. n |-> IF k = 0 THEN first ELSE Turn(f[k - 1], k)]
             upTo == CHOOSE upTo : Is(upTo)
  <1>1. Stream!Accumulated(deltas) = upTo[n]
    BY Zenon DEF Stream!Accumulated
  <1>2. n \in {0, 1, 2}
    BY DeltasFacts
  <1> DEFINE g == [k \in 0 .. n |-> IF k = 0 THEN first
                                    ELSE IF k = 1 THEN Turn(first, 1) ELSE Turn(Turn(first, 1), 2)]
  <1> HIDE DEF n, first, Turn, upTo
  <1>3. Is(g)
    BY <1>2
  <1> HIDE DEF g
  <1>4. Is(upTo)
    <2> HIDE DEF Is
    <2>1. QED
      BY <1>3, Zenon DEF upTo
  <1>5. upTo[0] = first /\ (n >= 1 => upTo[1] = Turn(first, 1))
        /\ (n = 2 => upTo[2] = Turn(Turn(first, 1), 2))
    BY <1>2, <1>4
  <1> HIDE DEF Is
  <1>6. upTo[n] = CASE n = 0 -> first [] n = 1 -> Turn(first, 1)
                    [] n = 2 -> Turn(Turn(first, 1), 2)
    BY <1>2, <1>5
  <1>7. QED
    BY <1>1, <1>6, Zenon DEF n, first, Turn

\* One more delta in the buffer of its call.
More(old, c) ==
    [id        |-> IF came[c] + 1 = 1 /\ plan.calls[c].id # None THEN plan.calls[c].id ELSE old.id,
     named     |-> old.named \/ came[c] + 1 = 1,
     arguments |-> Append(old.arguments, [call |-> c, part |-> came[c] + 1])]

LEMMA AccumulateIs ==
    ASSUME Stream!TypeOK, NEW c \in Stream!Calls,
           NEW bs \in [Stream!Indexes -> Stream!Buffer \cup {None}]
    PROVE  LET i == IndexOf(c)
               old == IF bs[i] = None THEN Stream!NoBuffer ELSE bs[i]
           IN /\ Stream!Accumulate(bs, c) = [bs EXCEPT ![i] = More(old, c)]
              /\ old \in Stream!Buffer /\ More(old, c) \in Stream!Buffer
              /\ More(old, c) # None
              /\ Stream!Accumulate(bs, c) \in [Stream!Indexes -> Stream!Buffer \cup {None}]
  <1> DEFINE i == IndexOf(c)
             old == IF bs[i] = None THEN Stream!NoBuffer ELSE bs[i]
  <1>1. Stream!Accumulate(bs, c) = [bs EXCEPT ![i] = More(old, c)]
    BY DEF Stream!Accumulate, Stream!Buffered, More, IndexOf
  <1>2. i \in Stream!Indexes /\ c \in Nat /\ plan.calls[c].id \in Ids \cup {None}
    BY PlanFacts
  <1>3. Stream!NoBuffer \in Stream!Buffer
    BY DEF Stream!NoBuffer, Stream!Buffer
  <1>4. old \in Stream!Buffer
    BY <1>2, <1>3
  <1> HIDE DEF old
  <1>5. came[c] + 1 \in Nat
    BY DEF Stream!TypeOK
  <1>6. [call |-> c, part |-> came[c] + 1] \in Stream!Piece
    BY <1>2, <1>5 DEF Stream!Piece
  <1>7. /\ old.id \in Ids \cup {None} /\ old.named \in BOOLEAN
        /\ old.arguments \in Seq(Stream!Piece)
    BY <1>4 DEF Stream!Buffer
  <1>8. Append(old.arguments, [call |-> c, part |-> came[c] + 1]) \in Seq(Stream!Piece)
    BY <1>6, <1>7
  <1>9. (old.named \/ came[c] + 1 = 1) \in BOOLEAN
    OBVIOUS
  <1>10. More(old, c) \in Stream!Buffer
    BY <1>2, <1>7, <1>8, <1>9 DEF More, Stream!Buffer
  <1>11. More(old, c) # None
    BY <1>10, PathAssumption
  <1>12. Stream!Accumulate(bs, c) \in [Stream!Indexes -> Stream!Buffer \cup {None}]
    BY <1>1, <1>2, <1>10
  <1>13. QED
    BY <1>1, <1>4, <1>10, <1>11, <1>12 DEF old

LEMMA MoreOf ==
    ASSUME Stream!TypeOK, NEW c \in Stream!Calls, NEW old \in Stream!Buffer,
           OfCall(c, old, came[c])
    PROVE  OfCall(c, More(old, c), came[c] + 1)
  <1> DEFINE piece == [call |-> c, part |-> came[c] + 1]
             now == Append(old.arguments, piece)
             n == Len(old.arguments)
  <1>1. /\ came[c] \in Nat /\ came[c] + 1 \in Nat
        /\ old.arguments \in Seq(Stream!Piece) /\ old.named \in BOOLEAN
    BY DEF Stream!TypeOK, Stream!Buffer
  <1>2. /\ n \in Nat /\ DOMAIN old.arguments = 1 .. n /\ DOMAIN now = 1 .. n + 1
        /\ \A j \in 1 .. n : now[j] = old.arguments[j] /\ now[j].part \in Nat
        /\ now[n + 1] = piece
    <2>1. piece \in Stream!Piece
      BY <1>1, PlanFacts DEF Stream!Piece
    <2>2. n \in Nat /\ DOMAIN old.arguments = 1 .. n
      BY <1>1
    <2>3. /\ DOMAIN now = 1 .. n + 1 /\ now[n + 1] = piece
          /\ \A j \in DOMAIN old.arguments : now[j] = old.arguments[j]
      BY <1>1, <2>1, AppendIs
    <2>4. \A j \in DOMAIN old.arguments : old.arguments[j].part \in Nat
      <3>1. \A j \in DOMAIN old.arguments : old.arguments[j] \in Stream!Piece
        BY <1>1
      <3>2. QED
        BY <3>1 DEF Stream!Piece
    <2> HIDE DEF n, now, piece
    <2>5. QED
      BY <2>2, <2>3, <2>4
  <1>3. \A j \in 1 .. n : now[j].call = c /\ now[j].part <= came[c]
    BY <1>2 DEF OfCall
  <1>4. \A j \in 1 .. n + 1 : j \in 1 .. n \/ j = n + 1
    BY <1>2
  <1>5. now[n + 1].call = c /\ now[n + 1].part = came[c] + 1
    BY <1>2
  <1> HIDE DEF now, n, piece
  <1>6. \A j \in DOMAIN now : now[j].call = c /\ now[j].part <= came[c] + 1
    BY <1>1, <1>2, <1>3, <1>4, <1>5
  <1>7. ASSUME NEW j \in DOMAIN now, NEW k \in DOMAIN now, j < k
        PROVE  now[j].part < now[k].part
    <2>1. CASE k = n + 1
      <3>1. j \in 1 .. n
        BY <1>2, <1>7, <2>1
      <3>2. QED
        BY <1>1, <1>2, <1>3, <1>5, <2>1, <3>1
    <2>2. CASE k \in 1 .. n
      <3>1. j \in 1 .. n
        BY <1>2, <1>7, <2>2
      <3>2. QED
        BY <1>2, <1>7, <2>2, <3>1 DEF OfCall
    <2>3. QED
      BY <1>2, <1>4, <2>1, <2>2
  <1>8. More(old, c).id = IF More(old, c).named THEN plan.calls[c].id ELSE None
    BY <1>1 DEF OfCall, More
  <1>9. More(old, c).arguments = now
    BY DEF More, now, piece
  <1>10. QED
    BY <1>6, <1>7, <1>8, <1>9 DEF OfCall

LEMMA AccumulateOwned ==
    ASSUME Stream!TypeOK, Stream!Distinct, NEW c \in Stream!Calls,
           NEW bs \in [Stream!Indexes -> Stream!Buffer \cup {None}],
           NEW cm \in [Stream!Calls -> Nat], cm[c] = came[c], Owned(bs, cm)
    PROVE  Owned(Stream!Accumulate(bs, c), [cm EXCEPT ![c] = came[c] + 1])
  <1> DEFINE i == IndexOf(c)
             old == IF bs[i] = None THEN Stream!NoBuffer ELSE bs[i]
             now == Stream!Accumulate(bs, c)
  <1>1. i \in Stream!Indexes
    BY PlanFacts
  <1>2. now = [bs EXCEPT ![i] = More(old, c)] /\ old \in Stream!Buffer
    BY AccumulateIs
  <1>3. OfCall(c, old, came[c])
    <2>1. CASE bs[i] = None
      BY <2>1 DEF OfCall, Stream!NoBuffer
    <2>2. CASE bs[i] # None
      <3>1. PICK d \in Stream!Calls : IndexOf(d) = i /\ OfCall(d, bs[i], cm[d])
        BY <1>1, <2>2 DEF Owned
      <3>2. d = c
        BY <3>1 DEF Stream!Distinct, IndexOf
      <3>3. QED
        BY <2>2, <3>1, <3>2
    <2>3. QED
      BY <2>1, <2>2
  <1>4. OfCall(c, More(old, c), came[c] + 1)
    BY <1>2, <1>3, MoreOf
  <1> HIDE DEF old, now
  <1>5. ASSUME NEW j \in Stream!Indexes, now[j] # None
        PROVE  \E d \in Stream!Calls :
                 IndexOf(d) = j /\ OfCall(d, now[j], [cm EXCEPT ![c] = came[c] + 1][d])
    <2>1. CASE j = i
      BY <1>1, <1>2, <1>4, <2>1
    <2>2. CASE j # i
      <3>1. now[j] = bs[j]
        BY <1>2, <2>2
      <3>2. PICK d \in Stream!Calls : IndexOf(d) = j /\ OfCall(d, bs[j], cm[d])
        BY <1>5, <3>1 DEF Owned
      <3>3. d # c
        BY <2>2, <3>2
      <3>4. [cm EXCEPT ![c] = came[c] + 1][d] = cm[d]
        BY <3>3
      <3>5. QED
        BY <3>1, <3>2, <3>4
    <2>3. QED
      BY <2>1, <2>2
  <1>6. QED
    BY <1>5 DEF Owned, now

LEMMA AccumulateAll ==
    ASSUME Stream!TypeOK, Stream!Distinct, NEW c \in Stream!Calls,
           NEW bs \in [Stream!Indexes -> Stream!Buffer \cup {None}],
           NEW cm \in [Stream!Calls -> Nat], cm[c] = came[c], AllThere(bs, cm)
    PROVE  AllThere(Stream!Accumulate(bs, c), [cm EXCEPT ![c] = came[c] + 1])
  <1> DEFINE i == IndexOf(c)
             old == IF bs[i] = None THEN Stream!NoBuffer ELSE bs[i]
             now == Stream!Accumulate(bs, c)
             n == came[c]
  <1>1. i \in Stream!Indexes /\ n \in Nat
    BY PlanFacts DEF Stream!TypeOK
  <1>2. now = [bs EXCEPT ![i] = More(old, c)] /\ More(old, c) # None
    BY AccumulateIs
  <1>3. bs[i] = Filled(c, n)
    BY DEF AllThere
  <1>4. More(old, c) = Filled(c, n + 1)
    <2>1. CASE n = 0
      <3>1. old = Stream!NoBuffer
        BY <1>3, <2>1 DEF Filled
      <3>2. /\ (old.named \/ came[c] + 1 = 1) = TRUE
            /\ (IF came[c] + 1 = 1 /\ plan.calls[c].id # None THEN plan.calls[c].id ELSE old.id)
                 = plan.calls[c].id
            /\ old.arguments = <<>> /\ came[c] + 1 = 1
        BY <2>1, <3>1 DEF Stream!NoBuffer
      <3>3. Append(<<>>, [call |-> c, part |-> 1]) = [p \in 1 .. 1 |-> [call |-> c, part |-> p]]
        OBVIOUS
      <3>4. /\ More(old, c) = [id |-> plan.calls[c].id, named |-> TRUE,
                               arguments |-> Append(<<>>, [call |-> c, part |-> 1])]
        BY <3>2, Zenon DEF More
      <3>5. n + 1 = 1 /\ n + 1 # 0
        BY <2>1
      <3>6. QED
        BY <3>3, <3>4, <3>5, Zenon DEF Filled
    <2>2. CASE n > 0
      <3> DEFINE pieces == [p \in 1 .. n |-> [call |-> c, part |-> p]]
      <3>1. bs[i] = [id |-> plan.calls[c].id, named |-> TRUE, arguments |-> pieces]
        BY <1>1, <1>3, <2>2 DEF Filled
      <3>2. bs[i] # None
        <4>1. pieces \in Seq(Stream!Piece)
          <5>1. \A p \in 1 .. n : [call |-> c, part |-> p] \in Stream!Piece
            BY <1>1, PlanFacts DEF Stream!Piece
          <5>2. pieces \in [1 .. n -> Stream!Piece]
            BY <5>1
          <5> HIDE DEF pieces
          <5>3. QED
            BY <1>1, <5>2
        <4>2. bs[i] \in Stream!Buffer
          BY <3>1, <4>1, PlanFacts DEF Stream!Buffer
        <4>3. QED
          BY <4>2, PathAssumption
      <3>3. old = bs[i]
        BY <3>2
      <3>4. Append(pieces, [call |-> c, part |-> n + 1])
              = [p \in 1 .. n + 1 |-> [call |-> c, part |-> p]]
        BY <1>1
      <3> HIDE DEF old, pieces
      <3>5. /\ (old.named \/ came[c] + 1 = 1) = TRUE
            /\ (IF came[c] + 1 = 1 /\ plan.calls[c].id # None THEN plan.calls[c].id ELSE old.id)
                 = plan.calls[c].id
            /\ old.arguments = pieces
        BY <3>1, <3>3
      <3>6. More(old, c) = [id |-> plan.calls[c].id, named |-> TRUE,
                            arguments |-> Append(pieces, [call |-> c, part |-> n + 1])]
        BY <3>5, Zenon DEF More
      <3>7. n + 1 # 0
        BY <1>1
      <3>8. QED
        BY <3>4, <3>6, <3>7, Zenon DEF Filled
    <2>3. QED
      BY <1>1, <2>1, <2>2
  <1> HIDE DEF old, now
  <1>5. ASSUME NEW d \in Stream!Calls
        PROVE  now[IndexOf(d)] = Filled(d, [cm EXCEPT ![c] = came[c] + 1][d])
    <2>1. CASE d = c
      BY <1>1, <1>2, <1>4, <2>1
    <2>2. CASE d # c
      <3>1. IndexOf(d) # i
        BY <2>2 DEF Stream!Distinct, IndexOf
      <3>2. now[IndexOf(d)] = bs[IndexOf(d)]
        BY <1>2, <3>1, PlanFacts
      <3>3. QED
        BY <2>2, <3>2 DEF AllThere
    <2>3. QED
      BY <2>1, <2>2
  <1>6. QED
    BY <1>5 DEF AllThere, now

Counted(deltas) ==
    [c \in Stream!Calls |-> IF c \in Stream!ToSet(deltas) THEN came[c] + 1 ELSE came[c]]

LEMMA AccumulatedHolds ==
    ASSUME Stream!TypeOK, NEW deltas \in Stream!Deltas
    PROVE  /\ Stream!Accumulated(deltas) \in [Stream!Indexes -> Stream!Buffer \cup {None}]
           /\ Stream!Distinct /\ Owned(buffers, came) =>
                Owned(Stream!Accumulated(deltas), Counted(deltas))
           /\ Stream!Distinct /\ AllThere(buffers, came) =>
                AllThere(Stream!Accumulated(deltas), Counted(deltas))
  <1>1. /\ Len(deltas) \in {0, 1, 2} /\ DOMAIN deltas = 1 .. Len(deltas)
        /\ \A k \in DOMAIN deltas : deltas[k] \in Stream!Calls
        /\ Len(deltas) = 2 => deltas[1] # deltas[2]
        /\ Stream!ToSet(deltas) = {deltas[k] : k \in DOMAIN deltas}
    BY DeltasFacts
  <1>2. /\ buffers \in [Stream!Indexes -> Stream!Buffer \cup {None}]
        /\ came \in [Stream!Calls -> Nat]
    BY DEF Stream!TypeOK
  <1>3. CASE Len(deltas) = 0
    <2>1. Stream!Accumulated(deltas) = buffers
      BY <1>3, AccumulatedIs
    <2>2. Counted(deltas) = came
      BY <1>1, <1>2, <1>3 DEF Counted
    <2>3. QED
      BY <1>2, <2>1, <2>2
  <1>4. CASE Len(deltas) = 1
    <2>1. PICK c \in Stream!Calls : c = deltas[1]
      BY <1>1, <1>4
    <2>2. Stream!Accumulated(deltas) = Stream!Accumulate(buffers, c)
      BY <1>4, <2>1, AccumulatedIs
    <2>3. Counted(deltas) = [came EXCEPT ![c] = came[c] + 1]
      <3>1. Stream!ToSet(deltas) = {c}
        BY <1>1, <1>4, <2>1
      <3>2. QED
        BY <1>2, <3>1 DEF Counted
    <2>4. Stream!Accumulate(buffers, c) \in [Stream!Indexes -> Stream!Buffer \cup {None}]
      BY <1>2, AccumulateIs
    <2>5. Stream!Distinct /\ Owned(buffers, came) =>
            Owned(Stream!Accumulate(buffers, c), [came EXCEPT ![c] = came[c] + 1])
      BY <1>2, AccumulateOwned
    <2>6. Stream!Distinct /\ AllThere(buffers, came) =>
            AllThere(Stream!Accumulate(buffers, c), [came EXCEPT ![c] = came[c] + 1])
      BY <1>2, AccumulateAll
    <2>7. QED
      BY <2>2, <2>3, <2>4, <2>5, <2>6
  <1>5. CASE Len(deltas) = 2
    <2>1. PICK c \in Stream!Calls, d \in Stream!Calls : c = deltas[1] /\ d = deltas[2] /\ c # d
      BY <1>1, <1>5
    <2>2. PICK bs : bs = Stream!Accumulate(buffers, c)
      OBVIOUS
    <2>3. PICK cm : cm = [came EXCEPT ![c] = came[c] + 1]
      OBVIOUS
    <2>4. Stream!Accumulated(deltas) = Stream!Accumulate(bs, d)
      BY <1>5, <2>1, <2>2, AccumulatedIs
    <2>5. cm \in [Stream!Calls -> Nat] /\ cm[d] = came[d]
      BY <1>2, <2>1, <2>3
    <2>6. Counted(deltas) = [cm EXCEPT ![d] = came[d] + 1]
      <3>1. Stream!ToSet(deltas) = {c, d}
        BY <1>1, <1>5, <2>1
      <3>2. QED
        BY <1>2, <2>1, <2>3, <3>1 DEF Counted
    <2>7. bs \in [Stream!Indexes -> Stream!Buffer \cup {None}]
      BY <1>2, <2>2, AccumulateIs
    <2>8. Stream!Accumulate(bs, d) \in [Stream!Indexes -> Stream!Buffer \cup {None}]
      BY <2>7, AccumulateIs
    <2>9. Stream!Distinct /\ Owned(buffers, came) =>
            Owned(Stream!Accumulate(bs, d), [cm EXCEPT ![d] = came[d] + 1])
      <3>1. Stream!Distinct /\ Owned(buffers, came) => Owned(bs, cm)
        BY <1>2, <2>2, <2>3, AccumulateOwned
      <3>2. QED
        BY <2>5, <2>7, <3>1, AccumulateOwned
    <2>10. Stream!Distinct /\ AllThere(buffers, came) =>
             AllThere(Stream!Accumulate(bs, d), [cm EXCEPT ![d] = came[d] + 1])
      <3>1. Stream!Distinct /\ AllThere(buffers, came) => AllThere(bs, cm)
        BY <1>2, <2>2, <2>3, AccumulateAll
      <3>2. QED
        BY <2>5, <2>7, <3>1, AccumulateAll
    <2>11. QED
      BY <2>4, <2>6, <2>8, <2>9, <2>10
  <1>6. QED
    BY <1>1, <1>3, <1>4, <1>5

LEMMA StreamInit == Stream!Init /\ plan \in Plans => StreamInv
  <1> SUFFICES ASSUME Stream!Init PROVE StreamInv
    OBVIOUS
  <1>1. Stream!TypeOK
    <2>1. plan \in Plans /\ plan.words \in Nat /\ plan.thoughts \in Nat
          /\ plan.calls \in Seq([index : Nat, id : Ids \cup {None}, pieces : Nat \ {0}])
      BY PathAssumption DEF Stream!Init, Stream!Plan
    <2>2. \A c \in Stream!Calls : plan.calls[c].pieces \in Nat
      <3> DEFINE Cut == [index : Nat, id : Ids \cup {None}, pieces : Nat \ {0}]
      <3>1. plan.calls \in Seq(Cut)
        BY <2>1
      <3> HIDE DEF Cut
      <3>2. \A c \in Stream!Calls : plan.calls[c] \in Cut
        BY <3>1 DEF Stream!Calls
      <3>3. QED
        BY <3>2 DEF Cut
    <2>3. incomplete \in BOOLEAN
      BY Zenon DEF Stream!Init
    <2>4. QED
      BY <2>1, <2>2, <2>3 DEF Stream!Init, Stream!TypeOK
  <1>2. IdsOnce
    BY DEF Stream!Init, IdsOnce
  <1>3. Owned(buffers, came)
    BY DEF Stream!Init, Owned
  <1>4. AllThere(buffers, came)
    BY <1>1, PlanFacts DEF Stream!Init, AllThere, Filled
  <1>5. QED
    BY <1>1, <1>2, <1>3, <1>4 DEF StreamInv, Stream!Init

LEMMA ChunkTypes ==
    ASSUME Stream!TypeOK, Stream!Chunk
    PROVE  Stream!TypeOK'
  <1>1. PICK thinks \in {0, 1}, says \in {0, 1}, deltas \in Stream!Deltas :
          /\ thoughts + thinks <= plan.thoughts /\ words + says <= plan.words
          /\ thoughts' = thoughts + thinks /\ words' = words + says
          /\ came' = Counted(deltas)
          /\ spoken' = IF thinks # 1 /\ says = 1 THEN spoken + 1 ELSE spoken
          /\ buffers' \in {buffers, Stream!Accumulated(deltas)}
          /\ phase' \in {phase, "flushing"}
    BY DEF Stream!Chunk, Counted
  <1>2. /\ plan' = plan /\ Stream!Calls' = Stream!Calls
        /\ UNCHANGED <<server, sentIds, dispatched>>
    BY DEF Stream!Chunk, Stream!Calls
  <1>3. plan.words \in Nat /\ plan.thoughts \in Nat
    BY PlanFacts
  <1>4. /\ words' \in 0 .. plan.words /\ thoughts' \in 0 .. plan.thoughts
        /\ spoken' \in 0 .. words'
    BY <1>1, <1>3 DEF Stream!TypeOK
  <1>5. /\ came' \in [Stream!Calls -> Nat]
        /\ \A c \in Stream!Calls : came'[c] <= plan.calls[c].pieces
    <2>1. /\ came \in [Stream!Calls -> Nat]
          /\ \A c \in Stream!Calls : came[c] <= plan.calls[c].pieces
      BY DEF Stream!TypeOK
    <2>2. \A c \in Stream!ToSet(deltas) : came[c] < plan.calls[c].pieces
      BY DeltasFacts
    <2>3. \A c \in Stream!Calls : plan.calls[c].pieces \in Nat
      BY PlanFacts
    <2>4. QED
      BY <1>1, <2>1, <2>2, <2>3 DEF Counted
  <1>6. buffers' \in [Stream!Indexes -> Stream!Buffer \cup {None}]
    BY <1>1, AccumulatedHolds DEF Stream!TypeOK
  <1>7. incomplete' \in BOOLEAN
    BY Zenon DEF Stream!Chunk
  <1>8. phase' \in {"reading", "flushing"}
    BY <1>1 DEF Stream!Chunk
  <1>9. QED
    BY <1>2, <1>4, <1>5, <1>6, <1>7, <1>8 DEF Stream!TypeOK

\* The parts of the invariant in the next state, while the plan is the same.
LEMMA NextParts ==
    ASSUME plan' = plan
    PROVE  /\ Stream!Distinct' = Stream!Distinct /\ Stream!Calls' = Stream!Calls
           /\ Owned(buffers', came') => Owned(buffers, came)'
           /\ AllThere(buffers', came') => AllThere(buffers, came)'
           /\ \A c \in Stream!Calls : \A m :
                /\ Stream!MadeOf(c, m)' = Stream!MadeOf(c, m)
                /\ Stream!Made(c)' = Stream!Made(c) /\ IndexOf(c)' = IndexOf(c)
  <1>1. Stream!Distinct' = Stream!Distinct /\ Stream!Calls' = Stream!Calls
    BY DEF Stream!Distinct, Stream!Calls
  <1>2. Owned(buffers', came') => Owned(buffers, came)'
    BY DEF Owned, OfCall, IndexOf, Stream!Calls, Stream!Indexes
  <1>3. AllThere(buffers', came') => AllThere(buffers, came)'
    BY DEF AllThere, Filled, IndexOf, Stream!Calls
  <1>4. ASSUME NEW c, NEW m
        PROVE  /\ Stream!MadeOf(c, m)' = Stream!MadeOf(c, m)
               /\ Stream!Made(c)' = Stream!Made(c) /\ IndexOf(c)' = IndexOf(c)
    BY DEF Stream!MadeOf, Stream!Made, IndexOf
  <1>5. QED
    BY <1>1, <1>2, <1>3, <1>4

LEMMA OwnedGrows ==
    ASSUME Stream!TypeOK, NEW bs, NEW cm, NEW dm, Owned(bs, cm),
           \A c \in Stream!Calls : cm[c] \in Nat /\ dm[c] \in Nat /\ cm[c] <= dm[c],
           bs \in [Stream!Indexes -> Stream!Buffer \cup {None}]
    PROVE  Owned(bs, dm)
  <1> SUFFICES ASSUME NEW i \in Stream!Indexes, bs[i] # None
               PROVE  \E c \in Stream!Calls : IndexOf(c) = i /\ OfCall(c, bs[i], dm[c])
    BY DEF Owned
  <1>1. PICK c \in Stream!Calls : IndexOf(c) = i /\ OfCall(c, bs[i], cm[c])
    BY DEF Owned
  <1>2. bs[i].arguments \in Seq(Stream!Piece)
    BY DEF Stream!Buffer
  <1>3. \A j \in DOMAIN bs[i].arguments : bs[i].arguments[j].part \in Nat
    <2>1. \A j \in DOMAIN bs[i].arguments : bs[i].arguments[j] \in Stream!Piece
      BY <1>2
    <2>2. QED
      BY <2>1 DEF Stream!Piece
  <1>4. OfCall(c, bs[i], dm[c])
    BY <1>1, <1>3 DEF OfCall
  <1>5. QED
    BY <1>1, <1>4

\* The end of the lines: what is there of calls that have come is all of them.
LEMMA WholeFlushes ==
    ASSUME Stream!TypeOK, Stream!Whole, spoken = words, AllThere(buffers, came),
           Owned(buffers, came), dispatched = <<>>, sentIds = {}, phase # "ended"
    PROVE  Flushing
  <1>1. \A c \in Stream!Calls : buffers[IndexOf(c)] = Filled(c, plan.calls[c].pieces)
    BY DEF AllThere, Stream!Whole
  <1>2. QED
    BY <1>1 DEF Flushing, Stream!Whole, Stream!InOrder

LEMMA ChunkStep ==
    ASSUME StreamInv, Stream!Chunk
    PROVE  StreamInv'
  <1>1. PICK thinks \in {0, 1}, says \in {0, 1}, deltas \in Stream!Deltas :
          /\ words' = words + says
          /\ came' = Counted(deltas)
          /\ spoken' = IF thinks # 1 /\ says = 1 THEN spoken + 1 ELSE spoken
          /\ buffers' = IF thinks # 1 /\ says # 1 THEN Stream!Accumulated(deltas) ELSE buffers
          /\ phase' = phase \/ (phase' = "flushing" /\ (incomplete' \/ Stream!Whole'))
          /\ ~incomplete' => /\ ~incomplete
                             /\ (thinks = 1 \/ says = 1) => deltas = <<>>
                             /\ thinks = 1 => says = 0
                             /\ phase' = "flushing" => Stream!Whole'
    BY DEF Stream!Chunk, Counted
  <1>2. /\ plan' = plan /\ phase = "reading" /\ phase' \in {"reading", "flushing"}
        /\ UNCHANGED <<sentIds, dispatched>> /\ dispatched = <<>> /\ sentIds = {}
    BY DEF Stream!Chunk, StreamInv
  <1>3. Stream!TypeOK /\ Stream!TypeOK'
    BY ChunkTypes DEF StreamInv
  <1>4. IdsOnce'
    BY <1>2 DEF IdsOnce
  <1>5. ASSUME Stream!Distinct PROVE Owned(buffers', came')
    <2>1. Owned(buffers, came)
      BY <1>5 DEF StreamInv
    <2>2. CASE buffers' = Stream!Accumulated(deltas)
      BY <1>1, <1>3, <1>5, <2>1, <2>2, AccumulatedHolds
    <2>3. CASE buffers' = buffers
      <3>1. \A c \in Stream!Calls : came[c] \in Nat /\ came'[c] \in Nat /\ came[c] <= came'[c]
        BY <1>1, <1>3 DEF Counted, Stream!TypeOK
      <3>2. buffers \in [Stream!Indexes -> Stream!Buffer \cup {None}]
        BY <1>3 DEF Stream!TypeOK
      <3>3. QED
        BY <1>3, <2>1, <2>3, <3>1, <3>2, OwnedGrows
    <2>4. QED
      BY <1>1, <2>2, <2>3
  <1>6. ASSUME Stream!Distinct, ~incomplete'
        PROVE  AllThere(buffers', came') /\ spoken' = words'
    <2>1. AllThere(buffers, came) /\ spoken = words
      BY <1>1, <1>2, <1>6 DEF StreamInv
    <2>2. spoken' = words'
      BY <1>1, <1>6, <2>1
    <2>3. CASE thinks # 1 /\ says # 1
      BY <1>1, <1>3, <1>6, <2>1, <2>2, <2>3, AccumulatedHolds
    <2>4. CASE thinks = 1 \/ says = 1
      <3>1. deltas = <<>> /\ buffers' = buffers
        BY <1>1, <1>6, <2>4
      <3>2. Stream!ToSet(deltas) = {}
        BY <3>1 DEF Stream!ToSet
      <3>3. came' = came
        BY <1>1, <1>3, <3>2 DEF Counted, Stream!TypeOK
      <3>4. QED
        BY <2>1, <2>2, <3>1, <3>3
    <2>5. QED
      BY <2>3, <2>4
  <1>7. ASSUME Stream!Distinct, ~incomplete', phase' # "reading"
        PROVE  Flushing'
    <2>1. Stream!Whole'
      BY <1>1, <1>2, <1>7
    <2>2. Owned(buffers, came)' /\ AllThere(buffers, came)'
      BY <1>2, <1>5, <1>6, <1>7, NextParts
    <2>3. (spoken = words)'
      BY <1>6, <1>7
    <2>4. (dispatched = <<>> /\ sentIds = {} /\ phase # "ended")'
      BY <1>2, <1>7
    <2>5. QED
      BY <1>3, <2>1, <2>2, <2>3, <2>4, WholeFlushes, PTL
  <1>8. QED
    BY <1>2, <1>3, <1>4, <1>5, <1>6, <1>7, NextParts DEF StreamInv

LEMMA MadeOnce ==
    ASSUME Stream!TypeOK, NEW c \in Stream!Calls, NEW d \in Stream!Calls,
           Stream!Made(c) = Stream!Made(d)
    PROVE  c = d
  <1>1. plan.calls[c].pieces \in Nat \ {0} /\ plan.calls[d].pieces \in Nat \ {0}
    BY PlanFacts
  <1>2. Stream!Made(c).arguments[1].call = c /\ Stream!Made(d).arguments[1].call = d
    BY <1>1 DEF Stream!Made
  <1>3. QED
    BY <1>2

LEMMA LeftFirst ==
    ASSUME Stream!TypeOK, Stream!Left # {}
    PROVE  LET i == Stream!Min(Stream!Left) IN
           i \in Stream!Left /\ i \in Stream!Indexes /\ \A j \in Stream!Left : i <= j
  <1>1. Stream!Left \in SUBSET Nat /\ Stream!Left \subseteq Stream!Indexes
    BY PlanFacts DEF Stream!Left
  <1>2. \E i \in Stream!Left : \A j \in Stream!Left : i <= j
    BY <1>1, LeastNat
  <1>3. QED
    BY <1>1, <1>2 DEF Stream!Min

\* One buffer is flushed: the first one left, dispatched or passed over.
FlushesOne(i, from) ==
    /\ i \in Stream!Left /\ i \in Stream!Indexes /\ \A j \in Stream!Left : i <= j
    /\ from = buffers[i] /\ from \in Stream!Buffer
    /\ buffers' = [buffers EXCEPT ![i] = None]
    /\ UNCHANGED <<plan, server, words, thoughts, came, spoken, phase, incomplete>>
    /\ \/ /\ from.named /\ from.id \notin sentIds
          /\ dispatched' = Append(dispatched, [id |-> from.id, arguments |-> from.arguments])
          /\ sentIds' = sentIds \cup ({from.id} \ {None})
       \/ /\ ~(from.named /\ from.id \notin sentIds)
          /\ dispatched' = dispatched /\ sentIds' = sentIds

LEMMA FlushIs ==
    ASSUME Stream!TypeOK, Stream!FlushCall
    PROVE  \E i, from : FlushesOne(i, from)
  <1>1. PICK i : i = Stream!Min(Stream!Left)
    OBVIOUS
  <1>2. i \in Stream!Left /\ i \in Stream!Indexes /\ \A j \in Stream!Left : i <= j
    BY <1>1, LeftFirst DEF Stream!FlushCall
  <1>3. buffers[i] \in Stream!Buffer
    BY <1>2 DEF Stream!Left, Stream!TypeOK
  <1>4. FlushesOne(i, buffers[i])
    BY <1>1, <1>2, <1>3 DEF FlushesOne, Stream!FlushCall, Stream!Dispatches
  <1>5. QED
    BY <1>4

\* What a dispatch adds.
Sending(from) == [id |-> from.id, arguments |-> from.arguments]

LEMMA SendingIs ==
    ASSUME Stream!TypeOK, NEW i, NEW from, FlushesOne(i, from), dispatched' # dispatched
    PROVE  /\ Len(dispatched) \in Nat /\ DOMAIN dispatched = 1 .. Len(dispatched)
           /\ DOMAIN dispatched' = 1 .. Len(dispatched) + 1
           /\ \A k \in DOMAIN dispatched : dispatched'[k] = dispatched[k]
           /\ dispatched'[Len(dispatched) + 1] = Sending(from)
           /\ dispatched' \in Seq([id : Ids \cup {None}, arguments : Seq(Stream!Piece)])
           /\ from.named /\ from.id \notin sentIds
           /\ sentIds' = sentIds \cup ({from.id} \ {None})
  <1> DEFINE Frame == [id : Ids \cup {None}, arguments : Seq(Stream!Piece)]
  <1>1. dispatched \in Seq(Frame)
    BY DEF Stream!TypeOK
  <1>2. Sending(from) \in Frame
    BY DEF FlushesOne, Stream!Buffer, Sending
  <1>3. /\ dispatched' = Append(dispatched, Sending(from))
        /\ from.named /\ from.id \notin sentIds
        /\ sentIds' = sentIds \cup ({from.id} \ {None})
    BY DEF FlushesOne, Sending
  <1> HIDE DEF Frame
  <1>4. /\ Append(dispatched, Sending(from)) \in Seq(Frame)
        /\ DOMAIN Append(dispatched, Sending(from)) = 1 .. Len(dispatched) + 1
        /\ \A k \in DOMAIN dispatched : Append(dispatched, Sending(from))[k] = dispatched[k]
        /\ Append(dispatched, Sending(from))[Len(dispatched) + 1] = Sending(from)
    BY <1>1, <1>2, AppendIs
  <1>5. Len(dispatched) \in Nat /\ DOMAIN dispatched = 1 .. Len(dispatched)
    BY <1>1
  <1>6. QED
    BY <1>3, <1>4, <1>5, Zenon DEF Frame

LEMMA FlushTypes ==
    ASSUME Stream!TypeOK, IdsOnce, NEW i, NEW from, FlushesOne(i, from)
    PROVE  Stream!TypeOK' /\ IdsOnce'
  <1>1. /\ plan' = plan /\ Stream!Calls' = Stream!Calls
        /\ UNCHANGED <<server, words, thoughts, came, spoken, phase, incomplete>>
    BY DEF FlushesOne, Stream!Calls
  <1>2. buffers' \in [Stream!Indexes -> Stream!Buffer \cup {None}]
    BY DEF FlushesOne, Stream!TypeOK
  <1>3. from.id \in Ids \cup {None}
    BY DEF FlushesOne, Stream!Buffer
  <1>4. CASE dispatched' = dispatched
    <2>1. sentIds' = sentIds \/ (from.named /\ from.id \notin sentIds)
      BY DEF FlushesOne
    <2>2. ~ (from.named /\ from.id \notin sentIds)
      <3> SUFFICES ASSUME from.named /\ from.id \notin sentIds PROVE FALSE
        OBVIOUS
      <3>1. dispatched' = Append(dispatched, [id |-> from.id, arguments |-> from.arguments])
        BY DEF FlushesOne
      <3>2. Len(dispatched') = Len(dispatched) + 1 /\ Len(dispatched) \in Nat
        BY <3>1 DEF Stream!TypeOK
      <3>3. QED
        BY <1>4, <3>2
    <2>3. sentIds' = sentIds
      BY <2>1, <2>2
    <2>4. Stream!TypeOK'
      BY <1>1, <1>2, <1>4, <2>3 DEF Stream!TypeOK
    <2>5. IdsOnce'
      BY <1>4, <2>3 DEF IdsOnce
    <2>6. QED
      BY <2>4, <2>5
  <1>5. CASE dispatched' # dispatched
    <2> DEFINE n == Len(dispatched)
    <2>1. /\ n \in Nat /\ DOMAIN dispatched = 1 .. n /\ DOMAIN dispatched' = 1 .. n + 1
          /\ \A k \in DOMAIN dispatched : dispatched'[k] = dispatched[k]
          /\ dispatched'[n + 1].id = from.id
          /\ dispatched' \in Seq([id : Ids \cup {None}, arguments : Seq(Stream!Piece)])
          /\ from.id \notin sentIds /\ sentIds' = sentIds \cup ({from.id} \ {None})
      <3>1. Sending(from).id = from.id
        BY DEF Sending
      <3>2. QED
        BY <1>5, <3>1, SendingIs
    <2>2. Stream!TypeOK'
      <3>1. sentIds' \subseteq Ids
        BY <1>3, <2>1 DEF Stream!TypeOK
      <3>2. QED
        BY <1>1, <1>2, <2>1, <3>1 DEF Stream!TypeOK
    <2> HIDE DEF n
    <2>3. \A k \in 1 .. n + 1 : k \in 1 .. n \/ k = n + 1
      BY <2>1
    <2>4. \A k \in DOMAIN dispatched' :
            dispatched'[k].id # None => dispatched'[k].id \in sentIds'
      BY <2>1, <2>3 DEF IdsOnce
    <2>5. \A k \in 1 .. n : dispatched'[k].id # from.id \/ from.id = None
      BY <2>1 DEF IdsOnce
    <2>6. ASSUME NEW j \in 1 .. n + 1, NEW k \in 1 .. n + 1, j # k
          PROVE  dispatched'[j].id # dispatched'[k].id \/ dispatched'[j].id = None
      BY <2>1, <2>3, <2>5, <2>6 DEF IdsOnce
    <2>7. QED
      BY <2>1, <2>2, <2>4, <2>6 DEF IdsOnce
  <1>6. QED
    BY <1>4, <1>5

LEMMA FlushKeeps ==
    ASSUME StreamInv, NEW i, NEW from, FlushesOne(i, from), Stream!Distinct
    PROVE  /\ Owned(buffers', came')
           /\ \A k \in DOMAIN dispatched' : \E c \in Stream!Calls : Stream!MadeOf(c, dispatched'[k])
  <1>1. Stream!TypeOK /\ Owned(buffers, came)
    BY DEF StreamInv
  <1>2. Owned(buffers', came')
    <2>1. /\ came' = came
          /\ \A j \in Stream!Indexes : buffers'[j] # None => buffers'[j] = buffers[j]
      BY <1>1 DEF FlushesOne, Stream!TypeOK
    <2>2. QED
      BY <1>1, <2>1 DEF Owned
  <1>3. CASE dispatched' = dispatched
    BY <1>2, <1>3 DEF StreamInv
  <1>4. CASE dispatched' # dispatched
    <2>1. PICK c \in Stream!Calls : OfCall(c, from, came[c])
      <3>1. i \in Stream!Indexes /\ buffers[i] # None /\ from = buffers[i]
        BY DEF FlushesOne, Stream!Left
      <3>2. QED
        BY <1>1, <3>1 DEF Owned
    <2>2. /\ DOMAIN dispatched = 1 .. Len(dispatched) /\ from.named
          /\ DOMAIN dispatched' = 1 .. Len(dispatched) + 1
          /\ \A k \in DOMAIN dispatched : dispatched'[k] = dispatched[k]
          /\ dispatched'[Len(dispatched) + 1] = Sending(from) /\ Len(dispatched) \in Nat
      BY <1>1, <1>4, SendingIs
    <2>3. Stream!MadeOf(c, Sending(from))
      BY <2>1, <2>2 DEF Stream!MadeOf, Sending, OfCall
    <2>4. \A k \in DOMAIN dispatched' : k \in DOMAIN dispatched \/ k = Len(dispatched) + 1
      BY <2>2
    <2>5. \A k \in DOMAIN dispatched : \E d \in Stream!Calls : Stream!MadeOf(d, dispatched[k])
      BY DEF StreamInv
    <2>6. QED
      BY <1>2, <2>2, <2>3, <2>4, <2>5
  <1>5. QED
    BY <1>3, <1>4

\* Where nothing is lost, what is flushed is the first call left, whole.
LEMMA FlushSends ==
    ASSUME StreamInv, NEW i, NEW from, FlushesOne(i, from), Stream!Distinct, Flushing
    PROVE  \E c \in Stream!Calls :
             /\ IndexOf(c) = i /\ ~Sent(c)
             /\ dispatched' # dispatched /\ Sending(from) = Stream!Made(c)
  <1>1. Stream!TypeOK /\ Owned(buffers, came)
    BY DEF StreamInv
  <1>2. i \in Stream!Left /\ i \in Stream!Indexes /\ buffers[i] # None /\ from = buffers[i]
    BY DEF FlushesOne, Stream!Left
  <1>3. PICK c \in Stream!Calls : IndexOf(c) = i
    BY <1>1, <1>2 DEF Owned
  <1>4. from = Filled(c, plan.calls[c].pieces) /\ plan.calls[c].pieces \in Nat \ {0}
    BY <1>1, <1>2, <1>3, PlanFacts DEF Flushing
  <1>5. /\ from = [id |-> plan.calls[c].id, named |-> TRUE, arguments |->
                    [p \in 1 .. plan.calls[c].pieces |-> [call |-> c, part |-> p]]]
    BY <1>4 DEF Filled
  <1>6. Sending(from) = Stream!Made(c) /\ from.named /\ from.id = plan.calls[c].id
    BY <1>5 DEF Sending, Stream!Made
  <1>7. ~Sent(c)
    <2> SUFFICES ASSUME NEW k \in DOMAIN dispatched, dispatched[k] = Stream!Made(c) PROVE FALSE
      BY DEF Sent
    <2>1. PICK d \in Stream!Calls : /\ dispatched[k] = Stream!Made(d)
                                    /\ \A j \in Stream!Left : IndexOf(d) < j
      BY DEF Flushing
    <2>2. d = c
      BY <1>1, <2>1, MadeOnce
    <2>3. QED
      BY <1>1, <1>2, <1>3, <2>1, <2>2, PlanFacts
  <1>8. from.id \notin sentIds
    <2> SUFFICES ASSUME from.id \in sentIds PROVE FALSE
      OBVIOUS
    <2>1. PICK d \in Stream!Calls : plan.calls[d].id = from.id /\ Sent(d)
      BY DEF Flushing
    <2>2. from.id # None
      BY <1>1, PathAssumption DEF Stream!TypeOK
    <2>3. d # c
      BY <1>7, <2>1
    <2>4. QED
      BY <1>6, <2>1, <2>2, <2>3 DEF Stream!Distinct
  <1>9. dispatched' # dispatched
    <2>1. dispatched' = Append(dispatched, Sending(from))
      BY <1>6, <1>8 DEF FlushesOne, Sending
    <2>2. Len(dispatched') = Len(dispatched) + 1 /\ Len(dispatched) \in Nat
      BY <1>1, <2>1 DEF Stream!TypeOK
    <2>3. QED
      BY <2>2
  <1>10. QED
    BY <1>3, <1>6, <1>7, <1>9

LEMMA FlushGoesOn ==
    ASSUME StreamInv, NEW i, NEW from, FlushesOne(i, from), Stream!Distinct, Flushing,
           phase # "ended"
    PROVE  Flushing'
  <1>1. Stream!TypeOK
    BY DEF StreamInv
  <1>2. PICK c \in Stream!Calls :
          /\ IndexOf(c) = i /\ ~Sent(c)
          /\ dispatched' # dispatched /\ Sending(from) = Stream!Made(c)
    BY FlushSends
  <1> DEFINE n == Len(dispatched)
  <1>3. /\ DOMAIN dispatched = 1 .. n /\ DOMAIN dispatched' = 1 .. n + 1 /\ n \in Nat
        /\ \A k \in DOMAIN dispatched : dispatched'[k] = dispatched[k]
        /\ dispatched'[n + 1] = Stream!Made(c)
        /\ sentIds' = sentIds \cup ({from.id} \ {None})
    BY <1>1, <1>2, SendingIs
  <1> HIDE DEF n
  <1>4. /\ plan' = plan /\ Stream!Calls' = Stream!Calls
        /\ UNCHANGED <<words, thoughts, came, spoken, phase>>
        /\ buffers' = [buffers EXCEPT ![i] = None]
        /\ i \in Stream!Left /\ i \in Stream!Indexes /\ \A j \in Stream!Left : i <= j
        /\ from.id = plan.calls[c].id
        /\ buffers \in [Stream!Indexes -> Stream!Buffer \cup {None}]
    <2>1. Sending(from).id = from.id /\ Stream!Made(c).id = plan.calls[c].id
      BY DEF Sending, Stream!Made
    <2>2. QED
      BY <1>1, <1>2, <2>1 DEF FlushesOne, Stream!Calls, Stream!TypeOK
  <1> DEFINE SentNow(d) == \E k \in DOMAIN dispatched' : dispatched'[k] = Stream!Made(d)
  <1>5. SentNow(c) /\ \A d \in Stream!Calls : Sent(d) => SentNow(d)
    <2>1. n + 1 \in DOMAIN dispatched' /\ DOMAIN dispatched \subseteq DOMAIN dispatched'
      BY <1>3
    <2>2. QED
      BY <1>3, <2>1, Zenon DEF Sent
  <1>6. \A k \in DOMAIN dispatched' : k \in DOMAIN dispatched \/ k = n + 1
    BY <1>3
  <1>7. \A d \in Stream!Calls : \/ buffers'[IndexOf(d)] = Filled(d, plan.calls[d].pieces)
                                \/ buffers'[IndexOf(d)] = None /\ SentNow(d)
    <2> SUFFICES ASSUME NEW d \in Stream!Calls
                 PROVE  \/ buffers'[IndexOf(d)] = Filled(d, plan.calls[d].pieces)
                        \/ buffers'[IndexOf(d)] = None /\ SentNow(d)
      OBVIOUS
    <2> HIDE DEF SentNow
    <2>1. CASE d = c
      BY <1>2, <1>4, <1>5, <2>1
    <2>2. CASE d # c
      <3>1. IndexOf(d) # i
        BY <1>2, <2>2 DEF Stream!Distinct, IndexOf
      <3>2. buffers'[IndexOf(d)] = buffers[IndexOf(d)]
        BY <1>4, <3>1
      <3>3. QED
        BY <1>5, <3>2 DEF Flushing
    <2>3. QED
      BY <2>1, <2>2
  <1>8. Stream!Left' = Stream!Left \ {i}
    BY <1>4 DEF Stream!Left, Stream!Indexes
  <1>9. \A j \in Stream!Left : j \in Nat
    BY <1>1, PlanFacts DEF Stream!Left
  <1>10. \A k \in DOMAIN dispatched' : \E d \in Stream!Calls :
           dispatched'[k] = Stream!Made(d) /\ \A j \in Stream!Left' : IndexOf(d) < j
    <2>1. \A j \in Stream!Left' : IndexOf(c) < j
      BY <1>2, <1>4, <1>8, <1>9
    <2>2. ASSUME NEW k \in DOMAIN dispatched
          PROVE  \E d \in Stream!Calls :
                   dispatched'[k] = Stream!Made(d) /\ \A j \in Stream!Left' : IndexOf(d) < j
      BY <1>3, <1>8 DEF Flushing
    <2>3. QED
      BY <1>3, <1>6, <2>1, <2>2
  <1>11. ASSUME NEW j \in DOMAIN dispatched', NEW k \in DOMAIN dispatched',
                NEW d \in Stream!Calls, NEW e \in Stream!Calls, j < k,
                dispatched'[j] = Stream!Made(d), dispatched'[k] = Stream!Made(e)
         PROVE  IndexOf(d) < IndexOf(e)
    <2>1. j \in DOMAIN dispatched /\ dispatched[j] = Stream!Made(d)
      BY <1>3, <1>11
    <2>2. CASE k \in DOMAIN dispatched
      <3>1. dispatched[k] = Stream!Made(e)
        BY <1>3, <1>11, <2>2
      <3>2. QED
        BY <1>11, <2>1, <2>2, <3>1 DEF Flushing, Stream!InOrder, IndexOf
    <2>3. CASE k = n + 1
      <3>1. e = c
        BY <1>1, <1>3, <1>11, <2>3, MadeOnce
      <3>2. PICK g \in Stream!Calls : /\ dispatched[j] = Stream!Made(g)
                                      /\ \A h \in Stream!Left : IndexOf(g) < h
        BY <2>1 DEF Flushing
      <3>3. g = d
        BY <1>1, <2>1, <3>2, MadeOnce
      <3>4. QED
        BY <1>2, <1>4, <3>1, <3>2, <3>3
    <2>4. QED
      BY <1>6, <2>2, <2>3
  <1>12. \A s \in sentIds' : \E d \in Stream!Calls : plan.calls[d].id = s /\ SentNow(d)
    <2> SUFFICES ASSUME NEW s \in sentIds'
                 PROVE  \E d \in Stream!Calls : plan.calls[d].id = s /\ SentNow(d)
      OBVIOUS
    <2> HIDE DEF SentNow
    <2>1. CASE s \in sentIds
      BY <1>5, <2>1 DEF Flushing
    <2>2. CASE s = from.id
      BY <1>4, <1>5, <2>2
    <2>3. QED
      BY <1>3, <2>1, <2>2
  <1>13. (Stream!Whole /\ spoken = plan.words)'
    BY <1>4 DEF Flushing, Stream!Whole, Stream!Calls
  <1>14. /\ \A d : IndexOf(d)' = IndexOf(d) /\ Stream!Made(d)' = Stream!Made(d)
         /\ \A d : Sent(d)' <=> SentNow(d)
    BY <1>4 DEF IndexOf, Stream!Made, Sent
  <1> HIDE DEF SentNow
  <1>15. Stream!InOrder'
    BY <1>4, <1>11 DEF Stream!InOrder, Stream!Made, IndexOf
  <1>16. phase' # "ended"
    BY <1>4
  <1>17. \A d \in Stream!Calls' : \/ (buffers[IndexOf(d)] = Filled(d, plan.calls[d].pieces))'
                                  \/ (buffers[IndexOf(d)] = None)' /\ Sent(d)'
    BY <1>4, <1>7, <1>14 DEF Filled, IndexOf
  <1>18. QED
    BY <1>4, <1>10, <1>12, <1>13, <1>14, <1>15, <1>16, <1>17 DEF Flushing

LEMMA FlushStep ==
    ASSUME StreamInv, Stream!FlushCall
    PROVE  StreamInv'
  <1>1. PICK i, from : FlushesOne(i, from)
    BY FlushIs DEF StreamInv
  <1>2. phase = "flushing" /\ phase' = phase /\ incomplete' = incomplete /\ plan' = plan
    BY DEF Stream!FlushCall
  <1>3. Stream!TypeOK' /\ IdsOnce'
    BY <1>1, FlushTypes DEF StreamInv
  <1>4. Stream!Distinct =>
          /\ Owned(buffers', came')
          /\ \A k \in DOMAIN dispatched' :
               \E c \in Stream!Calls : Stream!MadeOf(c, dispatched'[k])
    BY <1>1, FlushKeeps
  <1>5. ASSUME Stream!Distinct, ~incomplete PROVE Flushing'
    <2>1. Flushing
      BY <1>2, <1>5 DEF StreamInv
    <2>2. QED
      BY <1>1, <1>2, <1>5, <2>1, FlushGoesOn
  <1>6. Stream!Distinct' = Stream!Distinct
    BY <1>2, NextParts
  <1>7. Stream!Distinct => Owned(buffers, came)'
    BY <1>2, <1>4, NextParts
  <1>8. Stream!Distinct =>
          (\A k \in DOMAIN dispatched : \E c \in Stream!Calls : Stream!MadeOf(c, dispatched[k]))'
    BY <1>2, <1>4 DEF Stream!Calls, Stream!MadeOf
  <1>9. QED
    BY <1>2, <1>3, <1>5, <1>6, <1>7, <1>8 DEF StreamInv

LEMMA StreamStep == ASSUME StreamInv, [Stream!Next]_(Stream!streamVars) PROVE StreamInv'
  <1> DEFINE Same == UNCHANGED <<plan, server, words, thoughts, came, buffers, spoken,
                                 sentIds, dispatched>>
  <1>1. CASE Stream!Chunk
    BY <1>1, ChunkStep
  <1>2. CASE Stream!FlushCall
    BY <1>2, FlushStep
  <1>3. ASSUME Same PROVE /\ IdsOnce' /\ Stream!Distinct' = Stream!Distinct
                          /\ (Owned(buffers, came) => Owned(buffers, came)')
                          /\ (AllThere(buffers, came) => AllThere(buffers, came)')
                          /\ (\A k \in DOMAIN dispatched :
                                \E c \in Stream!Calls : Stream!MadeOf(c, dispatched[k]))
                             => (\A k \in DOMAIN dispatched :
                                   \E c \in Stream!Calls : Stream!MadeOf(c, dispatched[k]))'
    <2>1. plan' = plan /\ buffers' = buffers /\ came' = came
          /\ dispatched' = dispatched /\ sentIds' = sentIds
      BY <1>3
    <2>2. IdsOnce'
      BY <2>1 DEF StreamInv, IdsOnce
    <2>3. QED
      BY <2>1, <2>2, NextParts DEF Stream!Calls, Stream!MadeOf
  <1>4. CASE Stream!BadLine \/ Stream!StreamBreaks
    <2>1. Same /\ phase' = "failed" /\ incomplete' = incomplete
      BY <1>4 DEF Stream!BadLine, Stream!StreamBreaks
    <2>2. Stream!TypeOK'
      BY <2>1 DEF StreamInv, Stream!TypeOK, Stream!Calls
    <2> HIDE DEF Same
    <2>3. QED
      BY <1>3, <2>1, <2>2 DEF StreamInv
  <1>5. CASE Stream!StreamEnds
    <2>1. Same /\ phase = "reading" /\ phase' = "flushing"
          /\ (~incomplete' => ~incomplete /\ Stream!Whole)
      BY <1>5 DEF Stream!StreamEnds
    <2>2. incomplete' \in BOOLEAN
      BY <1>5, Zenon DEF Stream!StreamEnds
    <2>3. Stream!TypeOK'
      BY <2>1, <2>2 DEF StreamInv, Stream!TypeOK, Stream!Calls
    <2>4. ASSUME Stream!Distinct, ~incomplete' PROVE Flushing'
      <3>1. /\ spoken' = words' /\ dispatched' = <<>> /\ sentIds' = {}
            /\ AllThere(buffers, came) /\ Owned(buffers, came)
        BY <2>1, <2>4 DEF StreamInv
      <3>2. Stream!Whole'
        BY <2>1, <2>4 DEF Stream!Whole, Stream!Calls
      <3>3. (/\ Stream!TypeOK /\ Stream!Whole /\ spoken = words /\ AllThere(buffers, came)
             /\ Owned(buffers, came) /\ dispatched = <<>> /\ sentIds = {} /\ phase # "ended")'
        BY <1>3, <2>1, <2>3, <3>1, <3>2
      <3>4. QED
        BY <3>3, WholeFlushes, PTL
    <2> HIDE DEF Same
    <2>5. QED
      BY <1>3, <2>1, <2>3, <2>4 DEF StreamInv
  <1>6. CASE Stream!Flushed \/ UNCHANGED Stream!streamVars
    <2>1. /\ Same /\ incomplete' = incomplete
          /\ \/ phase = "flushing" /\ phase' = "ended" /\ Stream!Left = {}
             \/ phase' = phase
      BY <1>6 DEF Stream!Flushed, Stream!streamVars
    <2>2. Stream!TypeOK'
      BY <2>1 DEF StreamInv, Stream!TypeOK, Stream!Calls
    <2>3. ASSUME Stream!Distinct, phase' \in {"flushing", "ended"}, ~incomplete' PROVE Flushing'
      <3>1. Flushing
        BY <2>1, <2>3 DEF StreamInv
      <3>2. phase' = "ended" => Stream!Left' = {}
        BY <2>1, <3>1 DEF Flushing, Stream!Left, Stream!Indexes
      <3>3. \A c : Sent(c)' = Sent(c) /\ IndexOf(c)' = IndexOf(c)
                   /\ Stream!Made(c)' = Stream!Made(c)
        BY <2>1, Zenon DEF Sent, Stream!Made, IndexOf
      <3>4. Stream!Left' = Stream!Left /\ Stream!Calls' = Stream!Calls
        BY <2>1 DEF Stream!Left, Stream!Indexes, Stream!Calls
      <3>5. Stream!InOrder' /\ (Stream!Whole /\ spoken = plan.words)'
        BY <2>1, <3>1 DEF Flushing, Stream!InOrder, Stream!Made, Stream!Calls, Stream!Whole
      <3>6. \A c \in Stream!Calls' :
              \/ (buffers[IndexOf(c)] = Filled(c, plan.calls[c].pieces))'
              \/ (buffers[IndexOf(c)] = None)' /\ Sent(c)'
        BY <2>1, <3>1, <3>3, <3>4 DEF Flushing, Filled, IndexOf
      <3>7. QED
        BY <2>1, <3>1, <3>2, <3>3, <3>4, <3>5, <3>6 DEF Flushing
    <2>4. ASSUME phase' = "reading"
          PROVE  /\ dispatched' = <<>> /\ sentIds' = {}
                 /\ Stream!Distinct /\ ~incomplete' =>
                      AllThere(buffers, came) /\ spoken' = words'
      BY <2>1, <2>4 DEF StreamInv
    <2> HIDE DEF Same
    <2>5. QED
      BY <1>3, <2>1, <2>2, <2>3, <2>4 DEF StreamInv
  <1>7. QED
    BY <1>1, <1>2, <1>4, <1>5, <1>6 DEF Stream!Next, Stream!Over

LEMMA StreamHolds == PathSpec => []StreamInv
  <1>1. PathInit => StreamInv
    BY StreamInit DEF PathInit, Stream!Init
  <1>2. [PathNext]_pathVars => [Stream!Next]_(Stream!streamVars)
    BY DEF PathNext, pathVars, streamVars, Stream!streamVars
  <1>3. StreamInv /\ [PathNext]_pathVars => StreamInv'
    BY <1>2, StreamStep
  <1>4. QED
    BY <1>1, <1>3, PTL DEF PathSpec

\* full_duplex_llm_processor.py:932-1007: however a model cuts and interleaves
\* its calls, what is dispatched for one has its pieces in order and no other's,
\* and no id twice; and all of them, once, whole and in order, when the stream
\* comes to its end and nothing is lost.
THEOREM DeltasMakeCalls == PathSpec => []Stream!CallsAreWhole
  <1>1. StreamInv => Stream!CallsAreWhole
    <2> SUFFICES ASSUME StreamInv PROVE Stream!CallsAreWhole
      OBVIOUS
    <2>1. ASSUME Stream!Distinct, phase = "ended", ~incomplete
          PROVE  /\ spoken = plan.words /\ Stream!InOrder
                 /\ \A c \in Stream!Calls : Sent(c)
                 /\ \A k \in DOMAIN dispatched :
                      \E c \in Stream!Calls : dispatched[k] = Stream!Made(c)
      <3>1. Flushing
        BY <2>1 DEF StreamInv
      <3>2. ASSUME NEW c \in Stream!Calls PROVE Sent(c)
        <4>1. buffers[IndexOf(c)] = None
          BY <2>1, <3>1, PlanFacts DEF StreamInv, Flushing, Stream!Left
        <4>2. plan.calls[c].pieces \in Nat \ {0} /\ plan.calls[c].id \in Ids \cup {None}
              /\ c \in Nat
          BY PlanFacts DEF StreamInv
        <4>3. Filled(c, plan.calls[c].pieces) # None
          <5> DEFINE pieces == [p \in 1 .. plan.calls[c].pieces |-> [call |-> c, part |-> p]]
          <5>1. pieces \in Seq(Stream!Piece)
            <6>1. \A p \in 1 .. plan.calls[c].pieces : [call |-> c, part |-> p] \in Stream!Piece
              BY <4>2 DEF Stream!Piece
            <6>2. pieces \in [1 .. plan.calls[c].pieces -> Stream!Piece]
              BY <6>1
            <6> HIDE DEF pieces
            <6>3. QED
              BY <4>2, <6>2
          <5> HIDE DEF pieces
          <5>2. [id |-> plan.calls[c].id, named |-> TRUE, arguments |-> pieces] \in Stream!Buffer
            BY <4>2, <5>1 DEF Stream!Buffer
          <5>3. QED
            BY <4>2, <5>2, PathAssumption DEF Filled, pieces
        <4>4. QED
          BY <3>1, <4>1, <4>3 DEF Flushing
      <3>3. QED
        BY <3>1, <3>2 DEF Flushing
    <2>2. QED
      BY <2>1 DEF StreamInv, IdsOnce, Stream!CallsAreWhole, Sent
  <1>2. QED
    BY <1>1, StreamHolds, PTL

-----------------------------------------------------------------------------
(* The extractor.                                                          *)

\* Pieces of a sequence.
LEMMA PiecesAre ==
    ASSUME NEW Q, NEW q \in Seq(Q)
    PROVE  /\ \A i \in 1 .. Len(q) + 1 : /\ Extractor!From(q, i) \in Seq(Q)
                                         /\ Len(Extractor!From(q, i)) = Len(q) - i + 1
           /\ \A n \in 0 .. Len(q) : /\ Extractor!Upto(q, n) \in Seq(Q)
                                     /\ Len(Extractor!Upto(q, n)) = n
  <1>1. Len(q) \in Nat /\ \A j \in 1 .. Len(q) : q[j] \in Q
    OBVIOUS
  <1>2. \A i \in 1 .. Len(q) + 1 : /\ Extractor!From(q, i) \in Seq(Q)
                                   /\ Len(Extractor!From(q, i)) = Len(q) - i + 1
    BY <1>1 DEF Extractor!From
  <1>3. \A n \in 0 .. Len(q) : /\ Extractor!Upto(q, n) \in Seq(Q)
                               /\ Len(Extractor!Upto(q, n)) = n
    BY <1>1 DEF Extractor!Upto
  <1>4. QED
    BY <1>2, <1>3

\* The recursive function of FlattenSeq: what each number of pieces makes.
LEMMA FlattenStages ==
    ASSUME NEW Q, NEW seqs \in Seq(Seq(Q)), Len(seqs) # 0
    PROVE  \E flat :
             /\ Extractor!FlattenSeq(seqs) = flat[Len(seqs)]
             /\ \A i \in 1 .. Len(seqs) :
                  /\ flat[i] \in Seq(Q)
                  /\ flat[i] = IF i = 1 THEN seqs[i] ELSE flat[i - 1] \o seqs[i]
  <1> DEFINE n == Len(seqs)
             Turn(sofar, i) == sofar \o seqs[i]
             Is(f, m) == f = [i \in 1 .. m |-> IF i = 1 THEN seqs[i] ELSE Turn(f[i - 1], i)]
             flat == CHOOSE flat : Is(flat, n)
  <1>1. n \in Nat /\ \A i \in 1 .. n : seqs[i] \in Seq(Q)
    OBVIOUS
  <1>2. Extractor!FlattenSeq(seqs) = flat[n]
    BY Zenon DEF Extractor!FlattenSeq
  <1> HIDE DEF Turn, flat, n
  <1>3. \A m \in Nat : \E f : Is(f, m)
    <2> DEFINE T == {m \in Nat : \E f : Is(f, m)}
    <2>1. 0 \in T
      <3>1. Is([i \in 1 .. 0 |-> <<>>], 0)
        OBVIOUS
      <3>2. QED
        BY <3>1
    <2>2. ASSUME NEW m \in T PROVE m + 1 \in T
      <3>1. PICK f : Is(f, m)
        OBVIOUS
      <3> DEFINE g == [i \in 1 .. m + 1 |->
                         IF i = m + 1 THEN IF m = 0 THEN seqs[1] ELSE Turn(f[m], m + 1)
                         ELSE f[i]]
      <3>2. m \in Nat /\ m + 1 \in Nat
        OBVIOUS
      <3>3. Is(g, m + 1)
        BY <3>1, <3>2
      <3> HIDE DEF g
      <3>4. QED
        BY <3>2, <3>3
    <2> HIDE DEF T
    <2>3. T \in SUBSET Nat
      BY DEF T
    <2>4. T = Nat
      BY <2>1, <2>2, <2>3, SetInduction
    <2>5. QED
      BY <2>4 DEF T
  <1>4. Is(flat, n)
    <2>1. \E f : Is(f, n)
      BY <1>1, <1>3
    <2> HIDE DEF Is
    <2>2. QED
      BY <2>1, Zenon DEF flat
  <1>5. \A i \in 1 .. n : flat[i] = IF i = 1 THEN seqs[i] ELSE Turn(flat[i - 1], i)
    BY <1>4
  <1> HIDE DEF Is
  <1>6. \A i \in 1 .. n : flat[i] \in Seq(Q)
    <2> DEFINE T == {m \in Nat : m + 1 <= n => flat[m + 1] \in Seq(Q)}
    <2>1. 0 \in T
      BY <1>1, <1>5
    <2>2. ASSUME NEW m \in T PROVE m + 1 \in T
      <3> SUFFICES ASSUME m + 2 <= n PROVE flat[m + 2] \in Seq(Q)
        OBVIOUS
      <3>1. m \in Nat /\ flat[m + 1] \in Seq(Q) /\ m + 2 \in 1 .. n /\ m + 2 # 1
            /\ (m + 2) - 1 = m + 1
        BY <1>1
      <3>2. flat[m + 2] = Turn(flat[m + 1], m + 2)
        BY <1>5, <3>1
      <3>3. QED
        BY <1>1, <3>1, <3>2 DEF Turn
    <2> HIDE DEF T
    <2>3. T = Nat
      <3>1. T \in SUBSET Nat
        BY DEF T
      <3>2. QED
        BY <2>1, <2>2, <3>1, SetInduction
    <2>4. \A i \in 1 .. n : i - 1 \in Nat /\ (i - 1) + 1 = i /\ i <= n
      BY <1>1
    <2>5. \A m \in Nat : m + 1 <= n => flat[m + 1] \in Seq(Q)
      BY <2>3 DEF T
    <2>6. QED
      BY <2>4, <2>5, Zenon
  <1>7. \A i \in 1 .. n : /\ flat[i] \in Seq(Q)
                          /\ flat[i] = IF i = 1 THEN seqs[i] ELSE flat[i - 1] \o seqs[i]
    BY <1>5, <1>6 DEF Turn
  <1>8. QED
    BY <1>2, <1>7, Zenon DEF n

LEMMA FlattenTypes ==
    ASSUME NEW Q, NEW seqs \in Seq(Seq(Q))
    PROVE  Extractor!FlattenSeq(seqs) \in Seq(Q)
  <1>1. CASE Len(seqs) = 0
    <2>1. Extractor!FlattenSeq(seqs) = seqs /\ seqs = <<>>
      BY <1>1 DEF Extractor!FlattenSeq
    <2>2. QED
      BY <2>1
  <1>2. CASE Len(seqs) # 0
    <2>1. Len(seqs) \in 1 .. Len(seqs)
      BY <1>2
    <2>2. QED
      BY <1>2, <2>1, FlattenStages
  <1>3. QED
    BY <1>1, <1>2

ExtractorInv ==
    /\ Extractor!TypeOK
    /\ mode = "drain" => buffer # <<>>
    \* the text of a call that has parsed parses no more, whatever comes
    /\ parsed = 1 => Len(toolText) >= 2

Symbols == Seq(Extractor!Symbol)

LEMMA TagsAre ==
    ASSUME NEW t \in Known
    PROVE  /\ t \in Extractor!Symbol /\ t \in Extractor!Key
           /\ Extractor!Open(t) \in Symbols /\ Len(Extractor!Open(t)) = 3
           /\ Len(Extractor!Close(t)) = 4 /\ Extractor!Close(t) \in Symbols
  <1>1. t \in Extractor!Symbol /\ t \in Extractor!Key
    BY PathAssumption DEF Extractor!Symbol, Extractor!Key, Extractor!TagAssumption
  <1>2. {"<", "/", ">"} \subseteq Extractor!Symbol
    BY DEF Extractor!Symbol, Extractor!Mark
  <1>3. QED
    BY <1>1, <1>2 DEF Extractor!Open, Extractor!Close, Symbols

LEMMA TextTypes ==
    ASSUME NEW a \in Answers
    PROVE  Extractor!Text(a) \in Symbols
  <1> DEFINE parts == [i \in DOMAIN a |-> Extractor!Written(a[i])]
  <1>1. a \in Seq(Extractor!Segment)
    BY PathAssumption DEF Extractor!TagAssumption
  <1>2. ASSUME NEW s \in Extractor!Segment PROVE Extractor!Written(s) \in Symbols
    <2>1. s.tag \in Known \cup {Outside, "orphan"} /\ s.body \in Symbols
      BY DEF Extractor!Segment, Extractor!Key, Symbols
    <2>2. CASE s.tag \in {Outside, "orphan"}
      BY <2>1, <2>2 DEF Extractor!Written
    <2>3. CASE s.tag \notin {Outside, "orphan"}
      <3>1. Extractor!Open(s.tag) \in Symbols /\ Extractor!Close(s.tag) \in Symbols
        BY <2>1, <2>3, TagsAre
      <3>2. (IF s.closed THEN Extractor!Close(s.tag) ELSE <<>>) \in Symbols
        BY <3>1 DEF Symbols
      <3>3. Extractor!Written(s) = Extractor!Open(s.tag) \o s.body
                                     \o (IF s.closed THEN Extractor!Close(s.tag) ELSE <<>>)
        BY <2>3 DEF Extractor!Written
      <3> HIDE DEF parts
      <3>4. QED
        BY <2>1, <3>1, <3>2, <3>3 DEF Symbols
    <2>4. QED
      BY <2>2, <2>3
  <1>3. /\ Len(a) \in Nat /\ DOMAIN a = 1 .. Len(a)
        /\ \A i \in 1 .. Len(a) : a[i] \in Extractor!Segment
    BY <1>1
  <1>4. parts \in Seq(Symbols)
    <2>1. parts \in [1 .. Len(a) -> Symbols]
      BY <1>2, <1>3
    <2> HIDE DEF parts
    <2>2. QED
      BY <1>3, <2>1
  <1>5. Extractor!Text(a) = Extractor!FlattenSeq(parts)
    BY DEF Extractor!Text
  <1> HIDE DEF parts
  <1>6. QED
    BY <1>4, <1>5, FlattenTypes DEF Symbols

\* What is passed on keeps the types of what has been passed on before.
Passed ==
    /\ toolText \in Symbols
    /\ said \in Seq([key : Extractor!Key, symbol : Extractor!Symbol])
    /\ parsed \in {0, 1} /\ (parsed = 1 => Len(toolText) >= 2)

LEMMA EmitTypes ==
    ASSUME Passed, NEW key \in Extractor!Key, NEW text \in Symbols, NEW complete,
           Extractor!Emit(key, text, complete)
    PROVE  Passed'
  <1>1. toolText' \in Symbols
    BY DEF Extractor!Emit, Passed, Symbols
  <1>2. said' \in Seq([key : Extractor!Key, symbol : Extractor!Symbol])
    <2> DEFINE Frame == [key : Extractor!Key, symbol : Extractor!Symbol]
    <2>1. /\ Len(text) \in Nat /\ DOMAIN text = 1 .. Len(text)
          /\ \A i \in 1 .. Len(text) : text[i] \in Extractor!Symbol
      BY DEF Symbols
    <2>2. \A i \in 1 .. Len(text) : [key |-> key, symbol |-> text[i]] \in Frame
      BY <2>1
    <2> HIDE DEF Frame
    <2>3. Extractor!Tagged(key, text) \in [1 .. Len(text) -> Frame]
      BY <2>1, <2>2 DEF Extractor!Tagged
    <2>4. Extractor!Tagged(key, text) \in Seq(Frame)
      BY <2>1, <2>3
    <2>5. said \in Seq(Frame)
      BY DEF Passed, Frame
    <2>6. said \o Extractor!Tagged(key, text) \in Seq(Frame)
      BY <2>4, <2>5
    <2>7. QED
      BY <2>6 DEF Extractor!Emit, Frame
  <1>3. CASE parsed' = parsed
    <2>1. Len(toolText') >= Len(toolText)
      BY DEF Extractor!Emit, Passed, Symbols
    <2>2. Len(toolText') \in Nat /\ Len(toolText) \in Nat
      BY <1>1 DEF Passed, Symbols
    <2>3. QED
      BY <1>1, <1>2, <1>3, <2>1, <2>2 DEF Passed
  <1>4. CASE parsed' # parsed
    <2>1. /\ parsed' = parsed + 1 /\ toolText' = toolText \o text /\ text # <<>>
          /\ toolText' = <<"{", "}">>
      BY <1>4 DEF Extractor!Emit, Extractor!Parses
    <2>2. Len(<<"{", "}">>) = 2
      OBVIOUS
    <2>3. Len(toolText') = 2
      BY <2>1, <2>2, Zenon
    <2>4. Len(toolText \o text) = Len(toolText) + Len(text) /\ Len(text) > 0
          /\ Len(toolText) \in Nat /\ Len(text) \in Nat
      BY <2>1, ConcatIs DEF Passed, Symbols
    <2>5. Len(toolText') = Len(toolText \o text)
      BY <2>1, Zenon
    <2>6. parsed \in {0, 1} /\ (parsed = 1 => Len(toolText) >= 2)
      BY DEF Passed
    <2>7. Len(toolText) < 2
      <3>1. \A m, n \in Nat : n > 0 /\ m + n = 2 => m < 2
        OBVIOUS
      <3>2. Len(toolText) + Len(text) = 2
        BY <2>3, <2>4, <2>5, Zenon
      <3>3. QED
        BY <2>4, <3>1, <3>2
    <2>8. parsed = 0
      <3>1. \A m \in Nat : m < 2 => ~ (m >= 2)
        OBVIOUS
      <3>2. QED
        BY <2>4, <2>6, <2>7, <3>1
    <2>9. parsed' = 1
      <3>1. parsed' = parsed + 1
        BY <2>1, Zenon
      <3>2. QED
        BY <2>8, <3>1
    <2>10. parsed' \in {0, 1} /\ Len(toolText') >= 2
      BY <2>3, <2>9
    <2>11. QED
      BY <1>1, <1>2, <2>10 DEF Passed
  <1>5. QED
    BY <1>3, <1>4

\* What is left of the buffer keeps the types of the buffer.
Left ==
    /\ answer \in Answers /\ rest \in Symbols /\ buffer \in Symbols
    /\ prev \in Extractor!Symbol \cup {""}
    /\ mode \in {"read", "drain", "ended"} /\ (mode = "drain" => buffer # <<>>)
    /\ cut \in BOOLEAN

LEMMA AdvanceTypes ==
    ASSUME Left, NEW left \in Symbols, NEW last \in Extractor!Symbol \cup {""},
           Extractor!Advance(left, last)
    PROVE  Left'
  <1>1. cut' \in BOOLEAN
    BY Zenon DEF Left, Extractor!Advance
  <1>2. QED
    BY <1>1 DEF Left, Extractor!Advance

LEMMA PartsOf == ExtractorInv <=> Left /\ Passed /\ state \in Extractor!Key
  BY DEF ExtractorInv, Left, Passed, Extractor!TypeOK, Symbols

LEMMA PartsNext ==
    ASSUME Left', Passed', (state \in Extractor!Key)'
    PROVE  ExtractorInv'
  BY DEF ExtractorInv, Left, Passed, Extractor!TypeOK, Symbols

LEMMA ExtractorInit == Extractor!Init => ExtractorInv
  <1> SUFFICES ASSUME Extractor!Init PROVE ExtractorInv
    OBVIOUS
  <1>1. answer \in Answers /\ rest = Extractor!Text(answer) /\ rest \in Symbols
    BY TextTypes DEF Extractor!Init
  <1>2. cut \in BOOLEAN
    BY Zenon DEF Extractor!Init
  <1>3. \A Q : <<>> \in Seq(Q)
    OBVIOUS
  <1>4. Left
    <2>1. buffer \in Symbols
      BY <1>3, Zenon DEF Extractor!Init, Symbols
    <2>2. prev = "" /\ mode = "read"
      BY DEF Extractor!Init
    <2>3. QED
      BY <1>1, <1>2, <2>1, <2>2 DEF Left
  <1>5. Passed
    <2>1. toolText \in Symbols /\ said \in Seq([key : Extractor!Key, symbol : Extractor!Symbol])
      BY <1>3, Zenon DEF Extractor!Init, Symbols
    <2>2. parsed = 0
      BY DEF Extractor!Init
    <2>3. QED
      BY <2>1, <2>2 DEF Passed
  <1>6. state \in Extractor!Key
    BY Zenon DEF Extractor!Init, Extractor!Key
  <1>7. QED
    BY <1>4, <1>5, <1>6, PartsOf

LEMMA FirstIs ==
    ASSUME buffer \in Symbols, NEW x
    PROVE  LET n == Extractor!FirstOf(x) IN
           n \in 0 .. Len(buffer) /\ (n > 0 => buffer[n] = x)
  <1>1. /\ Len(buffer) \in Nat /\ DOMAIN buffer = 1 .. Len(buffer)
    BY DEF Symbols
  <1>2. CASE Extractor!Places(x) = {}
    BY <1>1, <1>2 DEF Extractor!FirstOf
  <1>3. CASE Extractor!Places(x) # {}
    <2>1. Extractor!Places(x) \in SUBSET Nat
      BY <1>1 DEF Extractor!Places
    <2>2. \E i \in Extractor!Places(x) : \A j \in Extractor!Places(x) : i <= j
      BY <1>3, <2>1, LeastNat
    <2>3. Extractor!Min(Extractor!Places(x)) \in Extractor!Places(x)
      BY <2>2 DEF Extractor!Min
    <2>4. Extractor!FirstOf(x) \in Extractor!Places(x)
      BY <1>3, <2>3 DEF Extractor!FirstOf
    <2>5. QED
      BY <1>1, <2>4 DEF Extractor!Places
  <1>4. QED
    BY <1>2, <1>3

LEMMA LastIs ==
    ASSUME Left, NEW n \in 0 .. Len(buffer)
    PROVE  /\ Extractor!LastOf(Extractor!Upto(buffer, n)) \in Extractor!Symbol \cup {""}
           /\ n > 0 => buffer[n] \in Extractor!Symbol
  <1>1. /\ Extractor!Upto(buffer, n) \in Symbols /\ buffer \in Symbols
    BY PiecesAre DEF Left, Symbols
  <1>2. \A q \in Symbols : q # <<>> => q[Len(q)] \in Extractor!Symbol
    BY DEF Symbols
  <1>3. n > 0 => buffer[n] \in Extractor!Symbol
    <2>1. \A Q : \A q \in Seq(Q) : \A m \in 0 .. Len(q) : m > 0 => q[m] \in Q
      OBVIOUS
    <2>2. QED
      BY <1>1, <2>1 DEF Symbols
  <1>4. QED
    BY <1>1, <1>2, <1>3 DEF Extractor!LastOf, Left

\* Where a tag or a close tag is, the buffer goes on as far.
LEMMA OccursIn ==
    ASSUME buffer \in Symbols, NEW t \in Known, NEW i \in 1 .. Len(buffer)
    PROVE  /\ Extractor!Occurs(Extractor!Open(t), i) => i + 3 \in 1 .. Len(buffer) + 1
           /\ Extractor!Occurs(Extractor!Close(t), i) => i + 4 \in 1 .. Len(buffer) + 1
  <1>1. Len(buffer) \in Nat /\ i \in 1 .. Len(buffer) + 1
    BY DEF Symbols
  <1>2. Len(Extractor!From(buffer, i)) = Len(buffer) - i + 1
    BY <1>1, PiecesAre DEF Symbols
  <1>3. Len(Extractor!Open(t)) = 3 /\ Len(Extractor!Close(t)) = 4
    BY TagsAre
  <1>4. /\ Extractor!Occurs(Extractor!Open(t), i) => 3 <= Len(buffer) - i + 1
        /\ Extractor!Occurs(Extractor!Close(t), i) => 4 <= Len(buffer) - i + 1
    BY <1>2, <1>3 DEF Extractor!Occurs, Extractor!IsPrefix
  <1>5. QED
    BY <1>1, <1>4

LEMMA ReadTypes == ASSUME ExtractorInv, Extractor!Read \/ Extractor!Flush PROVE ExtractorInv'
  <1>1. Left /\ Passed /\ state \in Extractor!Key
    BY PartsOf
  <1>2. CASE Extractor!Read
    <2>1. PICK n \in 1 .. Len(rest) :
            buffer' = buffer \o Extractor!Upto(rest, n) /\ rest' = Extractor!From(rest, n + 1)
      BY <1>2 DEF Extractor!Read
    <2>2. rest \in Symbols /\ buffer \in Symbols /\ Len(rest) \in Nat
      <3>1. rest \in Symbols /\ buffer \in Symbols
        BY <1>1 DEF Left
      <3>2. QED
        BY <3>1 DEF Symbols
    <2>3. /\ Extractor!Upto(rest, n) \in Symbols /\ Len(Extractor!Upto(rest, n)) = n
          /\ Extractor!From(rest, n + 1) \in Symbols
      BY <2>2, PiecesAre DEF Symbols
    <2>4. buffer' \in Symbols /\ Len(buffer') = Len(buffer) + n /\ Len(buffer) \in Nat
      BY <2>1, <2>2, <2>3, ConcatIs DEF Symbols
    <2>5. buffer' # <<>>
      BY <2>4
    <2>6. cut' \in BOOLEAN
      BY <1>2, Zenon DEF Extractor!Read
    <2>7. Left'
      BY <1>1, <1>2, <2>1, <2>3, <2>4, <2>5, <2>6 DEF Left, Extractor!Read
    <2>8. Passed' /\ (state \in Extractor!Key)'
      BY <1>1, <1>2 DEF Passed, Extractor!Read, Extractor!Key
    <2>9. QED
      BY <2>7, <2>8, PartsNext
  <1>3. CASE Extractor!Flush
    <2>1. Extractor!Emit(state, buffer, TRUE) /\ buffer \in Symbols
      BY <1>1, <1>3 DEF Extractor!Flush, Left
    <2>2. Passed'
      BY <1>1, <2>1, EmitTypes
    <2>3. cut' \in BOOLEAN
      BY <1>1, <1>3, Zenon DEF Left, Extractor!Flush
    <2>4. Left' /\ (state \in Extractor!Key)'
      BY <1>1, <1>3, <2>3 DEF Left, Extractor!Flush, Symbols, Extractor!Key
    <2>5. QED
      BY <2>2, <2>4, PartsNext
  <1>4. QED
    BY <1>2, <1>3

\* A turn of the loop in _drain that takes something off the buffer.
LEMMA TurnTypes ==
    ASSUME ExtractorInv,
           NEW left \in Symbols, NEW last \in Extractor!Symbol \cup {""},
           Extractor!Advance(left, last),
           NEW key \in Extractor!Key, NEW text \in Symbols, NEW complete,
           Extractor!Emit(key, text, complete) \/ UNCHANGED <<toolText, said, parsed>>,
           (state \in Extractor!Key)'
    PROVE  ExtractorInv'
  <1>1. Left /\ Passed
    BY PartsOf
  <1>2. Left'
    BY <1>1, AdvanceTypes
  <1>3. Passed'
    <2>1. CASE Extractor!Emit(key, text, complete)
      BY <1>1, <2>1, EmitTypes
    <2>2. CASE UNCHANGED <<toolText, said, parsed>>
      BY <1>1, <2>2 DEF Passed
    <2>3. QED
      BY <2>1, <2>2
  <1>4. QED
    BY <1>2, <1>3, PartsNext

\* A turn that waits for more.
LEMMA WaitTypes == ASSUME ExtractorInv, Extractor!Wait PROVE ExtractorInv'
  <1>1. Left /\ Passed /\ state \in Extractor!Key
    BY PartsOf
  <1>2. Left'
    <2>1. cut' = cut
      BY DEF Extractor!Wait
    <2>2. cut' \in BOOLEAN
      BY <1>1, <2>1, Zenon DEF Left
    <2>3. QED
      BY <1>1, <2>2 DEF Extractor!Wait, Left
  <1>3. Passed' /\ (state \in Extractor!Key)'
    BY <1>1 DEF Extractor!Wait, Passed
  <1>4. QED
    BY <1>2, <1>3, PartsNext

LEMMA OutsideTypes ==
    ASSUME ExtractorInv, Extractor!TextOutside \/ Extractor!OrphanClose \/ Extractor!LessThan
    PROVE  ExtractorInv'
  <1>1. /\ Left /\ Passed /\ state \in Extractor!Key /\ Outside \in Extractor!Key
        /\ mode = "drain" /\ buffer # <<>>
    BY PartsOf DEF Extractor!Key, ExtractorInv, Extractor!TextOutside, Extractor!OrphanClose,
                   Extractor!LessThan, Extractor!Draining
  <1>2. buffer \in Symbols /\ prev \in Extractor!Symbol \cup {""}
    BY <1>1 DEF Left
  <1>3. Len(buffer) \in Nat /\ Len(buffer) > 0
    BY <1>1, <1>2, ConcatIs DEF Symbols
  <1>4. Extractor!FirstOf("<") \in 0 .. Len(buffer) /\ Extractor!FirstOf(">") \in 0 .. Len(buffer)
    BY <1>2, FirstIs
  <1>5. /\ \A i \in 1 .. Len(buffer) + 1 : Extractor!From(buffer, i) \in Symbols
        /\ \A n \in 0 .. Len(buffer) : Extractor!Upto(buffer, n) \in Symbols
    BY <1>2, PiecesAre DEF Symbols
  <1>6. CASE Extractor!TextOutside
    <2> DEFINE n == IF Extractor!FirstOf("<") = 0 THEN Len(buffer)
                    ELSE Extractor!FirstOf("<") - 1
    <2>1. /\ Extractor!FirstOf("<") # 1
          /\ Extractor!Emit(Outside, Extractor!Upto(buffer, n), FALSE)
          /\ Extractor!Advance(Extractor!From(buffer, n + 1), buffer[n])
          /\ state' = state
      BY <1>6, Zenon DEF Extractor!TextOutside
    <2>2. n \in 1 .. Len(buffer)
      BY <1>3, <1>4, <2>1
    <2> HIDE DEF n
    <2>3. n \in 0 .. Len(buffer) /\ n + 1 \in 1 .. Len(buffer) + 1 /\ n > 0
      BY <1>3, <2>2
    <2>4. buffer[n] \in Extractor!Symbol \cup {""}
      BY <1>1, <2>3, LastIs
    <2>5. (state \in Extractor!Key)'
      BY <1>1, <2>1
    <2>6. QED
      BY <1>1, <1>5, <2>1, <2>3, <2>4, <2>5, TurnTypes
  <1>7. CASE Extractor!OrphanClose
    <2>1. CASE Extractor!FirstOf(">") = 0
      BY <1>7, <2>1, WaitTypes DEF Extractor!OrphanClose
    <2>2. CASE Extractor!FirstOf(">") # 0
      <3>1. /\ Extractor!Advance(Extractor!From(buffer, Extractor!FirstOf(">") + 1), prev)
            /\ UNCHANGED <<toolText, said, parsed>> /\ state' = state
        BY <1>7, <2>2 DEF Extractor!OrphanClose
      <3>2. Extractor!From(buffer, Extractor!FirstOf(">") + 1) \in Symbols
        BY <1>3, <1>4, <1>5
      <3>3. (state \in Extractor!Key)'
        BY <1>1, <3>1
      <3>4. QED
        BY <1>1, <1>2, <3>1, <3>2, <3>3, TurnTypes
    <2>3. QED
      BY <2>1, <2>2
  <1>8. CASE Extractor!LessThan
    <2>1. CASE \E t \in Known : Extractor!IsPrefix(buffer, Extractor!Open(t))
      BY <1>8, <2>1, WaitTypes DEF Extractor!LessThan
    <2>2. CASE ~ \E t \in Known : Extractor!IsPrefix(buffer, Extractor!Open(t))
      <3>1. /\ Extractor!Emit(Outside, <<"<">>, FALSE)
            /\ Extractor!Advance(Tail(buffer), "<") /\ state' = state
        BY <1>8, <2>2 DEF Extractor!LessThan
      <3>2. Tail(buffer) \in Symbols
        <4>1. \A Q : \A q \in Seq(Q) : q # <<>> => Tail(q) \in Seq(Q)
          OBVIOUS
        <4>2. QED
          BY <1>1, <1>2, <4>1 DEF Symbols
      <3>3. "<" \in Extractor!Symbol /\ <<"<">> \in Symbols
        BY DEF Extractor!Symbol, Extractor!Mark, Symbols
      <3>4. (state \in Extractor!Key)'
        BY <1>1, <3>1
      <3>5. QED
        BY <1>1, <3>1, <3>2, <3>3, <3>4, TurnTypes
    <2>3. QED
      BY <2>1, <2>2
  <1>9. QED
    BY <1>6, <1>7, <1>8

LEMMA OpenTypes == ASSUME ExtractorInv, Extractor!OpenTag PROVE ExtractorInv'
  <1>1. Left /\ Passed /\ state \in Extractor!Key /\ Outside \in Extractor!Key /\ buffer # <<>>
    BY PartsOf DEF Extractor!Key, ExtractorInv, Extractor!OpenTag, Extractor!Draining
  <1>2. buffer \in Symbols
    BY <1>1 DEF Left
  <1>3. Len(buffer) \in Nat /\ Len(buffer) > 0
    BY <1>1, <1>2, ConcatIs DEF Symbols
  <1>4. PICK t \in Known :
          /\ Extractor!Occurs(Extractor!Open(t), 1)
          /\ Extractor!Advance(Extractor!From(buffer, 4), ">")
          /\ IF Extractor!Escaped(1, 3)
             THEN Extractor!Emit(Outside, Extractor!Open(t), FALSE) /\ UNCHANGED state
             ELSE state' = t /\ UNCHANGED <<toolText, said, parsed>>
    BY Zenon DEF Extractor!OpenTag
  <1>5. 1 + 3 \in 1 .. Len(buffer) + 1
    BY <1>2, <1>3, <1>4, OccursIn
  <1>6. Extractor!From(buffer, 4) \in Symbols
    BY <1>2, <1>5, PiecesAre DEF Symbols
  <1>7. ">" \in Extractor!Symbol
    BY DEF Extractor!Symbol, Extractor!Mark
  <1>8. t \in Extractor!Key /\ Extractor!Open(t) \in Symbols
    BY TagsAre
  <1>9. (state \in Extractor!Key)'
    BY <1>1, <1>4, <1>8
  <1>10. \/ Extractor!Emit(Outside, Extractor!Open(t), FALSE)
         \/ UNCHANGED <<toolText, said, parsed>>
    BY <1>4
  <1>11. QED
    BY <1>1, <1>4, <1>6, <1>7, <1>8, <1>9, <1>10, TurnTypes

LEMMA ImplicitTypes == ASSUME ExtractorInv, Extractor!ImplicitClose PROVE ExtractorInv'
  <1> DEFINE i == Extractor!FirstOf("<")
  <1>1. Left /\ Passed /\ state \in Extractor!Key /\ Outside \in Extractor!Key
    BY PartsOf DEF Extractor!Key
  <1>2. buffer \in Symbols
    BY <1>1 DEF Left
  <1>3. Len(buffer) \in Nat
    BY <1>2 DEF Symbols
  <1>4. i \in 0 .. Len(buffer)
    BY <1>2, FirstIs
  <1>5. i > 0 /\ Len(buffer) >= i + 2
    BY DEF Extractor!ImplicitClose, Extractor!NewTag
  <1>6. IF Extractor!Escaped(i, 3)
        THEN /\ Extractor!Emit(state, Extractor!Upto(buffer, i + 2), FALSE)
             /\ Extractor!Advance(Extractor!From(buffer, i + 3), ">")
             /\ UNCHANGED state
        ELSE /\ Extractor!Emit(state, Extractor!Upto(buffer, i - 1), FALSE)
             /\ Extractor!Advance(Extractor!From(buffer, i),
                                  Extractor!LastOf(Extractor!Upto(buffer, i - 1)))
             /\ state' = Outside
    BY Zenon DEF Extractor!ImplicitClose
  <1> HIDE DEF i
  <1>7. /\ \A j \in 1 .. Len(buffer) + 1 : Extractor!From(buffer, j) \in Symbols
        /\ \A n \in 0 .. Len(buffer) : Extractor!Upto(buffer, n) \in Symbols
    BY <1>2, PiecesAre DEF Symbols
  <1>8. /\ i + 2 \in 0 .. Len(buffer) /\ i - 1 \in 0 .. Len(buffer)
        /\ i + 3 \in 1 .. Len(buffer) + 1 /\ i \in 1 .. Len(buffer) + 1
    BY <1>3, <1>4, <1>5
  <1>9. CASE Extractor!Escaped(i, 3)
    <2>1. ">" \in Extractor!Symbol
      BY DEF Extractor!Symbol, Extractor!Mark
    <2>2. (state \in Extractor!Key)'
      BY <1>1, <1>6, <1>9
    <2>3. QED
      BY <1>1, <1>6, <1>7, <1>8, <1>9, <2>1, <2>2, TurnTypes
  <1>10. CASE ~ Extractor!Escaped(i, 3)
    <2>1. Extractor!LastOf(Extractor!Upto(buffer, i - 1)) \in Extractor!Symbol \cup {""}
      BY <1>1, <1>8, LastIs
    <2>2. (state \in Extractor!Key)'
      BY <1>1, <1>6, <1>10
    <2>3. QED
      BY <1>1, <1>6, <1>7, <1>8, <1>10, <2>1, <2>2, TurnTypes
  <1>11. QED
    BY <1>9, <1>10

\* Close tags lie inside the buffer.
LEMMA ClosesAre ==
    ASSUME buffer \in Symbols, state \in Known
    PROVE  /\ Extractor!Closes \in SUBSET (1 .. Len(buffer))
           /\ \A i \in Extractor!Closes : i + 4 \in 1 .. Len(buffer) + 1
           /\ Extractor!RealCloses \subseteq Extractor!Closes
  <1>1. DOMAIN buffer = 1 .. Len(buffer)
    BY DEF Symbols
  <1>2. QED
    BY <1>1, OccursIn DEF Extractor!Closes, Extractor!RealCloses

LEMMA CloseTypes ==
    ASSUME ExtractorInv, Extractor!CloseTag \/ Extractor!EscapedClose
    PROVE  ExtractorInv'
  <1>1. Left /\ Passed /\ state \in Extractor!Key /\ Outside \in Extractor!Key
    BY PartsOf DEF Extractor!Key
  <1>2. buffer \in Symbols /\ state \in Known
    BY <1>1 DEF Left, Extractor!CloseTag, Extractor!EscapedClose, Extractor!Draining,
                Extractor!Key
  <1>3. Len(buffer) \in Nat
    BY <1>2 DEF Symbols
  <1>4. /\ Extractor!Closes \in SUBSET (1 .. Len(buffer))
        /\ \A i \in Extractor!Closes : i + 4 \in 1 .. Len(buffer) + 1
        /\ Extractor!RealCloses \subseteq Extractor!Closes
    BY <1>2, ClosesAre
  <1>5. /\ \A j \in 1 .. Len(buffer) + 1 : Extractor!From(buffer, j) \in Symbols
        /\ \A n \in 0 .. Len(buffer) : Extractor!Upto(buffer, n) \in Symbols
    BY <1>2, PiecesAre DEF Symbols
  <1>6. CASE Extractor!CloseTag
    <2>1. PICK i : /\ i = Extractor!Min(Extractor!RealCloses)
                   /\ Extractor!Emit(state, Extractor!Upto(buffer, i - 1), TRUE)
                   /\ Extractor!Advance(Extractor!From(buffer, i + 4),
                                        Extractor!LastOf(Extractor!Upto(buffer, i - 1)))
                   /\ state' = Outside
      BY <1>6, Zenon DEF Extractor!CloseTag
    <2>2. Extractor!RealCloses \in SUBSET Nat /\ Extractor!RealCloses # {}
      BY <1>4, <1>6 DEF Extractor!CloseTag
    <2>3. \E x \in Extractor!RealCloses : \A y \in Extractor!RealCloses : x <= y
      BY <2>2, LeastNat
    <2>4. i \in Extractor!RealCloses
      BY <2>1, <2>3 DEF Extractor!Min
    <2>5. i \in 1 .. Len(buffer) /\ i + 4 \in 1 .. Len(buffer) + 1
      BY <1>4, <2>4
    <2>6. i - 1 \in 0 .. Len(buffer)
      BY <1>3, <2>5
    <2>7. Extractor!LastOf(Extractor!Upto(buffer, i - 1)) \in Extractor!Symbol \cup {""}
      BY <1>1, <2>6, LastIs
    <2>8. (state \in Extractor!Key)'
      BY <1>1, <2>1
    <2>9. QED
      BY <1>1, <1>5, <2>1, <2>5, <2>6, <2>7, <2>8, TurnTypes
  <1>7. CASE Extractor!EscapedClose
    <2>1. PICK i : /\ i = Extractor!Max(Extractor!Closes)
                   /\ Extractor!Emit(state, Extractor!Upto(buffer, i + 3), FALSE)
                   /\ Extractor!Advance(Extractor!From(buffer, (i + 3) + 1), ">")
                   /\ state' = state
      BY <1>7, Zenon DEF Extractor!EscapedClose
    <2>2. Extractor!Closes \in SUBSET (0 .. Len(buffer)) /\ Extractor!Closes # {}
      BY <1>3, <1>4, <1>7 DEF Extractor!EscapedClose
    <2>3. \E x \in Extractor!Closes : \A y \in Extractor!Closes : x >= y
      BY <1>3, <2>2, GreatestNat
    <2>4. i \in Extractor!Closes
      BY <2>1, <2>3 DEF Extractor!Max
    <2>5. i \in 1 .. Len(buffer) /\ i + 4 \in 1 .. Len(buffer) + 1
      BY <1>4, <2>4
    <2>6. i + 3 \in 0 .. Len(buffer) /\ (i + 3) + 1 \in 1 .. Len(buffer) + 1
      BY <1>3, <2>5
    <2>7. ">" \in Extractor!Symbol
      BY DEF Extractor!Symbol, Extractor!Mark
    <2>8. (state \in Extractor!Key)'
      BY <1>1, <2>1
    <2>9. QED
      BY <1>1, <1>5, <2>1, <2>6, <2>7, <2>8, TurnTypes
  <1>8. QED
    BY <1>6, <1>7

LEMMA HoldBackTypes == ASSUME ExtractorInv, Extractor!HoldBack PROVE ExtractorInv'
  <1> DEFINE parts == {i \in 1 .. 3 :
                         Extractor!IsSuffix(Extractor!Upto(Extractor!Close(state), i), buffer)}
             n == Len(buffer) - Extractor!Min(parts)
  <1>1. Left /\ Passed /\ state \in Extractor!Key
    BY PartsOf
  <1>2. buffer \in Symbols /\ state \in Known
    BY <1>1 DEF Left, Extractor!HoldBack, Extractor!Draining, Extractor!Key
  <1>3. Len(buffer) \in Nat
    BY <1>2 DEF Symbols
  <1>4. IF parts = {} \/ n = 0
        THEN Extractor!Wait
        ELSE /\ Extractor!Emit(state, Extractor!Upto(buffer, n), FALSE)
             /\ Extractor!Advance(Extractor!From(buffer, n + 1), buffer[n])
             /\ state' = state
    BY Zenon DEF Extractor!HoldBack
  <1>5. CASE parts = {} \/ n = 0
    BY <1>4, <1>5, WaitTypes
  <1>6. CASE ~ (parts = {} \/ n = 0)
    <2>1. \A i \in parts : i <= Len(buffer)
      <3> SUFFICES ASSUME NEW i \in parts PROVE i <= Len(buffer)
        OBVIOUS
      <3> DEFINE piece == Extractor!Upto(Extractor!Close(state), i)
      <3>1. Len(Extractor!Close(state)) = 4 /\ Extractor!Close(state) \in Symbols
        BY <1>2, TagsAre
      <3>2. piece \in Symbols /\ Len(piece) = i
        <4>1. i \in 0 .. Len(Extractor!Close(state))
          BY <3>1
        <4>2. QED
          BY <3>1, <4>1, PiecesAre, Zenon DEF Symbols
      <3>3. Extractor!IsSuffix(piece, buffer)
        OBVIOUS
      <3> HIDE DEF piece
      <3>4. /\ Len(Extractor!Reverse(piece)) = Len(piece)
            /\ Len(Extractor!Reverse(buffer)) = Len(buffer)
        <4>1. \A q \in Symbols : Len(Extractor!Reverse(q)) = Len(q)
          BY DEF Extractor!Reverse, Symbols
        <4>2. QED
          BY <1>2, <3>2, <4>1
      <3>5. QED
        BY <3>2, <3>3, <3>4 DEF Extractor!IsSuffix, Extractor!IsPrefix
    <2>2. parts \in SUBSET Nat /\ parts # {}
      BY <1>6
    <2>3. \A i \in parts : i >= 1
      OBVIOUS
    <2>4. \E x \in parts : \A y \in parts : x <= y
      <3> HIDE DEF parts
      <3>1. QED
        BY <2>2, LeastNat
    <2>5. Extractor!Min(parts) \in parts
      <3> HIDE DEF parts
      <3>1. QED
        BY <2>4 DEF Extractor!Min
    <2>6. n \in 1 .. Len(buffer)
      <3>1. PICK m \in parts : n = Len(buffer) - m
        BY <2>5
      <3>2. m \in Nat /\ m >= 1 /\ m <= Len(buffer) /\ n # 0
        BY <1>6, <2>1, <2>2, <2>3
      <3> HIDE DEF n, parts
      <3>3. QED
        BY <1>3, <3>1, <3>2
    <2> HIDE DEF n, parts
    <2>7. n \in 0 .. Len(buffer) /\ n + 1 \in 1 .. Len(buffer) + 1 /\ n > 0
      BY <1>3, <2>6
    <2>8. /\ Extractor!Upto(buffer, n) \in Symbols /\ Extractor!From(buffer, n + 1) \in Symbols
      BY <1>2, <2>7, PiecesAre DEF Symbols
    <2>9. buffer[n] \in Extractor!Symbol \cup {""}
      BY <1>1, <2>7, LastIs
    <2>10. (state \in Extractor!Key)'
      BY <1>1, <1>4, <1>6
    <2>11. QED
      BY <1>1, <1>4, <1>6, <2>8, <2>9, <2>10, TurnTypes
  <1>7. QED
    BY <1>5, <1>6

LEMMA ExtractorStays == ASSUME ExtractorInv, UNCHANGED extractorVars PROVE ExtractorInv'
  BY Zenon DEF ExtractorInv, Extractor!TypeOK, extractorVars

LEMMA ExtractorStep == ASSUME ExtractorInv, [PathNext]_pathVars PROVE ExtractorInv'
  <1>1. CASE Extractor!Next
    <2>1. CASE Extractor!Over
      BY <2>1, ExtractorStays DEF Extractor!Over, Extractor!tagVars, extractorVars
    <2>2. QED
      BY <1>1, <2>1, ReadTypes, OutsideTypes, OpenTypes, ImplicitTypes, CloseTypes,
         HoldBackTypes DEF Extractor!Next
  <1>2. CASE UNCHANGED extractorVars
    BY <1>2, ExtractorStays
  <1>3. QED
    BY <1>1, <1>2 DEF PathNext, pathVars

LEMMA ExtractorHolds == PathSpec => []ExtractorInv
  <1>1. PathInit => ExtractorInv
    BY ExtractorInit DEF PathInit
  <1>2. ExtractorInv /\ [PathNext]_pathVars => ExtractorInv'
    BY ExtractorStep
  <1>3. QED
    BY <1>1, <1>2, PTL DEF PathSpec

-----------------------------------------------------------------------------
(* Where the segments of an answer are in its text.                        *)

\* The pieces of a whole, each from its start on.
Pieces(seqs, start, whole) ==
    /\ start \in [1 .. Len(seqs) + 1 -> Nat]
    /\ start[1] = 0 /\ start[Len(seqs) + 1] = Len(whole)
    /\ \A k \in 1 .. Len(seqs) :
         /\ start[k + 1] = start[k] + Len(seqs[k]) /\ start[k + 1] <= Len(whole)
         /\ \A j \in 1 .. Len(seqs[k]) : whole[start[k] + j] = seqs[k][j]

\* Two sequences joined, element by element.
LEMMA JoinIs ==
    ASSUME NEW Q, NEW q \in Seq(Q), NEW p \in Seq(Q), NEW r, r = q \o p
    PROVE  /\ r \in Seq(Q) /\ Len(r) = Len(q) + Len(p)
           /\ \A j \in 1 .. Len(q) : r[j] = q[j]
           /\ \A j \in 1 .. Len(p) : r[Len(q) + j] = p[j]
  OBVIOUS

\* What FlattenSeq joins is in the whole, piece after piece.
LEMMA FlattenPieces ==
    ASSUME NEW Q, NEW seqs \in Seq(Seq(Q))
    PROVE  \E start : Pieces(seqs, start, Extractor!FlattenSeq(seqs))
  <1> DEFINE n == Len(seqs)
             whole == Extractor!FlattenSeq(seqs)
  <1>1. n \in Nat /\ \A k \in 1 .. n : seqs[k] \in Seq(Q) /\ Len(seqs[k]) \in Nat
    OBVIOUS
  <1>2. CASE n = 0
    <2>1. whole = seqs /\ Len(whole) = 0
      BY <1>2 DEF Extractor!FlattenSeq
    <2> HIDE DEF whole
    <2>2. Pieces(seqs, [k \in 1 .. n + 1 |-> 0], whole)
      BY <1>1, <1>2, <2>1 DEF Pieces
    <2>3. QED
      BY <2>2 DEF whole
  <1>3. CASE n # 0
    <2>1. PICK flat :
            /\ whole = flat[n]
            /\ \A i \in 1 .. n : /\ flat[i] \in Seq(Q)
                                 /\ flat[i] = IF i = 1 THEN seqs[i] ELSE flat[i - 1] \o seqs[i]
      BY <1>3, FlattenStages
    <2> HIDE DEF whole
    <2> DEFINE start == [k \in 1 .. n + 1 |-> IF k = 1 THEN 0 ELSE Len(flat[k - 1])]
    <2>2. \A i \in 1 .. n : /\ flat[i] \in Seq(Q) /\ Len(flat[i]) \in Nat
      BY <2>1
    <2>3. ASSUME NEW i \in 1 .. n, NEW h \in 1 .. n, h = i + 1
          PROVE  /\ Len(flat[h]) = Len(flat[i]) + Len(seqs[h])
                 /\ \A j \in 1 .. Len(seqs[h]) : flat[h][Len(flat[i]) + j] = seqs[h][j]
                 /\ \A j \in 1 .. Len(flat[i]) : flat[h][j] = flat[i][j]
      <3>1. h # 1 /\ h - 1 = i
        BY <2>3
      <3>2. flat[h] = flat[i] \o seqs[h]
        BY <2>1, <3>1
      <3>3. flat[i] \in Seq(Q) /\ seqs[h] \in Seq(Q)
        BY <1>1, <2>2
      <3>4. PICK q, p, r : q = flat[i] /\ p = seqs[h] /\ r = flat[h]
        OBVIOUS
      <3>5. q \in Seq(Q) /\ p \in Seq(Q) /\ r = q \o p
        BY <3>2, <3>3, <3>4, Zenon
      <3>6. /\ Len(r) = Len(q) + Len(p)
            /\ \A j \in 1 .. Len(q) : r[j] = q[j]
            /\ \A j \in 1 .. Len(p) : r[Len(q) + j] = p[j]
        BY <3>5, JoinIs
      <3>7. QED
        BY <3>4, <3>6, Zenon
    <2>4. flat[1] = seqs[1] /\ 1 \in 1 .. n
      BY <1>1, <1>3, <2>1
    <2> DEFINE T == {m \in Nat : m <= n =>
                       \A i \in 1 .. m : /\ Len(flat[i]) <= Len(flat[m])
                                         /\ \A j \in 1 .. Len(flat[i]) : flat[m][j] = flat[i][j]}
    <2>5. 0 \in T
      OBVIOUS
    <2>6. ASSUME NEW m \in T PROVE m + 1 \in T
      <3> SUFFICES ASSUME m + 1 <= n, NEW i \in 1 .. m + 1
                   PROVE  /\ Len(flat[i]) <= Len(flat[m + 1])
                          /\ \A j \in 1 .. Len(flat[i]) : flat[m + 1][j] = flat[i][j]
        OBVIOUS
      <3>1. CASE i = m + 1
        BY <2>2, <3>1
      <3>2. CASE i # m + 1
        <4>1. m \in Nat /\ i \in 1 .. m /\ m + 1 \in 1 .. n /\ m <= n
              /\ i \in 1 .. n /\ m \in 1 .. n
          BY <1>1, <3>2
        <4>2. /\ Len(flat[i]) <= Len(flat[m])
              /\ \A j \in 1 .. Len(flat[i]) : flat[m][j] = flat[i][j]
          BY <4>1
        <4>3. /\ Len(flat[m + 1]) = Len(flat[m]) + Len(seqs[m + 1])
              /\ \A j \in 1 .. Len(flat[m]) : flat[m + 1][j] = flat[m][j]
          BY <2>3, <4>1
        <4>4. Len(flat[m]) \in Nat /\ Len(flat[i]) \in Nat /\ Len(seqs[m + 1]) \in Nat
          BY <1>1, <2>2, <4>1
        <4>5. \A j \in 1 .. Len(flat[i]) : j \in 1 .. Len(flat[m])
          BY <4>2, <4>4
        <4>6. Len(flat[i]) <= Len(flat[m + 1])
          <5>1. \A x, y, z, w \in Nat : x <= y /\ z = y + w => x <= z
            OBVIOUS
          <5>2. Len(flat[m + 1]) \in Nat
            BY <2>2, <4>1
          <5>3. QED
            BY <4>2, <4>3, <4>4, <5>1, <5>2, Zenon
        <4>7. \A j \in 1 .. Len(flat[i]) : flat[m + 1][j] = flat[i][j]
          BY <4>2, <4>3, <4>5, Zenon
        <4>8. QED
          BY <4>6, <4>7
      <3>3. QED
        BY <3>1, <3>2
    <2> HIDE DEF T
    <2>7. n \in T
      <3>1. T \in SUBSET Nat
        BY DEF T
      <3>2. T = Nat
        BY <2>5, <2>6, <3>1, SetInduction
      <3>3. QED
        BY <1>1, <3>2
    <2>8. \A i \in 1 .. n : /\ Len(flat[i]) <= Len(flat[n])
                            /\ \A j \in 1 .. Len(flat[i]) : flat[n][j] = flat[i][j]
      BY <1>1, <2>7 DEF T
    <2>9. /\ start \in [1 .. n + 1 -> Nat] /\ start[1] = 0 /\ start[n + 1] = Len(whole)
      <3>1. \A k \in 1 .. n + 1 : k # 1 => k - 1 \in 1 .. n
        BY <1>1
      <3>2. \A k \in 1 .. n + 1 : (IF k = 1 THEN 0 ELSE Len(flat[k - 1])) \in Nat
        BY <2>2, <3>1
      <3>3. QED
        BY <1>1, <1>3, <2>1, <3>2
    <2>10. ASSUME NEW k \in 1 .. n
           PROVE  /\ start[k + 1] = start[k] + Len(seqs[k]) /\ start[k + 1] <= Len(whole)
                  /\ \A j \in 1 .. Len(seqs[k]) : whole[start[k] + j] = seqs[k][j]
      <3>1. start[k + 1] = Len(flat[k]) /\ start[k + 1] <= Len(whole)
        <4>1. k + 1 \in 1 .. n + 1 /\ k + 1 # 1 /\ (k + 1) - 1 = k
          BY <1>1
        <4>2. QED
          BY <2>1, <2>8, <4>1
      <3>2. start[k] = IF k = 1 THEN 0 ELSE Len(flat[k - 1])
        BY <1>1
      <3> HIDE DEF start
      <3>3. CASE k = 1
        BY <1>1, <2>1, <2>4, <2>8, <3>1, <3>2, <3>3
      <3>4. CASE k # 1
        <4>1. k - 1 \in 1 .. n /\ (k - 1) + 1 = k
          BY <1>1, <3>4
        <4>2. /\ Len(flat[k]) = Len(flat[k - 1]) + Len(seqs[k])
              /\ \A j \in 1 .. Len(seqs[k]) : flat[k][Len(flat[k - 1]) + j] = seqs[k][j]
          <5>1. PICK h \in 1 .. n : h = k - 1 /\ k = h + 1
            BY <4>1
          <5>2. QED
            BY <2>3, <5>1
        <4>3. start[k] = Len(flat[k - 1]) /\ Len(flat[k - 1]) \in Nat /\ Len(seqs[k]) \in Nat
              /\ Len(flat[k]) \in Nat
          BY <1>1, <2>2, <3>2, <3>4, <4>1
        <4>4. ASSUME NEW j \in 1 .. Len(seqs[k]) PROVE whole[start[k] + j] = seqs[k][j]
          <5>1. start[k] + j \in 1 .. Len(flat[k])
            <6>1. Len(flat[k]) = start[k] + Len(seqs[k]) /\ start[k] \in Nat /\ Len(seqs[k]) \in Nat
              BY <4>2, <4>3
            <6>2. QED
              BY <6>1
          <5>2. flat[n][start[k] + j] = flat[k][start[k] + j]
            BY <2>8, <5>1
          <5>3. QED
            BY <2>1, <4>2, <4>3, <5>2
        <4>5. QED
          BY <3>1, <4>2, <4>3, <4>4
      <3>5. QED
        BY <3>3, <3>4
    <2> HIDE DEF start
    <2>11. Pieces(seqs, start, whole)
      BY <2>9, <2>10 DEF Pieces
    <2>12. QED
      BY <2>11 DEF whole
  <1>4. QED
    BY <1>2, <1>3

\* A segment of the text from o on, up to where the next one begins.
Bare(s, o, next, T) ==
    next = o + Len(s.body) /\ \A j \in 1 .. Len(s.body) : T[o + j] = s.body[j]

\* or in its tag.
InTag(s, o, next, T) ==
    /\ T[o + 1] = "<" /\ T[o + 2] = s.tag /\ T[o + 3] = ">"
    /\ \A j \in 1 .. Len(s.body) : T[o + 3 + j] = s.body[j]
    /\ s.closed => /\ next = o + Len(s.body) + 7
                   /\ T[o + Len(s.body) + 4] = "<" /\ T[o + Len(s.body) + 5] = "/"
                   /\ T[o + Len(s.body) + 6] = s.tag /\ T[o + Len(s.body) + 7] = ">"
    /\ ~s.closed => next = o + Len(s.body) + 3

\* What is meant by it.
Means(s, o, next, M) ==
    IF s.tag = "orphan" THEN next = o
    ELSE /\ next = o + Len(s.body)
         /\ \A j \in 1 .. Len(s.body) : M[o + j] = [key |-> s.tag, symbol |-> s.body[j]]

\* A segment where it stands, in the text and in the meaning.
SegmentAt(s, o, next, m, beyond, T, M) ==
    /\ IF s.tag \in Known THEN InTag(s, o, next, T) ELSE Bare(s, o, next, T)
    /\ Means(s, m, beyond, M)

\* All of them.
Layout(a, T, M, start, from) ==
    /\ start \in [1 .. Len(a) + 1 -> Nat] /\ start[1] = 0 /\ start[Len(a) + 1] = Len(T)
    /\ from \in [1 .. Len(a) + 1 -> Nat] /\ from[1] = 0 /\ from[Len(a) + 1] = Len(M)
    /\ \A k \in 1 .. Len(a) :
         /\ start[k + 1] <= Len(T) /\ from[k + 1] <= Len(M)
         /\ SegmentAt(a[k], start[k], start[k + 1], from[k], from[k + 1], T, M)

LEMMA SegmentIs ==
    ASSUME NEW s \in Extractor!Segment
    PROVE  /\ s.tag \in Known \cup {Outside, "orphan"} /\ s.body \in Symbols
           /\ Len(s.body) \in Nat /\ s.closed \in BOOLEAN
           /\ s.tag \in Known <=> s.tag \notin {Outside, "orphan"}
           /\ Extractor!Written(s) \in Symbols
  <1>1. s.tag \in Known \cup {Outside, "orphan"} /\ s.body \in Symbols
    BY DEF Extractor!Segment, Extractor!Key, Symbols
  <1>2. s.closed \in BOOLEAN
    BY Zenon DEF Extractor!Segment
  <1>3. s.tag \in Known <=> s.tag \notin {Outside, "orphan"}
    BY <1>1, PathAssumption DEF Extractor!TagAssumption
  <1>4. Len(s.body) \in Nat
    BY <1>1 DEF Symbols
  <1>5. Extractor!Written(s) \in Symbols
    <2>1. CASE s.tag \in {Outside, "orphan"}
      BY <1>1, <2>1 DEF Extractor!Written
    <2>2. CASE s.tag \notin {Outside, "orphan"}
      <3>1. Extractor!Open(s.tag) \in Symbols /\ Extractor!Close(s.tag) \in Symbols
        BY <1>1, <2>2, TagsAre
      <3>2. (IF s.closed THEN Extractor!Close(s.tag) ELSE <<>>) \in Symbols
        BY <3>1 DEF Symbols
      <3>3. Extractor!Written(s) = Extractor!Open(s.tag) \o s.body
                                     \o (IF s.closed THEN Extractor!Close(s.tag) ELSE <<>>)
        BY <2>2 DEF Extractor!Written
      <3>4. QED
        BY <1>1, <3>1, <3>2, <3>3 DEF Symbols
    <2>3. QED
      BY <2>1, <2>2
  <1>6. QED
    BY <1>1, <1>2, <1>3, <1>4, <1>5

\* What a segment writes is a segment from 0 on,
LEMMA WrittenIs ==
    ASSUME NEW s \in Extractor!Segment, NEW w, w = Extractor!Written(s)
    PROVE  IF s.tag \in Known THEN InTag(s, 0, Len(w), w) ELSE Bare(s, 0, Len(w), w)
  <1>1. /\ s.tag \in Known \cup {Outside, "orphan"} /\ s.body \in Symbols
        /\ Len(s.body) \in Nat /\ s.closed \in BOOLEAN
        /\ s.tag \in Known <=> s.tag \notin {Outside, "orphan"}
    BY SegmentIs
  <1>2. CASE s.tag \notin Known
    <2>1. w = s.body
      BY <1>1, <1>2 DEF Extractor!Written
    <2>2. Bare(s, 0, Len(w), w)
      BY <1>1, <2>1 DEF Bare
    <2>3. QED
      BY <1>2, <2>2
  <1>3. CASE s.tag \in Known
    <2>1. PICK t, body, x, y, z :
            /\ t = s.tag /\ body = s.body /\ x = Extractor!Open(t)
            /\ y = x \o body
            /\ z = IF s.closed THEN Extractor!Close(t) ELSE <<>>
      OBVIOUS
    <2>2. w = y \o z
      BY <1>1, <1>3, <2>1, Zenon DEF Extractor!Written
    <2>3. /\ x \in Symbols /\ body \in Symbols /\ Len(x) = 3
          /\ x[1] = "<" /\ x[2] = t /\ x[3] = ">"
      BY <1>1, <1>3, <2>1, TagsAre DEF Extractor!Open
    <2>4. /\ y \in Symbols /\ Len(y) = Len(x) + Len(body)
          /\ \A j \in 1 .. Len(x) : y[j] = x[j]
          /\ \A j \in 1 .. Len(body) : y[Len(x) + j] = body[j]
      <3>1. x \in Seq(Extractor!Symbol) /\ body \in Seq(Extractor!Symbol) /\ y = x \o body
        BY <2>1, <2>3 DEF Symbols
      <3>2. /\ y \in Seq(Extractor!Symbol) /\ Len(y) = Len(x) + Len(body)
            /\ \A j \in 1 .. Len(x) : y[j] = x[j]
            /\ \A j \in 1 .. Len(body) : y[Len(x) + j] = body[j]
        BY <3>1, JoinIs
      <3>3. QED
        BY <3>2, Zenon DEF Symbols
    <2>5. z \in Symbols
      <3>1. Extractor!Close(t) \in Symbols
        BY <1>3, <2>1, TagsAre
      <3>2. QED
        BY <2>1, <3>1 DEF Symbols
    <2>6. /\ Len(w) = Len(y) + Len(z)
          /\ \A j \in 1 .. Len(y) : w[j] = y[j]
          /\ \A j \in 1 .. Len(z) : w[Len(y) + j] = z[j]
      <3>1. y \in Seq(Extractor!Symbol) /\ z \in Seq(Extractor!Symbol)
        BY <2>4, <2>5, Zenon DEF Symbols
      <3>2. QED
        BY <2>2, <3>1, JoinIs
    <2>7. Len(body) \in Nat /\ Len(y) = Len(body) + 3
      BY <1>1, <2>1, <2>3, <2>4
    <2>8. w[1] = "<" /\ w[2] = t /\ w[3] = ">" /\ \A j \in 1 .. Len(body) : w[3 + j] = body[j]
      <3>1. \A j \in 1 .. 3 : w[j] = x[j]
        BY <2>3, <2>4, <2>6, <2>7
      <3>2. ASSUME NEW j \in 1 .. Len(body) PROVE w[3 + j] = body[j]
        <4>1. 3 + j \in 1 .. Len(y)
          BY <2>7
        <4>2. QED
          BY <2>3, <2>4, <2>6, <4>1
      <3>3. QED
        BY <2>3, <3>1, <3>2
    <2>9. CASE s.closed
      <3>1. z = <<"<", "/", t, ">">>
        BY <2>1, <2>9 DEF Extractor!Close
      <3>2. Len(z) = 4 /\ z[1] = "<" /\ z[2] = "/" /\ z[3] = t /\ z[4] = ">"
        BY <3>1
      <3>3. /\ w[Len(y) + 1] = "<" /\ w[Len(y) + 2] = "/" /\ w[Len(y) + 3] = t
            /\ w[Len(y) + 4] = ">" /\ Len(w) = Len(y) + 4
        BY <2>6, <3>2
      <3>4. /\ w[Len(body) + 4] = "<" /\ w[Len(body) + 5] = "/" /\ w[Len(body) + 6] = t
            /\ w[Len(body) + 7] = ">" /\ Len(w) = Len(body) + 7
        BY <2>7, <3>3
      <3>5. QED
        BY <1>3, <2>1, <2>7, <2>8, <2>9, <3>4 DEF InTag
    <2>10. CASE ~s.closed
      <3>1. z = <<>>
        BY <2>1, <2>10
      <3>2. Len(w) = Len(body) + 3
        BY <2>6, <2>7, <3>1
      <3>3. QED
        BY <1>3, <2>1, <2>7, <2>8, <2>10, <3>2 DEF InTag
    <2>11. QED
      BY <2>9, <2>10
  <1>4. QED
    BY <1>2, <1>3

\* and wherever else the same symbols stand.
LEMMA Shifted ==
    ASSUME NEW s \in Extractor!Segment, NEW w \in Symbols, NEW T, NEW o \in Nat,
           \A j \in 1 .. Len(w) : T[o + j] = w[j]
    PROVE  /\ InTag(s, 0, Len(w), w) => InTag(s, o, o + Len(w), T)
           /\ Bare(s, 0, Len(w), w) => Bare(s, o, o + Len(w), T)
  <1>1. PICK n, l \in Nat : n = Len(w) /\ l = Len(s.body)
    BY SegmentIs DEF Symbols
  <1>2. \A j \in 1 .. n : T[o + j] = w[j]
    BY <1>1
  <1>3. ASSUME Bare(s, 0, Len(w), w) PROVE Bare(s, o, o + Len(w), T)
    <2>1. n = l /\ \A j \in 1 .. l : w[j] = s.body[j]
      BY <1>1, <1>3 DEF Bare
    <2>2. QED
      BY <1>1, <1>2, <2>1 DEF Bare
  <1>4. ASSUME InTag(s, 0, Len(w), w) PROVE InTag(s, o, o + Len(w), T)
    <2>1. /\ w[1] = "<" /\ w[2] = s.tag /\ w[3] = ">"
          /\ \A j \in 1 .. l : w[3 + j] = s.body[j]
          /\ s.closed => /\ n = l + 7 /\ w[l + 4] = "<" /\ w[l + 5] = "/"
                         /\ w[l + 6] = s.tag /\ w[l + 7] = ">"
          /\ ~s.closed => n = l + 3
          /\ s.closed \in BOOLEAN
      BY <1>1, <1>4, SegmentIs DEF InTag
    <2>2. n >= l + 3
      BY <2>1
    <2>3. T[o + 1] = "<" /\ T[o + 2] = s.tag /\ T[o + 3] = ">"
      BY <1>2, <2>1, <2>2
    <2>4. ASSUME NEW j \in 1 .. l PROVE T[o + 3 + j] = s.body[j]
      <3>1. 3 + j \in 1 .. n /\ o + (3 + j) = o + 3 + j
        BY <2>2
      <3>2. QED
        BY <1>2, <2>1, <3>1
    <2>5. ASSUME s.closed
          PROVE  /\ o + n = o + l + 7 /\ T[o + l + 4] = "<" /\ T[o + l + 5] = "/"
                 /\ T[o + l + 6] = s.tag /\ T[o + l + 7] = ">"
      <3>1. /\ l + 4 \in 1 .. n /\ l + 5 \in 1 .. n /\ l + 6 \in 1 .. n /\ l + 7 \in 1 .. n
            /\ o + (l + 4) = o + l + 4 /\ o + (l + 5) = o + l + 5
            /\ o + (l + 6) = o + l + 6 /\ o + (l + 7) = o + l + 7
        BY <2>1, <2>5
      <3>2. /\ T[o + (l + 4)] = w[l + 4] /\ T[o + (l + 5)] = w[l + 5]
            /\ T[o + (l + 6)] = w[l + 6] /\ T[o + (l + 7)] = w[l + 7]
        BY <1>2, <3>1
      <3>3. QED
        BY <2>1, <2>5, <3>1, <3>2
    <2>6. ~s.closed => o + n = o + l + 3
      BY <2>1
    <2>7. QED
      BY <1>1, <2>3, <2>4, <2>5, <2>6 DEF InTag
  <1>5. QED
    BY <1>3, <1>4

Said == [key : Extractor!Key, symbol : Extractor!Symbol]

\* What a segment means.
MeaningOf(s) == IF s.tag = "orphan" THEN <<>> ELSE Extractor!Tagged(s.tag, s.body)

\* What a segment means, where it stands in the meaning.
LEMMA MeaningIs ==
    ASSUME NEW s \in Extractor!Segment, NEW m \in Nat, NEW M,
           \A j \in 1 .. Len(MeaningOf(s)) : M[m + j] = MeaningOf(s)[j]
    PROVE  MeaningOf(s) \in Seq(Said) /\ Means(s, m, m + Len(MeaningOf(s)), M)
  <1>1. /\ s.body \in Symbols /\ Len(s.body) \in Nat
        /\ s.tag \in Known \cup {Outside, "orphan"}
    BY SegmentIs
  <1>2. CASE s.tag = "orphan"
    <2>1. MeaningOf(s) = <<>> /\ \A Q : <<>> \in Seq(Q) /\ Len(<<>>) = 0
      BY <1>2 DEF MeaningOf
    <2>2. QED
      BY <1>2, <2>1 DEF Means
  <1>3. CASE s.tag # "orphan"
    <2>1. s.tag \in Extractor!Key
      BY <1>1, <1>3 DEF Extractor!Key
    <2>2. /\ DOMAIN s.body = 1 .. Len(s.body)
          /\ \A j \in 1 .. Len(s.body) : s.body[j] \in Extractor!Symbol
      BY <1>1 DEF Symbols
    <2>3. \A j \in 1 .. Len(s.body) : [key |-> s.tag, symbol |-> s.body[j]] \in Said
      BY <2>1, <2>2 DEF Said
    <2>4. MeaningOf(s) = [j \in 1 .. Len(s.body) |-> [key |-> s.tag, symbol |-> s.body[j]]]
      BY <1>3, <2>2 DEF MeaningOf, Extractor!Tagged
    <2> HIDE DEF Said
    <2>5. MeaningOf(s) \in [1 .. Len(s.body) -> Said]
      BY <2>3, <2>4
    <2>6. MeaningOf(s) \in Seq(Said) /\ Len(MeaningOf(s)) = Len(s.body)
      <3>1. \A f, n : n \in Nat /\ f \in [1 .. n -> Said] => f \in Seq(Said) /\ Len(f) = n
        OBVIOUS
      <3>2. QED
        BY <1>1, <2>5, <3>1, Zenon
    <2>7. \A j \in 1 .. Len(s.body) : M[m + j] = [key |-> s.tag, symbol |-> s.body[j]]
      BY <2>4, <2>6
    <2>8. QED
      BY <1>3, <2>6, <2>7 DEF Means
  <1>4. QED
    BY <1>2, <1>3

\* Every answer has a layout.
LEMMA Layouts ==
    ASSUME NEW a \in Answers
    PROVE  /\ a \in Seq(Extractor!Segment) /\ Extractor!Readable(a)
           /\ Extractor!Text(a) \in Symbols
           /\ Extractor!Meant(a) \in Seq(Said)
           /\ \E start, from :
                Layout(a, Extractor!Text(a), Extractor!Meant(a), start, from)
  <1> DEFINE parts == [i \in DOMAIN a |-> Extractor!Written(a[i])]
             means == [i \in DOMAIN a |-> MeaningOf(a[i])]
             T == Extractor!Text(a)
             M == Extractor!Meant(a)
  <1>1. a \in Seq(Extractor!Segment) /\ Extractor!Readable(a)
    BY PathAssumption DEF Extractor!TagAssumption
  <1>2. /\ Len(a) \in Nat /\ DOMAIN a = 1 .. Len(a)
        /\ \A i \in 1 .. Len(a) : a[i] \in Extractor!Segment
    BY <1>1
  <1>3. \A i \in 1 .. Len(a) : Extractor!Written(a[i]) \in Symbols
    BY <1>2, SegmentIs
  <1>4. \A s \in Extractor!Segment : MeaningOf(s) \in Seq(Said)
    <2> SUFFICES ASSUME NEW s \in Extractor!Segment PROVE MeaningOf(s) \in Seq(Said)
      OBVIOUS
    <2>1. /\ 0 \in Nat
          /\ \A j \in 1 .. Len(MeaningOf(s)) :
               [i \in Nat |-> MeaningOf(s)[i]][0 + j] = MeaningOf(s)[j]
      OBVIOUS
    <2>2. QED
      BY <2>1, MeaningIs
  <1>5. T = Extractor!FlattenSeq(parts) /\ M = Extractor!FlattenSeq(means)
    BY DEF Extractor!Text, Extractor!Meant, MeaningOf
  <1>6. /\ parts \in Seq(Symbols) /\ Len(parts) = Len(a)
        /\ \A i \in 1 .. Len(a) : parts[i] = Extractor!Written(a[i])
    <2>1. /\ parts \in [1 .. Len(a) -> Symbols]
          /\ \A i \in 1 .. Len(a) : parts[i] = Extractor!Written(a[i])
      BY <1>2, <1>3
    <2> HIDE DEF parts
    <2>2. QED
      BY <1>2, <2>1
  <1>7. /\ means \in Seq(Seq(Said)) /\ Len(means) = Len(a)
        /\ \A i \in 1 .. Len(a) : means[i] = MeaningOf(a[i])
    <2>1. means \in [1 .. Len(a) -> Seq(Said)] /\ \A i \in 1 .. Len(a) : means[i] = MeaningOf(a[i])
      BY <1>2, <1>4
    <2> HIDE DEF means
    <2>2. QED
      BY <1>2, <2>1
  <1> HIDE DEF parts, means
  <1>8. PICK start : Pieces(parts, start, T)
    BY <1>5, <1>6, FlattenPieces DEF Symbols
  <1>9. PICK from : Pieces(means, from, M)
    BY <1>5, <1>7, FlattenPieces
  <1>10. T \in Symbols /\ M \in Seq(Said)
    BY <1>5, <1>6, <1>7, FlattenTypes DEF Symbols
  <1> HIDE DEF T, M
  <1>11. ASSUME NEW k \in 1 .. Len(a)
         PROVE  /\ start[k + 1] <= Len(T) /\ from[k + 1] <= Len(M)
                /\ SegmentAt(a[k], start[k], start[k + 1], from[k], from[k + 1], T, M)
    <2>1. PICK s, w, o, m : s = a[k] /\ w = Extractor!Written(s) /\ o = start[k] /\ m = from[k]
      OBVIOUS
    <2>2. s \in Extractor!Segment /\ w \in Symbols
      BY <1>2, <1>3, <2>1
    <2>3. k \in 1 .. Len(a) + 1
      BY <1>2
    <2>4. /\ start[k + 1] = o + Len(w) /\ start[k + 1] <= Len(T) /\ o \in Nat
          /\ \A j \in 1 .. Len(w) : T[o + j] = w[j]
      <3>1. /\ start \in [1 .. Len(a) + 1 -> Nat]
            /\ start[k + 1] = start[k] + Len(parts[k]) /\ start[k + 1] <= Len(T)
            /\ \A j \in 1 .. Len(parts[k]) : T[start[k] + j] = parts[k][j]
        BY <1>6, <1>8 DEF Pieces
      <3>2. parts[k] = w /\ start[k] = o
        BY <1>6, <2>1
      <3>3. QED
        BY <2>3, <3>1, <3>2
    <2>5. /\ from[k + 1] = m + Len(MeaningOf(s)) /\ from[k + 1] <= Len(M) /\ m \in Nat
          /\ \A j \in 1 .. Len(MeaningOf(s)) : M[m + j] = MeaningOf(s)[j]
      <3>1. /\ from \in [1 .. Len(a) + 1 -> Nat]
            /\ from[k + 1] = from[k] + Len(means[k]) /\ from[k + 1] <= Len(M)
            /\ \A j \in 1 .. Len(means[k]) : M[from[k] + j] = means[k][j]
        BY <1>7, <1>9 DEF Pieces
      <3>2. means[k] = MeaningOf(s) /\ from[k] = m
        BY <1>7, <2>1
      <3>3. QED
        BY <2>3, <3>1, <3>2
    <2>6. IF s.tag \in Known THEN InTag(s, 0, Len(w), w) ELSE Bare(s, 0, Len(w), w)
      BY <2>1, <2>2, WrittenIs
    <2>7. IF s.tag \in Known THEN InTag(s, o, o + Len(w), T) ELSE Bare(s, o, o + Len(w), T)
      BY <2>2, <2>4, <2>6, Shifted
    <2>8. Means(s, m, m + Len(MeaningOf(s)), M)
      BY <2>2, <2>5, MeaningIs
    <2>9. SegmentAt(s, o, o + Len(w), m, m + Len(MeaningOf(s)), T, M)
      BY <2>7, <2>8 DEF SegmentAt
    <2>10. QED
      BY <2>1, <2>4, <2>5, <2>9
  <1>12. Layout(a, T, M, start, from)
    BY <1>2, <1>6, <1>7, <1>8, <1>9, <1>11 DEF Layout, Pieces
  <1>13. QED
    BY <1>1, <1>10, <1>12 DEF T, M

-----------------------------------------------------------------------------
(* Inside a tag.                                                           *)

\* Of a text whose first p symbols have been passed on, and of what is written
\* after it, the buffer holds the beginning.
Ahead(text, p, t, after) ==
    \A i \in 1 .. Len(buffer) :
      /\ p + i <= Len(text) => buffer[i] = text[p + i]
      /\ p + i = Len(text) + 1 => after # "end" /\ buffer[i] = "<"
      /\ p + i = Len(text) + 2 => IF after = "close" THEN buffer[i] = "/" ELSE buffer[i] \in Word
      /\ p + i = Len(text) + 3 => buffer[i] = IF after = "close" THEN t ELSE ">"
      /\ p + i = Len(text) + 4 /\ after = "close" => buffer[i] = ">"
      /\ after = "end" => p + i <= Len(text)

\* What has been passed on last of it.
Behind(text, p) == IF p = 0 THEN prev # "tick" ELSE prev = text[p]

\* What a text in the tag t must be to be read as it was meant.
Sound(text, t, after) ==
    /\ \A i \in DOMAIN text : Extractor!TagAt(text, i) => Extractor!Spared(text, i, 3)
    /\ \A i \in DOMAIN text : Extractor!CloseAt(text, i, t) => Extractor!Spared(text, i, 4)
    /\ text # <<>> /\ after # "end" => text[Len(text)] # "tick"
    /\ after = "open" => \A i \in DOMAIN text : text[i] = "<" => Extractor!TagAt(text, i)

\* All of this.
Inside(text, p, t, after) ==
    /\ state = t /\ t \in Known /\ text \in Symbols /\ p \in 0 .. Len(text)
    /\ after \in {"close", "open", "end"}
    /\ Ahead(text, p, t, after) /\ Behind(text, p) /\ Sound(text, t, after)

LEMMA WordsAre ==
    /\ \A w \in Word : w \notin {"<", "/", ">", "tick"}
    /\ Known \subseteq Word /\ Outside \notin Known /\ "tool" \in Known
  BY PathAssumption DEF Extractor!TagAssumption, Extractor!Mark

LEMMA LengthsAre ==
    ASSUME NEW q \in Symbols
    PROVE  /\ Len(q) \in Nat /\ DOMAIN q = 1 .. Len(q) /\ (q # <<>> <=> Len(q) > 0)
           /\ \A i \in 1 .. Len(q) : q[i] \in Extractor!Symbol
  BY DEF Symbols

\* A tag, or a close tag, that begins in the text is in the text.
LEMMA TagsInText ==
    ASSUME buffer \in Symbols, NEW text, NEW p, NEW t, NEW after, Inside(text, p, t, after),
           NEW i \in 1 .. Len(buffer), p + i <= Len(text), buffer[i] = "<"
    PROVE  /\ i + 2 <= Len(buffer) /\ buffer[i + 1] \in Word /\ buffer[i + 2] = ">"
                => Extractor!TagAt(text, p + i) /\ p + i + 2 <= Len(text)
           /\ (/\ i + 3 <= Len(buffer) /\ buffer[i + 1] = "/"
               /\ buffer[i + 2] = t /\ buffer[i + 3] = ">")
                => Extractor!CloseAt(text, p + i, t) /\ p + i + 3 <= Len(text)
  <1>1. /\ Len(buffer) \in Nat /\ Len(text) \in Nat /\ p \in Nat /\ t \in Known
        /\ DOMAIN text = 1 .. Len(text)
    BY LengthsAre DEF Inside
  <1>2. ASSUME NEW j \in 1 .. Len(buffer)
        PROVE  /\ p + j <= Len(text) => buffer[j] = text[p + j]
               /\ p + j = Len(text) + 1 => buffer[j] = "<"
    BY DEF Inside, Ahead
  <1>3. ASSUME i + 2 <= Len(buffer), buffer[i + 1] \in Word, buffer[i + 2] = ">"
        PROVE  Extractor!TagAt(text, p + i) /\ p + i + 2 <= Len(text)
    <2>1. p + i # Len(text)
      <3>1. SUFFICES ASSUME p + i = Len(text) PROVE FALSE
        OBVIOUS
      <3>2. i + 1 \in 1 .. Len(buffer) /\ p + (i + 1) = Len(text) + 1
        BY <1>1, <1>3, <3>1
      <3>3. buffer[i + 1] = "<"
        BY <1>2, <3>2
      <3>4. QED
        BY <1>3, <3>3, WordsAre
    <2>2. p + i + 1 # Len(text)
      <3>1. SUFFICES ASSUME p + i + 1 = Len(text) PROVE FALSE
        OBVIOUS
      <3>2. i + 2 \in 1 .. Len(buffer) /\ p + (i + 2) = Len(text) + 1
        BY <1>1, <1>3, <3>1
      <3>3. buffer[i + 2] = "<"
        BY <1>2, <3>2
      <3>4. QED
        BY <1>3, <3>3
    <2>3. p + i + 2 <= Len(text)
      <3>1. \A x, n \in Nat : x <= n /\ x # n /\ x + 1 # n => x + 2 <= n
        OBVIOUS
      <3>2. p + i \in Nat /\ p + i <= Len(text)
        BY <1>1
      <3>3. QED
        BY <1>1, <2>1, <2>2, <3>1, <3>2, Zenon
    <2>4. /\ i + 1 \in 1 .. Len(buffer) /\ i + 2 \in 1 .. Len(buffer)
          /\ p + (i + 1) = p + i + 1 /\ p + (i + 2) = p + i + 2
          /\ p + i + 1 <= Len(text) /\ p + i + 2 \in DOMAIN text
      BY <1>1, <1>3, <2>3
    <2>5. text[p + i] = "<" /\ text[p + i + 1] \in Word /\ text[p + i + 2] = ">"
      BY <1>2, <1>3, <2>3, <2>4
    <2>6. QED
      BY <2>3, <2>4, <2>5 DEF Extractor!TagAt
  <1>4. ASSUME i + 3 <= Len(buffer), buffer[i + 1] = "/", buffer[i + 2] = t, buffer[i + 3] = ">"
        PROVE  Extractor!CloseAt(text, p + i, t) /\ p + i + 3 <= Len(text)
    <2>1. p + i # Len(text)
      <3>1. SUFFICES ASSUME p + i = Len(text) PROVE FALSE
        OBVIOUS
      <3>2. i + 1 \in 1 .. Len(buffer) /\ p + (i + 1) = Len(text) + 1
        BY <1>1, <1>4, <3>1
      <3>3. buffer[i + 1] = "<"
        BY <1>2, <3>2
      <3>4. QED
        BY <1>4, <3>3
    <2>2. p + i + 1 # Len(text)
      <3>1. SUFFICES ASSUME p + i + 1 = Len(text) PROVE FALSE
        OBVIOUS
      <3>2. i + 2 \in 1 .. Len(buffer) /\ p + (i + 2) = Len(text) + 1
        BY <1>1, <1>4, <3>1
      <3>3. buffer[i + 2] = "<"
        BY <1>2, <3>2
      <3>4. QED
        BY <1>1, <1>4, <3>3, WordsAre
    <2>3. p + i + 2 # Len(text)
      <3>1. SUFFICES ASSUME p + i + 2 = Len(text) PROVE FALSE
        OBVIOUS
      <3>2. i + 3 \in 1 .. Len(buffer) /\ p + (i + 3) = Len(text) + 1
        BY <1>1, <1>4, <3>1
      <3>3. buffer[i + 3] = "<"
        BY <1>2, <3>2
      <3>4. QED
        BY <1>4, <3>3
    <2>4. p + i + 3 <= Len(text)
      <3>1. \A x, n \in Nat : x <= n /\ x # n /\ x + 1 # n /\ x + 2 # n => x + 3 <= n
        OBVIOUS
      <3>2. p + i \in Nat /\ p + i <= Len(text)
        BY <1>1
      <3>3. QED
        BY <1>1, <2>1, <2>2, <2>3, <3>1, <3>2, Zenon
    <2>5. /\ i + 1 \in 1 .. Len(buffer) /\ i + 2 \in 1 .. Len(buffer) /\ i + 3 \in 1 .. Len(buffer)
          /\ p + (i + 1) = p + i + 1 /\ p + (i + 2) = p + i + 2 /\ p + (i + 3) = p + i + 3
          /\ p + i + 1 <= Len(text) /\ p + i + 2 <= Len(text) /\ p + i + 3 \in DOMAIN text
      BY <1>1, <1>4, <2>4
    <2>6. /\ text[p + i] = "<" /\ text[p + i + 1] = "/" /\ text[p + i + 2] = t
          /\ text[p + i + 3] = ">"
      BY <1>2, <1>4, <2>4, <2>5
    <2>7. QED
      BY <2>4, <2>5, <2>6 DEF Extractor!CloseAt
  <1>5. QED
    BY <1>3, <1>4

\* What stands between back-ticks in the text is escaped, however it was cut.
LEMMA SparedIsEscaped ==
    ASSUME buffer \in Symbols, NEW text \in Symbols, NEW p \in Nat, Behind(text, p),
           \A j \in 1 .. Len(buffer) : p + j <= Len(text) => buffer[j] = text[p + j],
           NEW i \in 1 .. Len(buffer), NEW l \in {3, 4}, i + l - 1 <= Len(buffer),
           Extractor!Spared(text, p + i, l)
    PROVE  Extractor!Escaped(i, l) /\ p + i + l <= Len(text)
  <1>1. Len(buffer) \in Nat /\ Len(text) \in Nat /\ DOMAIN text = 1 .. Len(text)
    BY LengthsAre
  <1>2. /\ p + i > 1 /\ p + i + l <= Len(text)
        /\ text[p + i - 1] = "tick" /\ text[p + i + l] = "tick"
    BY <1>1 DEF Extractor!Spared
  <1>3. IF i > 1 THEN buffer[i - 1] = "tick" ELSE prev = "tick"
    <2>1. CASE i > 1
      <3>1. i - 1 \in 1 .. Len(buffer) /\ p + (i - 1) = p + i - 1 /\ p + (i - 1) <= Len(text)
        BY <1>1, <1>2, <2>1
      <3>2. QED
        BY <1>2, <2>1, <3>1
    <2>2. CASE ~ i > 1
      <3>1. i = 1 /\ p > 0 /\ p + i - 1 = p
        BY <1>1, <1>2, <2>2
      <3>2. QED
        BY <1>2, <2>2, <3>1 DEF Behind
    <2>3. QED
      BY <2>1, <2>2
  <1>4. i + l > Len(buffer) \/ buffer[i + l] = "tick"
    <2>1. SUFFICES ASSUME ~ i + l > Len(buffer) PROVE buffer[i + l] = "tick"
      OBVIOUS
    <2>2. i + l \in 1 .. Len(buffer) /\ p + (i + l) = p + i + l
      BY <1>1, <2>1
    <2>3. QED
      BY <1>2, <2>2
  <1>5. QED
    BY <1>2, <1>3, <1>4 DEF Extractor!Escaped

\* What stands behind the text is not.
LEMMA EndIsNotEscaped ==
    ASSUME buffer \in Symbols, NEW text \in Symbols, NEW p \in 0 .. Len(text), Behind(text, p),
           \A j \in 1 .. Len(buffer) : p + j <= Len(text) => buffer[j] = text[p + j],
           text # <<>> => text[Len(text)] # "tick",
           NEW i \in 1 .. Len(buffer), p + i = Len(text) + 1, NEW l
    PROVE  ~ Extractor!Escaped(i, l)
  <1>1. Len(buffer) \in Nat /\ Len(text) \in Nat /\ (text # <<>> <=> Len(text) > 0)
    BY LengthsAre
  <1>2. CASE i > 1
    <2>1. i - 1 \in 1 .. Len(buffer) /\ p + (i - 1) = Len(text) /\ Len(text) > 0
      BY <1>1, <1>2
    <2>2. buffer[i - 1] # "tick"
      BY <1>1, <2>1
    <2>3. QED
      BY <1>2, <2>2 DEF Extractor!Escaped
  <1>3. CASE ~ i > 1
    <2>1. i = 1 /\ p = Len(text)
      BY <1>1, <1>3
    <2>2. prev # "tick"
      BY <1>1, <2>1 DEF Behind
    <2>3. QED
      BY <1>3, <2>2 DEF Extractor!Escaped
  <1>4. QED
    BY <1>2, <1>3

-----------------------------------------------------------------------------
(* Sequences, element by element.                                          *)

LEMMA PieceIs ==
    ASSUME NEW Q, NEW q \in Seq(Q)
    PROVE  /\ \A i \in 1 .. Len(q) + 1 :
                /\ Extractor!From(q, i) \in Seq(Q)
                /\ Len(Extractor!From(q, i)) = Len(q) - i + 1
                /\ \A j \in 1 .. Len(q) - i + 1 : Extractor!From(q, i)[j] = q[i + j - 1]
           /\ \A n \in 0 .. Len(q) :
                /\ Extractor!Upto(q, n) \in Seq(Q) /\ Len(Extractor!Upto(q, n)) = n
                /\ \A j \in 1 .. n : Extractor!Upto(q, n)[j] = q[j]
  <1>1. Len(q) \in Nat /\ \A j \in 1 .. Len(q) : q[j] \in Q
    OBVIOUS
  <1>2. ASSUME NEW i \in 1 .. Len(q) + 1, NEW j \in 1 .. Len(q) - i + 1
        PROVE  Extractor!From(q, i)[j] = q[i + j - 1]
    BY <1>1 DEF Extractor!From
  <1>3. ASSUME NEW n \in 0 .. Len(q), NEW j \in 1 .. n
        PROVE  Extractor!Upto(q, n)[j] = q[j]
    BY <1>1 DEF Extractor!Upto
  <1>4. QED
    BY <1>2, <1>3, PiecesAre

LEMMA PrefixIs ==
    ASSUME NEW Q, NEW q \in Seq(Q), NEW r \in Seq(Q)
    PROVE  Extractor!IsPrefix(q, r)
             <=> Len(q) <= Len(r) /\ \A i \in 1 .. Len(q) : q[i] = r[i]
  <1>1. Len(q) \in Nat /\ Len(r) \in Nat
    OBVIOUS
  <1>2. SUFFICES ASSUME Len(q) <= Len(r)
                 PROVE  SubSeq(q, 1, Len(q)) = SubSeq(r, 1, Len(q))
                          <=> \A i \in 1 .. Len(q) : q[i] = r[i]
    BY DEF Extractor!IsPrefix
  <1>3. /\ Len(SubSeq(q, 1, Len(q))) = Len(q) /\ Len(SubSeq(r, 1, Len(q))) = Len(q)
        /\ SubSeq(q, 1, Len(q)) \in Seq(Q) /\ SubSeq(r, 1, Len(q)) \in Seq(Q)
        /\ \A i \in 1 .. Len(q) : SubSeq(q, 1, Len(q))[i] = q[i] /\ SubSeq(r, 1, Len(q))[i] = r[i]
    BY <1>1, <1>2
  <1>4. ASSUME NEW x \in Seq(Q), NEW y \in Seq(Q), Len(x) = Len(y),
               \A i \in 1 .. Len(x) : x[i] = y[i]
        PROVE  x = y
    BY <1>4
  <1>5. QED
    BY <1>3, <1>4

LEMMA SuffixIs ==
    ASSUME NEW Q, NEW q \in Seq(Q), NEW r \in Seq(Q)
    PROVE  Extractor!IsSuffix(q, r)
             <=> Len(q) <= Len(r) /\ \A i \in 1 .. Len(q) : q[i] = r[Len(r) - Len(q) + i]
  <1>1. Len(q) \in Nat /\ Len(r) \in Nat
    OBVIOUS
  <1>2. \A x \in Seq(Q) : /\ Extractor!Reverse(x) \in Seq(Q)
                          /\ Len(Extractor!Reverse(x)) = Len(x)
                          /\ \A i \in 1 .. Len(x) : Extractor!Reverse(x)[i] = x[Len(x) - i + 1]
    BY DEF Extractor!Reverse
  <1>3. Extractor!IsSuffix(q, r)
          <=> Len(q) <= Len(r)
              /\ \A i \in 1 .. Len(q) : Extractor!Reverse(q)[i] = Extractor!Reverse(r)[i]
    BY <1>2, PrefixIs DEF Extractor!IsSuffix
  <1>4. SUFFICES ASSUME Len(q) <= Len(r)
                 PROVE  (\A i \in 1 .. Len(q) : Extractor!Reverse(q)[i] = Extractor!Reverse(r)[i])
                          <=> \A i \in 1 .. Len(q) : q[i] = r[Len(r) - Len(q) + i]
    BY <1>3
  <1>5. ASSUME NEW i \in 1 .. Len(q)
        PROVE  /\ Extractor!Reverse(q)[i] = q[Len(q) - i + 1]
               /\ Extractor!Reverse(r)[i] = r[Len(r) - i + 1]
               /\ Len(q) - i + 1 \in 1 .. Len(q)
               /\ Len(q) - (Len(q) - i + 1) + 1 = i
               /\ Len(r) - Len(q) + (Len(q) - i + 1) = Len(r) - i + 1
               /\ Len(r) - (Len(q) - i + 1) + 1 = Len(r) - Len(q) + i
    BY <1>1, <1>2, <1>4
  <1>6. ASSUME \A i \in 1 .. Len(q) : Extractor!Reverse(q)[i] = Extractor!Reverse(r)[i],
               NEW i \in 1 .. Len(q)
        PROVE  q[i] = r[Len(r) - Len(q) + i]
    <2>1. PICK h \in 1 .. Len(q) : h = Len(q) - i + 1
      BY <1>5
    <2>2. Len(q) - h + 1 = i /\ Len(r) - h + 1 = Len(r) - Len(q) + i
      BY <1>5, <2>1
    <2>3. q[Len(q) - h + 1] = r[Len(r) - h + 1]
      BY <1>5, <1>6
    <2>4. QED
      BY <2>2, <2>3
  <1>7. ASSUME \A i \in 1 .. Len(q) : q[i] = r[Len(r) - Len(q) + i],
               NEW i \in 1 .. Len(q)
        PROVE  Extractor!Reverse(q)[i] = Extractor!Reverse(r)[i]
    <2>1. PICK h \in 1 .. Len(q) : h = Len(q) - i + 1
      BY <1>5
    <2>2. Len(r) - Len(q) + h = Len(r) - i + 1
      BY <1>5, <2>1
    <2>3. q[h] = r[Len(r) - i + 1]
      BY <1>7, <2>2
    <2>4. QED
      BY <1>5, <2>1, <2>3
  <1>8. QED
    BY <1>6, <1>7

\* What the state operators of the extractor say of the buffer.
LEMMA FirstOnes ==
    ASSUME buffer \in Symbols, NEW x
    PROVE  LET n == Extractor!FirstOf(x) IN
           /\ n \in 0 .. Len(buffer) /\ (n > 0 => buffer[n] = x)
           /\ \A j \in 1 .. Len(buffer) : buffer[j] = x => n > 0 /\ n <= j
  <1>1. Len(buffer) \in Nat /\ DOMAIN buffer = 1 .. Len(buffer)
    BY LengthsAre
  <1>2. ASSUME NEW j \in 1 .. Len(buffer), buffer[j] = x
        PROVE  Extractor!FirstOf(x) > 0 /\ Extractor!FirstOf(x) <= j
    <2>1. j \in Extractor!Places(x) /\ Extractor!Places(x) \in SUBSET Nat
      BY <1>1, <1>2 DEF Extractor!Places
    <2>2. \E i \in Extractor!Places(x) : \A y \in Extractor!Places(x) : i <= y
      BY <2>1, LeastNat
    <2>3. /\ Extractor!Min(Extractor!Places(x)) \in Extractor!Places(x)
          /\ \A y \in Extractor!Places(x) : Extractor!Min(Extractor!Places(x)) <= y
      BY <2>2 DEF Extractor!Min
    <2>4. Extractor!FirstOf(x) \in Extractor!Places(x) /\ Extractor!FirstOf(x) <= j
      BY <2>1, <2>3 DEF Extractor!FirstOf
    <2>5. QED
      BY <1>1, <2>4 DEF Extractor!Places
  <1>3. QED
    BY <1>2, FirstIs

LEMMA OpenOccurs ==
    ASSUME buffer \in Symbols, NEW t \in Known
    PROVE  Extractor!Occurs(Extractor!Open(t), 1)
             <=> Len(buffer) >= 3 /\ buffer[1] = "<" /\ buffer[2] = t /\ buffer[3] = ">"
  <1>1. Len(buffer) \in Nat
    BY LengthsAre
  <1>2. PICK x, y : x = Extractor!Open(t) /\ y = Extractor!From(buffer, 1)
    OBVIOUS
  <1>3. x \in Seq(Extractor!Symbol) /\ Len(x) = 3 /\ x[1] = "<" /\ x[2] = t /\ x[3] = ">"
    <2>1. x = <<"<", t, ">">> /\ x \in Seq(Extractor!Symbol)
      BY <1>2, TagsAre DEF Extractor!Open, Symbols
    <2>2. QED
      BY <2>1
  <1>4. /\ y \in Seq(Extractor!Symbol) /\ Len(y) = Len(buffer)
        /\ \A j \in 1 .. Len(buffer) : y[j] = buffer[j]
    <2>1. 1 \in 1 .. Len(buffer) + 1
      BY <1>1
    <2>2. /\ y \in Seq(Extractor!Symbol) /\ Len(y) = Len(buffer) - 1 + 1
          /\ \A j \in 1 .. Len(buffer) - 1 + 1 : y[j] = buffer[1 + j - 1]
      BY <1>2, <2>1, PieceIs DEF Symbols
    <2>3. Len(buffer) - 1 + 1 = Len(buffer) /\ \A j \in 1 .. Len(buffer) : 1 + j - 1 = j
      BY <1>1
    <2>4. QED
      BY <2>2, <2>3
  <1>5. Extractor!IsPrefix(x, y) <=> 3 <= Len(buffer) /\ \A i \in 1 .. 3 : x[i] = y[i]
    <2>1. x \in Seq(Extractor!Symbol) /\ y \in Seq(Extractor!Symbol)
      BY <1>3, <1>4
    <2>2. Extractor!IsPrefix(x, y) <=> Len(x) <= Len(y) /\ \A j \in 1 .. Len(x) : x[j] = y[j]
      BY <2>1, PrefixIs
    <2>3. QED
      BY <1>3, <1>4, <2>2, Zenon
  <1>6. QED
    BY <1>1, <1>2, <1>3, <1>4, <1>5 DEF Extractor!Occurs

LEMMA SlashOccurs ==
    ASSUME buffer \in Symbols
    PROVE  Extractor!Occurs(<<"<", "/">>, 1)
             <=> Len(buffer) >= 2 /\ buffer[1] = "<" /\ buffer[2] = "/"
  <1>1. Len(buffer) \in Nat
    BY LengthsAre
  <1>2. PICK x, y : x = <<"<", "/">> /\ y = Extractor!From(buffer, 1)
    OBVIOUS
  <1>3. x \in Seq(Extractor!Symbol) /\ Len(x) = 2 /\ x[1] = "<" /\ x[2] = "/"
    BY <1>2 DEF Extractor!Symbol, Extractor!Mark
  <1>4. /\ y \in Seq(Extractor!Symbol) /\ Len(y) = Len(buffer)
        /\ \A j \in 1 .. Len(buffer) : y[j] = buffer[j]
    <2>1. 1 \in 1 .. Len(buffer) + 1
      BY <1>1
    <2>2. /\ y \in Seq(Extractor!Symbol) /\ Len(y) = Len(buffer) - 1 + 1
          /\ \A j \in 1 .. Len(buffer) - 1 + 1 : y[j] = buffer[1 + j - 1]
      BY <1>2, <2>1, PieceIs DEF Symbols
    <2>3. Len(buffer) - 1 + 1 = Len(buffer) /\ \A j \in 1 .. Len(buffer) : 1 + j - 1 = j
      BY <1>1
    <2>4. QED
      BY <2>2, <2>3
  <1>5. Extractor!IsPrefix(x, y) <=> 2 <= Len(buffer) /\ \A i \in 1 .. 2 : x[i] = y[i]
    <2>1. x \in Seq(Extractor!Symbol) /\ y \in Seq(Extractor!Symbol)
      BY <1>3, <1>4
    <2>2. Extractor!IsPrefix(x, y) <=> Len(x) <= Len(y) /\ \A j \in 1 .. Len(x) : x[j] = y[j]
      BY <2>1, PrefixIs
    <2>3. QED
      BY <1>3, <1>4, <2>2, Zenon
  <1>6. QED
    BY <1>1, <1>2, <1>3, <1>4, <1>5 DEF Extractor!Occurs

LEMMA ClosesIs ==
    ASSUME buffer \in Symbols, NEW t \in Known, state = t, NEW i \in 1 .. Len(buffer)
    PROVE  i \in Extractor!Closes
             <=> /\ i + 3 <= Len(buffer) /\ buffer[i] = "<" /\ buffer[i + 1] = "/"
                 /\ buffer[i + 2] = t /\ buffer[i + 3] = ">"
  <1>1. Len(buffer) \in Nat /\ DOMAIN buffer = 1 .. Len(buffer)
    BY LengthsAre
  <1>2. PICK x, y : x = Extractor!Close(t) /\ y = Extractor!From(buffer, i)
    OBVIOUS
  <1>3. /\ x \in Seq(Extractor!Symbol) /\ Len(x) = 4
        /\ x[1] = "<" /\ x[2] = "/" /\ x[3] = t /\ x[4] = ">"
    <2>1. x = <<"<", "/", t, ">">> /\ x \in Seq(Extractor!Symbol)
      BY <1>2, TagsAre DEF Extractor!Close, Symbols
    <2>2. QED
      BY <2>1
  <1>4. /\ y \in Seq(Extractor!Symbol) /\ Len(y) = Len(buffer) - i + 1
        /\ \A j \in 1 .. Len(buffer) - i + 1 : y[j] = buffer[i + j - 1]
    <2>1. i \in 1 .. Len(buffer) + 1
      BY <1>1
    <2>2. QED
      BY <1>2, <2>1, PieceIs DEF Symbols
  <1>5. Extractor!IsPrefix(x, y) <=> 4 <= Len(buffer) - i + 1 /\ \A j \in 1 .. 4 : x[j] = y[j]
    <2>1. x \in Seq(Extractor!Symbol) /\ y \in Seq(Extractor!Symbol)
      BY <1>3, <1>4
    <2>2. Extractor!IsPrefix(x, y) <=> Len(x) <= Len(y) /\ \A j \in 1 .. Len(x) : x[j] = y[j]
      BY <2>1, PrefixIs
    <2>3. QED
      BY <1>3, <1>4, <2>2, Zenon
  <1>6. 4 <= Len(buffer) - i + 1 <=> i + 3 <= Len(buffer)
    BY <1>1
  <1>7. i + 3 <= Len(buffer) =>
          y[1] = buffer[i] /\ y[2] = buffer[i + 1] /\ y[3] = buffer[i + 2] /\ y[4] = buffer[i + 3]
    <2>1. SUFFICES ASSUME i + 3 <= Len(buffer)
                   PROVE  /\ y[1] = buffer[i] /\ y[2] = buffer[i + 1]
                          /\ y[3] = buffer[i + 2] /\ y[4] = buffer[i + 3]
      OBVIOUS
    <2>2. /\ 1 \in 1 .. Len(buffer) - i + 1 /\ 2 \in 1 .. Len(buffer) - i + 1
          /\ 3 \in 1 .. Len(buffer) - i + 1 /\ 4 \in 1 .. Len(buffer) - i + 1
          /\ i + 1 - 1 = i /\ i + 2 - 1 = i + 1 /\ i + 3 - 1 = i + 2 /\ i + 4 - 1 = i + 3
      BY <1>1, <2>1
    <2>3. QED
      BY <1>4, <2>2
  <1>8. i \in Extractor!Closes <=> Extractor!IsPrefix(x, y)
    BY <1>1, <1>2 DEF Extractor!Closes, Extractor!Occurs
  <1>9. QED
    BY <1>3, <1>5, <1>6, <1>7, <1>8

-----------------------------------------------------------------------------
(* What the loop does inside a tag, as far as the text goes.               *)

\* The parts of Inside.
LEMMA InsideIs ==
    ASSUME buffer \in Symbols, NEW text, NEW p, NEW t, NEW after, Inside(text, p, t, after)
    PROVE  /\ Len(buffer) \in Nat /\ Len(text) \in Nat /\ p \in 0 .. Len(text)
           /\ t \in Known /\ state = t /\ text \in Symbols /\ (text # <<>> <=> Len(text) > 0)
           /\ after \in {"close", "open", "end"} /\ Behind(text, p) /\ Sound(text, t, after)
           /\ \A j \in 1 .. Len(buffer) : p + j <= Len(text) => buffer[j] = text[p + j]
           /\ \A j \in 1 .. Len(buffer) : p + j > Len(text) => after # "end"
           /\ \A j \in 1 .. Len(buffer) : p + j = Len(text) + 1 => buffer[j] = "<"
           /\ \A j \in 1 .. Len(buffer) : p + j = Len(text) + 2 =>
                IF after = "close" THEN buffer[j] = "/" ELSE buffer[j] \in Word
           /\ \A j \in 1 .. Len(buffer) : p + j = Len(text) + 3 =>
                buffer[j] = IF after = "close" THEN t ELSE ">"
           /\ \A j \in 1 .. Len(buffer) : p + j = Len(text) + 4 /\ after = "close" =>
                buffer[j] = ">"
           /\ after # "end" => (text # <<>> => text[Len(text)] # "tick")
  <1>1. Len(buffer) \in Nat /\ Len(text) \in Nat /\ (text # <<>> <=> Len(text) > 0)
    BY LengthsAre DEF Inside
  <1>2. /\ p \in 0 .. Len(text) /\ t \in Known /\ state = t /\ text \in Symbols
        /\ after \in {"close", "open", "end"} /\ Behind(text, p) /\ Sound(text, t, after)
        /\ Ahead(text, p, t, after)
    BY DEF Inside
  <1>3. \A j \in 1 .. Len(buffer) : p + j > Len(text) => after # "end"
    BY <1>1, <1>2 DEF Ahead
  <1>4. after # "end" => (text # <<>> => text[Len(text)] # "tick")
    BY <1>2 DEF Sound
  <1>5. QED
    BY <1>1, <1>2, <1>3, <1>4 DEF Ahead

\* A new tag in the buffer is either in the text, and escaped, or right behind it.
LEMMA TagInside ==
    ASSUME buffer \in Symbols, NEW text, NEW p, NEW t, NEW after, Inside(text, p, t, after),
           Extractor!NewTag, NEW f, f = Extractor!FirstOf("<")
    PROVE  /\ f \in 1 .. Len(buffer) /\ f + 2 <= Len(buffer)
           /\ \/ Extractor!Escaped(f, 3) /\ p + f + 2 <= Len(text) /\ text[p + f + 2] = ">"
              \/ ~ Extractor!Escaped(f, 3) /\ after = "open" /\ p + f = Len(text) + 1
  <1>1. /\ f \in 1 .. Len(buffer) /\ f + 2 <= Len(buffer)
        /\ buffer[f] = "<" /\ buffer[f + 1] \in Word /\ buffer[f + 2] = ">"
        /\ \A j \in 1 .. Len(buffer) : buffer[j] = "<" => f <= j
    BY InsideIs, FirstOnes DEF Extractor!NewTag
  <1>2. /\ Len(buffer) \in Nat /\ Len(text) \in Nat /\ p \in Nat /\ p <= Len(text)
        /\ text \in Symbols /\ Behind(text, p) /\ Sound(text, t, after)
        /\ DOMAIN text = 1 .. Len(text)
    BY InsideIs, LengthsAre
  <1>3. CASE p + f <= Len(text)
    <2>1. Extractor!TagAt(text, p + f) /\ p + f + 2 <= Len(text)
      BY <1>1, <1>3, TagsInText
    <2>2. p + f \in DOMAIN text
      BY <1>1, <1>2, <1>3
    <2>3. Extractor!Spared(text, p + f, 3)
      BY <1>2, <2>1, <2>2 DEF Sound
    <2>4. f + 3 - 1 <= Len(buffer)
      BY <1>1, <1>2
    <2>5. \A j \in 1 .. Len(buffer) : p + j <= Len(text) => buffer[j] = text[p + j]
      BY InsideIs
    <2>6. Extractor!Escaped(f, 3)
      BY <1>1, <1>2, <2>3, <2>4, <2>5, SparedIsEscaped
    <2>7. text[p + f + 2] = ">"
      BY <2>1 DEF Extractor!TagAt
    <2>8. QED
      BY <1>1, <2>1, <2>6, <2>7
  <1>4. CASE ~ p + f <= Len(text)
    <2>1. PICK j \in 1 .. Len(buffer) : p + j = Len(text) + 1
      <3>1. Len(text) - p + 1 \in 1 .. Len(buffer) /\ p + (Len(text) - p + 1) = Len(text) + 1
        BY <1>1, <1>2, <1>4
      <3>2. QED
        BY <3>1
    <2>2. buffer[j] = "<"
      BY <2>1, InsideIs
    <2>3. p + f = Len(text) + 1
      <3>1. f <= j
        BY <1>1, <2>2
      <3>2. f \in Nat /\ j \in Nat /\ p \in Nat /\ Len(text) \in Nat
        BY <1>1, <1>2
      <3>3. ~ p + f <= Len(text) /\ p + j = Len(text) + 1
        BY <1>4, <2>1, Zenon
      <3>4. QED
        BY <3>1, <3>2, <3>3
    <2>4. after # "end"
      BY <1>1, <1>2, <1>4, InsideIs
    <2>5. after = "open"
      <3>1. f + 1 \in 1 .. Len(buffer) /\ p + (f + 1) = Len(text) + 2
        <4>1. \A x, y, z, n \in Nat : x + 2 <= y /\ z + x = n + 1 =>
                 x + 1 \in 1 .. y /\ z + (x + 1) = n + 2
          OBVIOUS
        <4>2. /\ f \in Nat /\ Len(buffer) \in Nat /\ p \in Nat /\ Len(text) \in Nat
              /\ f + 2 <= Len(buffer)
          BY <1>1, <1>2
        <4>3. QED
          BY <2>3, <4>1, <4>2
      <3>2. after = "close" => buffer[f + 1] = "/"
        BY <3>1, InsideIs
      <3>3. after # "close"
        BY <1>1, <3>2, WordsAre
      <3>4. QED
        BY <2>4, <3>3, InsideIs
    <2>6. ~ Extractor!Escaped(f, 3)
      <3>1. /\ p \in 0 .. Len(text) /\ (text # <<>> => text[Len(text)] # "tick")
            /\ \A i \in 1 .. Len(buffer) : p + i <= Len(text) => buffer[i] = text[p + i]
        BY <2>4, InsideIs
      <3>2. QED
        BY <1>1, <1>2, <2>3, <3>1, EndIsNotEscaped
    <2>7. QED
      BY <1>1, <2>3, <2>5, <2>6
  <1>5. QED
    BY <1>3, <1>4

\* When the tag behind the text has come, it or one before it is seen.
LEMMA OpenIsSeen ==
    ASSUME buffer \in Symbols, NEW text, NEW p, NEW t, Inside(text, p, t, "open"),
           Len(text) + 3 <= p + Len(buffer)
    PROVE  Extractor!NewTag
  <1>1. /\ Len(buffer) \in Nat /\ Len(text) \in Nat /\ p \in Nat /\ p <= Len(text)
        /\ DOMAIN text = 1 .. Len(text) /\ Sound(text, t, "open")
    BY InsideIs, LengthsAre
  <1>2. PICK j \in 1 .. Len(buffer) : p + j = Len(text) + 1 /\ j + 2 <= Len(buffer)
    <2>1. /\ Len(text) - p + 1 \in 1 .. Len(buffer) /\ p + (Len(text) - p + 1) = Len(text) + 1
          /\ (Len(text) - p + 1) + 2 <= Len(buffer)
      BY <1>1
    <2>2. QED
      BY <2>1
  <1>3. buffer[j] = "<" /\ buffer[j + 1] \in Word /\ buffer[j + 2] = ">"
    <2>1. j + 1 \in 1 .. Len(buffer) /\ j + 2 \in 1 .. Len(buffer)
          /\ p + (j + 1) = Len(text) + 2 /\ p + (j + 2) = Len(text) + 3
      BY <1>1, <1>2
    <2>2. QED
      BY <1>2, <2>1, InsideIs
  <1>4. PICK f : f = Extractor!FirstOf("<")
    OBVIOUS
  <1>5. f \in 1 .. Len(buffer) /\ f <= j /\ buffer[f] = "<"
    BY <1>1, <1>3, <1>4, FirstOnes
  <1>6. CASE f = j
    BY <1>2, <1>3, <1>4, <1>5, <1>6 DEF Extractor!NewTag
  <1>7. CASE f # j
    <2>1. p + f <= Len(text) /\ p + f \in DOMAIN text
      BY <1>1, <1>2, <1>5, <1>7
    <2>2. text[p + f] = "<"
      BY <1>5, <2>1, InsideIs
    <2>3. Extractor!TagAt(text, p + f)
      BY <1>1, <2>1, <2>2 DEF Sound
    <2>4. p + f + 2 <= Len(text) /\ text[p + f + 1] \in Word /\ text[p + f + 2] = ">"
      BY <1>1, <2>3 DEF Extractor!TagAt
    <2>5. /\ f + 1 \in 1 .. Len(buffer) /\ f + 2 \in 1 .. Len(buffer)
          /\ p + (f + 1) = p + f + 1 /\ p + (f + 2) = p + f + 2
          /\ p + (f + 1) <= Len(text) /\ p + (f + 2) <= Len(text)
      BY <1>1, <1>2, <1>5, <1>7, <2>4
    <2>6. buffer[f + 1] = text[p + f + 1] /\ buffer[f + 2] = text[p + f + 2]
      BY <2>5, InsideIs
    <2>7. QED
      BY <1>4, <1>5, <2>4, <2>5, <2>6 DEF Extractor!NewTag
  <1>8. QED
    BY <1>6, <1>7

\* When the close tag behind the text has come, it is seen, and is real.
LEMMA CloseIsSeen ==
    ASSUME buffer \in Symbols, NEW text, NEW p, NEW t, Inside(text, p, t, "close"),
           Len(text) + 4 <= p + Len(buffer), NEW j, p + j = Len(text) + 1, j \in Nat
    PROVE  j \in Extractor!RealCloses /\ j \in Extractor!Closes
  <1>1. /\ Len(buffer) \in Nat /\ Len(text) \in Nat /\ p \in Nat /\ p <= Len(text)
        /\ p \in 0 .. Len(text) /\ text \in Symbols /\ t \in Known /\ state = t
        /\ Behind(text, p) /\ (text # <<>> => text[Len(text)] # "tick")
        /\ \A i \in 1 .. Len(buffer) : p + i <= Len(text) => buffer[i] = text[p + i]
    BY InsideIs
  <1>2. /\ j \in 1 .. Len(buffer) /\ j + 1 \in 1 .. Len(buffer) /\ j + 2 \in 1 .. Len(buffer)
        /\ j + 3 \in 1 .. Len(buffer) /\ p + (j + 1) = Len(text) + 2
        /\ p + (j + 2) = Len(text) + 3 /\ p + (j + 3) = Len(text) + 4
    BY <1>1
  <1>3. /\ buffer[j] = "<" /\ buffer[j + 1] = "/" /\ buffer[j + 2] = t /\ buffer[j + 3] = ">"
    BY <1>2, InsideIs
  <1>4. j \in Extractor!Closes
    BY <1>1, <1>2, <1>3, ClosesIs
  <1>5. ~ Extractor!Escaped(j, 4)
    BY <1>1, <1>2, EndIsNotEscaped
  <1>6. QED
    BY <1>4, <1>5 DEF Extractor!RealCloses

\* A close tag in the buffer is in the text, and escaped, or it is behind it.
LEMMA ClosesInside ==
    ASSUME buffer \in Symbols, NEW text, NEW p, NEW t, NEW after, Inside(text, p, t, after),
           ~ Extractor!NewTag, NEW i \in Extractor!Closes
    PROVE  /\ i \in 1 .. Len(buffer) /\ i + 3 <= Len(buffer)
           /\ \/ Extractor!Escaped(i, 4) /\ p + i + 3 <= Len(text) /\ text[p + i + 3] = ">"
              \/ after = "close" /\ p + i > Len(text)
  <1>1. /\ Len(buffer) \in Nat /\ Len(text) \in Nat /\ p \in Nat /\ p <= Len(text)
        /\ text \in Symbols /\ Behind(text, p) /\ Sound(text, t, after)
        /\ DOMAIN text = 1 .. Len(text) /\ t \in Known /\ state = t
        /\ \A j \in 1 .. Len(buffer) : p + j <= Len(text) => buffer[j] = text[p + j]
    BY InsideIs, LengthsAre
  <1>2. /\ i \in 1 .. Len(buffer) /\ i + 3 <= Len(buffer) /\ buffer[i] = "<"
        /\ buffer[i + 1] = "/" /\ buffer[i + 2] = t /\ buffer[i + 3] = ">"
    <2>1. i \in 1 .. Len(buffer)
      BY <1>1, ClosesAre
    <2>2. QED
      BY <1>1, <2>1, ClosesIs
  <1>3. CASE p + i <= Len(text)
    <2>1. Extractor!CloseAt(text, p + i, t) /\ p + i + 3 <= Len(text)
      BY <1>2, <1>3, TagsInText
    <2>2. p + i \in DOMAIN text
      BY <1>1, <1>2, <1>3
    <2>3. Extractor!Spared(text, p + i, 4)
      BY <1>1, <2>1, <2>2 DEF Sound
    <2>4. i + 4 - 1 <= Len(buffer)
      BY <1>1, <1>2
    <2>5. Extractor!Escaped(i, 4)
      BY <1>1, <1>2, <2>3, <2>4, SparedIsEscaped
    <2>6. text[p + i + 3] = ">"
      BY <2>1 DEF Extractor!CloseAt
    <2>7. QED
      BY <1>2, <2>1, <2>5, <2>6
  <1>4. CASE ~ p + i <= Len(text)
    <2>1. p + i > Len(text) /\ after # "end"
      BY <1>1, <1>2, <1>4, InsideIs
    <2>2. after # "open"
      <3>1. Len(text) + 3 <= p + Len(buffer)
        BY <1>1, <1>2, <2>1
      <3>2. QED
        BY <3>1, OpenIsSeen
    <2>3. QED
      BY <1>2, <2>1, <2>2, InsideIs
  <1>5. QED
    BY <1>3, <1>4

\* The first real close tag is the one that was written.
LEMMA RealIsWritten ==
    ASSUME buffer \in Symbols, NEW text, NEW p, NEW t, NEW after, Inside(text, p, t, after),
           ~ Extractor!NewTag, Extractor!RealCloses # {},
           NEW i, i = Extractor!Min(Extractor!RealCloses)
    PROVE  i \in 1 .. Len(buffer) /\ i + 3 <= Len(buffer)
           /\ after = "close" /\ p + i = Len(text) + 1
  <1>1. /\ Len(buffer) \in Nat /\ Len(text) \in Nat /\ p \in Nat /\ p <= Len(text)
        /\ t \in Known /\ state = t
    BY InsideIs
  <1>2. /\ Extractor!Closes \in SUBSET (1 .. Len(buffer))
        /\ Extractor!RealCloses \subseteq Extractor!Closes
    BY <1>1, ClosesAre
  <1>3. Extractor!RealCloses \in SUBSET Nat
    BY <1>1, <1>2
  <1>4. \E x \in Extractor!RealCloses : \A y \in Extractor!RealCloses : x <= y
    BY <1>3, LeastNat
  <1>5. i \in Extractor!RealCloses /\ \A y \in Extractor!RealCloses : i <= y
    BY <1>4 DEF Extractor!Min
  <1>6. i \in Extractor!Closes /\ ~ Extractor!Escaped(i, 4)
    BY <1>2, <1>5 DEF Extractor!RealCloses
  <1>7. /\ i \in 1 .. Len(buffer) /\ i + 3 <= Len(buffer)
        /\ after = "close" /\ p + i > Len(text)
    BY <1>6, ClosesInside
  <1>8. PICK j \in Nat : p + j = Len(text) + 1
    <2>1. Len(text) - p + 1 \in Nat /\ p + (Len(text) - p + 1) = Len(text) + 1
      BY <1>1
    <2>2. QED
      BY <2>1
  <1>9. Len(text) + 4 <= p + Len(buffer)
    BY <1>1, <1>7
  <1>10. j \in Extractor!RealCloses
    BY <1>7, <1>8, <1>9, CloseIsSeen
  <1>11. i <= j
    BY <1>5, <1>10
  <1>12. p + i = Len(text) + 1
    BY <1>1, <1>7, <1>8, <1>11
  <1>13. QED
    BY <1>7, <1>12

\* Where no close tag is real, all of them are in the text.
LEMMA EscapedIsInText ==
    ASSUME buffer \in Symbols, NEW text, NEW p, NEW t, NEW after, Inside(text, p, t, after),
           ~ Extractor!NewTag, Extractor!RealCloses = {}, Extractor!Closes # {},
           NEW i, i = Extractor!Max(Extractor!Closes)
    PROVE  i \in 1 .. Len(buffer) /\ i + 3 <= Len(buffer)
           /\ p + i + 3 <= Len(text) /\ text[p + i + 3] = ">"
  <1>1. /\ Len(buffer) \in Nat /\ Len(text) \in Nat /\ p \in Nat /\ p <= Len(text)
        /\ t \in Known /\ state = t
    BY InsideIs
  <1>2. Extractor!Closes \in SUBSET (0 .. Len(buffer))
    <2>1. Extractor!Closes \in SUBSET (1 .. Len(buffer))
      BY <1>1, ClosesAre
    <2>2. QED
      BY <1>1, <2>1
  <1>3. \E x \in Extractor!Closes : \A y \in Extractor!Closes : x >= y
    BY <1>1, <1>2, GreatestNat
  <1>4. i \in Extractor!Closes
    BY <1>3 DEF Extractor!Max
  <1>5. /\ i \in 1 .. Len(buffer) /\ i + 3 <= Len(buffer)
        /\ \/ p + i + 3 <= Len(text) /\ text[p + i + 3] = ">"
           \/ after = "close" /\ p + i > Len(text)
    BY <1>4, ClosesInside
  <1>6. ~ (after = "close" /\ p + i > Len(text))
    <2>1. SUFFICES ASSUME after = "close", p + i > Len(text) PROVE FALSE
      OBVIOUS
    <2>2. Len(text) + 4 <= p + Len(buffer)
      BY <1>1, <1>5, <2>1
    <2>3. PICK j \in Nat : p + j = Len(text) + 1
      <3>1. Len(text) - p + 1 \in Nat /\ p + (Len(text) - p + 1) = Len(text) + 1
        BY <1>1
      <3>2. QED
        BY <3>1
    <2>4. QED
      BY <2>1, <2>2, <2>3, CloseIsSeen
  <1>7. QED
    BY <1>5, <1>6

\* The lengths of the beginnings of the close tag with which the buffer ends.
Parts == {i \in 1 .. 3 : Extractor!IsSuffix(Extractor!Upto(Extractor!Close(state), i), buffer)}

\* The symbols of a close tag.
LEMMA CloseIs ==
    ASSUME NEW t \in Known
    PROVE  LET x == Extractor!Close(t) IN
           /\ x \in Symbols /\ Len(x) = 4
           /\ x[1] = "<" /\ x[2] = "/" /\ x[3] = t /\ x[4] = ">"
  <1>1. Extractor!Close(t) = <<"<", "/", t, ">">>
    BY DEF Extractor!Close
  <1>2. Extractor!Close(t) \in Symbols
    BY TagsAre
  <1>3. QED
    BY <1>1, <1>2

\* With a beginning of the close tag, the buffer ends in its last symbol.
LEMMA PartsAre ==
    ASSUME buffer \in Symbols, NEW t \in Known, state = t, NEW m \in Parts
    PROVE  /\ m \in 1 .. 3 /\ m <= Len(buffer)
           /\ buffer[Len(buffer)] = IF m = 1 THEN "<" ELSE IF m = 2 THEN "/" ELSE t
  <1>1. Len(buffer) \in Nat /\ m \in 1 .. 3
    BY LengthsAre DEF Parts
  <1>2. PICK x, y : x = Extractor!Close(t) /\ y = Extractor!Upto(x, m)
    OBVIOUS
  <1>3. /\ x \in Seq(Extractor!Symbol) /\ Len(x) = 4
        /\ x[1] = "<" /\ x[2] = "/" /\ x[3] = t /\ x[4] = ">"
    BY <1>2, CloseIs DEF Symbols
  <1>4. m \in 0 .. Len(x)
    BY <1>1, <1>3
  <1>5. y \in Seq(Extractor!Symbol) /\ Len(y) = m /\ \A j \in 1 .. m : y[j] = x[j]
    BY <1>2, <1>3, <1>4, PieceIs
  <1>6. Extractor!IsSuffix(y, buffer)
    BY <1>2 DEF Parts
  <1>7. buffer \in Seq(Extractor!Symbol)
    BY DEF Symbols
  <1>8. Len(y) <= Len(buffer) /\ \A i \in 1 .. Len(y) : y[i] = buffer[Len(buffer) - Len(y) + i]
    BY <1>5, <1>6, <1>7, SuffixIs
  <1>9. m <= Len(buffer) /\ y[m] = buffer[Len(buffer) - m + m]
    <2>1. m \in 1 .. Len(y)
      BY <1>1, <1>5
    <2>2. QED
      BY <1>5, <1>8, <2>1, SMTT(40)
  <1>10. Len(buffer) - m + m = Len(buffer) /\ y[m] = x[m]
    BY <1>1, <1>5
  <1>11. buffer[Len(buffer)] = x[m]
    <2>1. y[m] = buffer[Len(buffer)]
      BY <1>9, <1>10, Zenon
    <2>2. QED
      BY <1>10, <2>1, Zenon
  <1>12. x[m] = IF m = 1 THEN "<" ELSE IF m = 2 THEN "/" ELSE t
    BY <1>1, <1>3
  <1>13. QED
    BY <1>1, <1>9, <1>11, <1>12

\* What is passed on while the rest is held back is of the text.
LEMMA HeldInside ==
    ASSUME buffer \in Symbols, NEW text, NEW p, NEW t, NEW after, Inside(text, p, t, after),
           ~ Extractor!NewTag, Extractor!Closes = {}, Parts # {},
           NEW m, m = Extractor!Min(Parts)
    PROVE  /\ m \in Parts /\ m \in 1 .. 3 /\ m <= Len(buffer)
           /\ p + (Len(buffer) - m) <= Len(text)
           /\ after = "close" /\ p + Len(buffer) > Len(text) => p + Len(buffer) = Len(text) + m
  <1>1. /\ Len(buffer) \in Nat /\ Len(text) \in Nat /\ p \in Nat /\ p <= Len(text)
        /\ t \in Known /\ state = t /\ after \in {"close", "open", "end"}
    BY InsideIs
  <1>2. m \in Parts
    <2>1. Parts \in SUBSET Nat
      BY DEF Parts
    <2>2. \E x \in Parts : \A y \in Parts : x <= y
      BY <2>1, LeastNat
    <2>3. QED
      BY <2>2 DEF Extractor!Min
  <1>3. /\ m \in 1 .. 3 /\ m <= Len(buffer)
        /\ buffer[Len(buffer)] = IF m = 1 THEN "<" ELSE IF m = 2 THEN "/" ELSE t
    BY <1>1, <1>2, PartsAre
  <1>4. Len(buffer) \in 1 .. Len(buffer)
    BY <1>1, <1>3
  <1>5. CASE p + Len(buffer) <= Len(text)
    BY <1>1, <1>2, <1>3, <1>5
  <1>6. CASE p + Len(buffer) > Len(text)
    <2>1. after # "end"
      BY <1>4, <1>6, InsideIs
    <2>2. CASE after = "close"
      <3>1. p + Len(buffer) < Len(text) + 4
        <4>1. SUFFICES ASSUME ~ p + Len(buffer) < Len(text) + 4 PROVE FALSE
          OBVIOUS
        <4>2. PICK j \in Nat : p + j = Len(text) + 1
          <5>1. Len(text) - p + 1 \in Nat /\ p + (Len(text) - p + 1) = Len(text) + 1
            BY <1>1
          <5>2. QED
            BY <5>1
        <4>3. Len(text) + 4 <= p + Len(buffer)
          BY <1>1, <4>1
        <4>4. QED
          BY <2>2, <4>2, <4>3, CloseIsSeen
      <3>2. PICK d \in 1 .. 3 : p + Len(buffer) = Len(text) + d
        <4>1. /\ p + Len(buffer) - Len(text) \in 1 .. 3
              /\ p + Len(buffer) = Len(text) + (p + Len(buffer) - Len(text))
          BY <1>1, <1>6, <3>1
        <4>2. QED
          BY <4>1
      <3>3. buffer[Len(buffer)] = IF d = 1 THEN "<" ELSE IF d = 2 THEN "/" ELSE t
        BY <1>4, <2>2, <3>2, InsideIs
      <3>4. d = m
        BY <1>1, <1>3, <3>2, <3>3, WordsAre
      <3>5. QED
        BY <1>1, <1>2, <1>3, <3>2, <3>4
    <2>3. CASE after = "open"
      <3>1. p + Len(buffer) < Len(text) + 3
        <4>1. SUFFICES ASSUME ~ p + Len(buffer) < Len(text) + 3 PROVE FALSE
          OBVIOUS
        <4>2. Len(text) + 3 <= p + Len(buffer)
          BY <1>1, <4>1
        <4>3. QED
          BY <2>3, <4>2, OpenIsSeen
      <3>2. CASE p + Len(buffer) = Len(text) + 1
        BY <1>1, <1>2, <1>3, <2>3, <3>2
      <3>3. CASE p + Len(buffer) = Len(text) + 2
        <4>1. buffer[Len(buffer)] \in Word
          BY <1>4, <2>3, <3>3, InsideIs
        <4>2. m = 3
          BY <1>3, <4>1, WordsAre
        <4>3. QED
          BY <1>1, <1>2, <1>3, <2>3, <3>3, <4>2
      <3>4. QED
        BY <1>1, <1>6, <3>1, <3>2, <3>3
    <2>4. QED
      BY <1>1, <2>1, <2>2, <2>3
  <1>7. QED
    BY <1>1, <1>5, <1>6

\* Where the loop waits for more text there is nothing in the buffer that the
\* end of the text would leave behind.
Waits ==
    mode = "read" =>
      /\ state = Outside /\ buffer # <<>> =>
           /\ buffer[1] = "<"
           /\ \/ Len(buffer) < 3
              \/ buffer[2] = "/" /\ \A i \in 1 .. Len(buffer) : buffer[i] # ">"
      /\ state # Outside => \A i \in 1 .. Len(buffer) :
           /\ ~ (/\ i + 3 <= Len(buffer) /\ buffer[i] = "<" /\ buffer[i + 1] = "/"
                 /\ buffer[i + 2] = state /\ buffer[i + 3] = ">")
           /\ i + 2 <= Len(buffer) /\ buffer[i] = "<" /\ buffer[i + 1] \in Word
                /\ buffer[i + 2] = ">" => \E j \in 1 .. i - 1 : buffer[j] = "<"

\* Where no turn inside a tag can be made but to wait.
LEMMA WaitsIs ==
    ASSUME buffer \in Symbols, state \in Known
    PROVE  ~ Extractor!NewTag /\ Extractor!Closes = {} <=>
             \A i \in 1 .. Len(buffer) :
               /\ ~ (/\ i + 3 <= Len(buffer) /\ buffer[i] = "<" /\ buffer[i + 1] = "/"
                     /\ buffer[i + 2] = state /\ buffer[i + 3] = ">")
               /\ i + 2 <= Len(buffer) /\ buffer[i] = "<" /\ buffer[i + 1] \in Word
                    /\ buffer[i + 2] = ">" => \E j \in 1 .. i - 1 : buffer[j] = "<"
  <1>1. Len(buffer) \in Nat
    BY LengthsAre
  <1>2. PICK t \in Known : state = t
    OBVIOUS
  <1>3. Extractor!Closes \in SUBSET (1 .. Len(buffer))
    BY ClosesAre
  <1>4. \A i \in 1 .. Len(buffer) :
          i \in Extractor!Closes
             <=> /\ i + 3 <= Len(buffer) /\ buffer[i] = "<" /\ buffer[i + 1] = "/"
                 /\ buffer[i + 2] = state /\ buffer[i + 3] = ">"
    BY <1>2, ClosesIs
  <1>5. PICK f : f = Extractor!FirstOf("<")
    OBVIOUS
  <1>6. /\ f \in 0 .. Len(buffer) /\ (f > 0 => buffer[f] = "<")
        /\ \A j \in 1 .. Len(buffer) : buffer[j] = "<" => f > 0 /\ f <= j
    BY <1>5, FirstOnes
  <1>7. Extractor!NewTag <=> f > 0 /\ Len(buffer) >= f + 2 /\ buffer[f + 1] \in Word
                             /\ buffer[f + 2] = ">"
    BY <1>5 DEF Extractor!NewTag
  <1>8. ASSUME ~ Extractor!NewTag, NEW i \in 1 .. Len(buffer),
               i + 2 <= Len(buffer), buffer[i] = "<", buffer[i + 1] \in Word, buffer[i + 2] = ">"
        PROVE  \E j \in 1 .. i - 1 : buffer[j] = "<"
    <2>1. f > 0 /\ f <= i /\ f # i /\ buffer[f] = "<"
      BY <1>6, <1>7, <1>8
    <2>2. f \in 1 .. i - 1
      BY <1>6, <2>1
    <2>3. QED
      BY <2>1, <2>2
  <1>9. ASSUME Extractor!NewTag
        PROVE  \E i \in 1 .. Len(buffer) :
                 /\ i + 2 <= Len(buffer) /\ buffer[i] = "<" /\ buffer[i + 1] \in Word
                 /\ buffer[i + 2] = ">" /\ ~ \E j \in 1 .. i - 1 : buffer[j] = "<"
    <2>1. f \in 1 .. Len(buffer)
      BY <1>6, <1>7, <1>9
    <2>2. ~ \E j \in 1 .. f - 1 : buffer[j] = "<"
      <3>1. SUFFICES ASSUME NEW j \in 1 .. f - 1, buffer[j] = "<" PROVE FALSE
        OBVIOUS
      <3>2. j \in 1 .. Len(buffer) /\ j < f
        BY <1>1, <2>1
      <3>3. f <= j
        BY <1>6, <3>1, <3>2
      <3>4. QED
        BY <1>1, <2>1, <3>2, <3>3
    <2>3. QED
      BY <1>1, <1>6, <1>7, <1>9, <2>1, <2>2
  <1>10. QED
    BY <1>3, <1>4, <1>8, <1>9

-----------------------------------------------------------------------------
(* Where the loop stands in an answer.                                     *)

\* Of the text T the first n symbols are behind the buffer.
Come(T, n) ==
    /\ n \in Nat /\ n + Len(buffer) + Len(rest) = Len(T)
    /\ \A i \in 1 .. Len(buffer) : buffer[i] = T[n + i]
    /\ \A i \in 1 .. Len(rest) : rest[i] = T[n + Len(buffer) + i]

\* Of the meaning M the first m symbols have been passed on.
Spoke(M, m) ==
    m \in Nat /\ m <= Len(M) /\ Len(said) = m /\ \A i \in 1 .. m : said[i] = M[i]

\* A turn that takes symbols off the buffer puts them behind it.
LEMMA Comes ==
    ASSUME Left, NEW T, NEW n, Come(T, n), NEW e \in 0 .. Len(buffer),
           NEW left \in Symbols, NEW last, Extractor!Advance(left, last),
           Len(left) = Len(buffer) - e, \A j \in 1 .. Len(left) : left[j] = buffer[e + j]
    PROVE  Come(T, n + e)'
  <1>1. buffer' = left /\ rest' = rest
    BY DEF Extractor!Advance
  <1>2. /\ n \in Nat /\ Len(buffer) \in Nat /\ Len(rest) \in Nat /\ e \in Nat
        /\ Len(left) \in Nat
    <2>1. buffer \in Symbols /\ rest \in Symbols /\ n \in Nat
      BY DEF Left, Come
    <2>2. Len(buffer) \in Nat /\ Len(rest) \in Nat /\ Len(left) \in Nat
      BY <2>1, LengthsAre
    <2>3. QED
      BY <2>1, <2>2
  <1>3. /\ n + Len(buffer) + Len(rest) = Len(T)
        /\ \A i \in 1 .. Len(buffer) : buffer[i] = T[n + i]
        /\ \A i \in 1 .. Len(rest) : rest[i] = T[n + Len(buffer) + i]
    BY DEF Come
  <1>4. n + e \in Nat /\ (n + e) + Len(left) + Len(rest) = Len(T)
    <2>1. \A b, x, y \in Nat : x = b - y => y + x = b
      OBVIOUS
    <2>2. e + Len(left) = Len(buffer)
      BY <1>2, <2>1
    <2>3. \A i, c, x, y \in Nat : i + y \in Nat /\ (i + y) + x + c = i + (y + x) + c
      OBVIOUS
    <2>4. n + e \in Nat /\ (n + e) + Len(left) + Len(rest) = n + (e + Len(left)) + Len(rest)
      BY <1>2, <2>3
    <2>5. n + Len(buffer) + Len(rest) = Len(T)
      BY <1>3
    <2>6. QED
      BY <2>2, <2>4, <2>5, Zenon
  <1>5. ASSUME NEW i \in 1 .. Len(left) PROVE left[i] = T[(n + e) + i]
    <2>1. e + i \in 1 .. Len(buffer) /\ n + (e + i) = (n + e) + i
      BY <1>2
    <2>2. QED
      BY <1>3, <2>1
  <1>6. ASSUME NEW i \in 1 .. Len(rest) PROVE rest[i] = T[(n + e) + Len(left) + i]
    <2>1. (n + e) + Len(left) + i = n + Len(buffer) + i
      BY <1>2
    <2>2. QED
      BY <1>3, <2>1
  <1>7. QED
    BY <1>1, <1>4, <1>5, <1>6 DEF Come

\* A turn that passes on what comes next in the meaning.
LEMMA Speaks ==
    ASSUME Passed, NEW M, NEW m, Spoke(M, m), NEW key, NEW text \in Symbols, NEW complete,
           Extractor!Emit(key, text, complete), m + Len(text) <= Len(M), Len(M) \in Nat,
           \A j \in 1 .. Len(text) : M[m + j] = [key |-> key, symbol |-> text[j]],
           key \in Extractor!Key
    PROVE  Spoke(M, m + Len(text))'
  <1>1. /\ m \in Nat /\ Len(said) = m /\ \A i \in 1 .. m : said[i] = M[i]
        /\ Len(text) \in Nat /\ DOMAIN text = 1 .. Len(text)
        /\ \A i \in 1 .. Len(text) : text[i] \in Extractor!Symbol
    BY LengthsAre DEF Spoke
  <1>2. PICK x, y : x = said /\ y = Extractor!Tagged(key, text)
    OBVIOUS
  <1>3. y = [i \in 1 .. Len(text) |-> [key |-> key, symbol |-> text[i]]]
    BY <1>1, <1>2 DEF Extractor!Tagged
  <1>4. y \in Seq(Said) /\ Len(y) = Len(text) /\ \A i \in 1 .. Len(text) : y[i] = M[m + i]
    <2>1. \A i \in 1 .. Len(text) : [key |-> key, symbol |-> text[i]] \in Said
      BY <1>1 DEF Said
    <2> HIDE DEF Said
    <2>2. y \in [1 .. Len(text) -> Said]
      BY <1>3, <2>1
    <2>3. \A f, n : n \in Nat /\ f \in [1 .. n -> Said] => f \in Seq(Said) /\ Len(f) = n
      OBVIOUS
    <2>4. y \in Seq(Said) /\ Len(y) = Len(text)
      BY <1>1, <2>2, <2>3, Zenon
    <2>5. QED
      BY <1>3, <2>4
  <1>5. x \in Seq(Said)
    BY <1>2 DEF Passed, Said
  <1>6. said' = x \o y
    BY <1>2 DEF Extractor!Emit
  <1>7. PICK z : z = said' /\ z = x \o y
    BY <1>6
  <1>8. /\ Len(z) = Len(x) + Len(y) /\ \A j \in 1 .. Len(x) : z[j] = x[j]
        /\ \A j \in 1 .. Len(y) : z[Len(x) + j] = y[j]
    <2>1. x \in Seq(Said) /\ y \in Seq(Said) /\ z = x \o y
      BY <1>4, <1>5, <1>7
    <2>2. QED
      BY <2>1, JoinIs
  <1>9. Len(z) = m + Len(text)
    BY <1>1, <1>2, <1>4, <1>8
  <1>10. ASSUME NEW i \in 1 .. m + Len(text) PROVE z[i] = M[i]
    <2>1. CASE i <= m
      <3>1. i \in 1 .. m
        BY <1>1, <2>1
      <3>2. QED
        BY <1>1, <1>2, <1>8, <3>1
    <2>2. CASE ~ i <= m
      <3>1. PICK j \in 1 .. Len(text) : i = m + j
        <4>1. i - m \in 1 .. Len(text) /\ i = m + (i - m)
          BY <1>1, <2>2
        <4>2. QED
          BY <4>1
      <3>2. z[m + j] = y[j]
        BY <1>1, <1>2, <1>4, <1>8, <3>1
      <3>3. QED
        BY <1>4, <3>1, <3>2
    <2>3. QED
      BY <2>1, <2>2
  <1>11. m + Len(text) \in Nat
    BY <1>1
  <1>12. QED
    BY <1>7, <1>9, <1>10, <1>11 DEF Spoke

\* An answer, its text, its meaning, and where its segments are in them.
Setting(g) ==
    /\ g.a \in Answers /\ g.T = Extractor!Text(g.a) /\ g.M = Extractor!Meant(g.a)
    /\ Layout(g.a, g.T, g.M, g.start, g.from)

\* The parts of a setting,
LEMMA SettingIs ==
    ASSUME NEW g, Setting(g)
    PROVE  /\ g.a \in Seq(Extractor!Segment) /\ Len(g.a) \in Nat
           /\ Extractor!Readable(g.a)
           /\ g.T \in Symbols /\ Len(g.T) \in Nat /\ g.M \in Seq(Said) /\ Len(g.M) \in Nat
           /\ \A k \in 1 .. Len(g.a) + 1 :
                /\ g.start[k] \in Nat /\ g.from[k] \in Nat
                /\ k = 1 => g.start[k] = 0 /\ g.from[k] = 0
                /\ k = Len(g.a) + 1 => g.start[k] = Len(g.T) /\ g.from[k] = Len(g.M)
           /\ \A k \in 1 .. Len(g.a) : k + 1 \in 1 .. Len(g.a) + 1 /\ k \in 1 .. Len(g.a) + 1
  <1>1. /\ g.a \in Seq(Extractor!Segment) /\ Extractor!Readable(g.a)
        /\ g.T \in Symbols /\ g.M \in Seq(Said)
    BY Layouts DEF Setting
  <1>2. Len(g.a) \in Nat /\ Len(g.T) \in Nat /\ Len(g.M) \in Nat
    <2>1. \A Q : \A q \in Seq(Q) : Len(q) \in Nat
      OBVIOUS
    <2>2. QED
      BY <1>1, <2>1, Zenon DEF Symbols
  <1>3. Layout(g.a, g.T, g.M, g.start, g.from)
    BY DEF Setting
  <1>4. \A k \in 1 .. Len(g.a) + 1 :
          /\ g.start[k] \in Nat /\ g.from[k] \in Nat
          /\ k = 1 => g.start[k] = 0 /\ g.from[k] = 0
          /\ k = Len(g.a) + 1 => g.start[k] = Len(g.T) /\ g.from[k] = Len(g.M)
    BY <1>3 DEF Layout
  <1>5. QED
    BY <1>1, <1>2, <1>4

\* and of one of its segments.
LEMMA SegmentOf ==
    ASSUME NEW g, Setting(g), NEW k \in 1 .. Len(g.a)
    PROVE  /\ g.a[k].tag \in Known \cup {Outside, "orphan"} /\ g.a[k].body \in Symbols
           /\ Len(g.a[k].body) \in Nat /\ g.a[k].closed \in BOOLEAN
           /\ g.a[k].tag \in Known <=> g.a[k].tag \notin {Outside, "orphan"}
           /\ g.start[k] \in Nat /\ g.start[k + 1] \in Nat
           /\ g.from[k] \in Nat /\ g.from[k + 1] \in Nat
           /\ g.start[k + 1] <= Len(g.T) /\ g.from[k + 1] <= Len(g.M)
           /\ SegmentAt(g.a[k], g.start[k], g.start[k + 1], g.from[k], g.from[k + 1], g.T, g.M)
  <1>1. /\ k + 1 \in 1 .. Len(g.a) + 1 /\ k \in 1 .. Len(g.a) + 1
        /\ g.a \in Seq(Extractor!Segment)
    BY SettingIs
  <1>2. /\ g.start[k] \in Nat /\ g.start[k + 1] \in Nat
        /\ g.from[k] \in Nat /\ g.from[k + 1] \in Nat
    BY <1>1, SettingIs
  <1>3. /\ g.start[k + 1] <= Len(g.T) /\ g.from[k + 1] <= Len(g.M)
        /\ SegmentAt(g.a[k], g.start[k], g.start[k + 1], g.from[k], g.from[k + 1], g.T, g.M)
    BY DEF Setting, Layout
  <1>4. g.a[k] \in Extractor!Segment
    BY <1>1
  <1>5. /\ g.a[k].tag \in Known \cup {Outside, "orphan"} /\ g.a[k].body \in Symbols
        /\ Len(g.a[k].body) \in Nat /\ g.a[k].closed \in BOOLEAN
        /\ g.a[k].tag \in Known <=> g.a[k].tag \notin {Outside, "orphan"}
    BY <1>4, SegmentIs
  <1>6. QED
    BY <1>2, <1>3, <1>5

\* A segment that is not in a tag is its body in the text.
LEMMA BareOf ==
    ASSUME NEW g, Setting(g), NEW k \in 1 .. Len(g.a), g.a[k].tag \notin Known
    PROVE  /\ g.start[k + 1] = g.start[k] + Len(g.a[k].body)
           /\ \A j \in 1 .. Len(g.a[k].body) : g.T[g.start[k] + j] = g.a[k].body[j]
  <1>1. SegmentAt(g.a[k], g.start[k], g.start[k + 1], g.from[k], g.from[k + 1], g.T, g.M)
    BY SegmentOf
  <1>2. Bare(g.a[k], g.start[k], g.start[k + 1], g.T)
    BY <1>1, Zenon DEF SegmentAt
  <1>3. QED
    BY <1>2, Zenon DEF Bare

LEMMA InTagOf ==
    ASSUME NEW g, Setting(g), NEW k \in 1 .. Len(g.a), g.a[k].tag \in Known
    PROVE  InTag(g.a[k], g.start[k], g.start[k + 1], g.T)
  BY SegmentOf DEF SegmentAt

\* What the segments of an answer with one reading are.
LEMMA ReadsOnce ==
    ASSUME NEW g, Setting(g), NEW k \in 1 .. Len(g.a)
    PROVE  LET s == g.a[k]
               text == s.body
           IN
           /\ text # <<>> /\ (s.closed \/ k < Len(g.a)) => text[Len(text)] # "tick"
           /\ s.tag = Outside =>
                /\ text # <<>>
                /\ \A i \in DOMAIN text : Extractor!TagAt(text, i) /\ text[i + 1] \in Known =>
                                            Extractor!Spared(text, i, 3)
                /\ \A i \in DOMAIN text : ~(i > 1 /\ text[i - 1] = "<" /\ text[i] = "/")
                /\ k < Len(g.a) => g.a[k + 1].tag # Outside
           /\ s.tag = "orphan" =>
                /\ Len(text) > 2 /\ text[1] = "<" /\ text[2] = "/"
                /\ \A i \in DOMAIN text : text[i] = ">" <=> i = Len(text)
           /\ s.tag \in Known =>
                /\ \A i \in DOMAIN text : Extractor!TagAt(text, i) => Extractor!Spared(text, i, 3)
                /\ \A i \in DOMAIN text :
                     Extractor!CloseAt(text, i, s.tag) => Extractor!Spared(text, i, 4)
                /\ ~s.closed /\ k < Len(g.a) =>
                     /\ g.a[k + 1].tag \in Known
                     /\ \A i \in DOMAIN text : text[i] = "<" => Extractor!TagAt(text, i)
           /\ s.tag = "tool" => s.closed /\ text = <<"{", "}">>
  <1>1. Extractor!Readable(g.a) /\ DOMAIN g.a = 1 .. Len(g.a) /\ Len(g.a) \in Nat
    <2>1. g.a \in Seq(Extractor!Segment)
      BY SettingIs
    <2>2. QED
      BY <2>1, SettingIs
  <1>2. k < Len(g.a) <=> ~ k = Len(g.a)
    BY <1>1
  <1>3. QED
    BY <1>1, <1>2 DEF Extractor!Readable, Extractor!Parses

\* A segment that is no text outside begins with a bracket, and has three
\* symbols at least.
LEMMA NextIs ==
    ASSUME NEW g, Setting(g), NEW k \in 1 .. Len(g.a), g.a[k].tag # Outside
    PROVE  /\ g.start[k] + 3 <= Len(g.T) /\ g.T[g.start[k] + 1] = "<"
           /\ g.a[k].tag = "orphan" => g.T[g.start[k] + 2] = "/"
           /\ g.a[k].tag \in Known => g.T[g.start[k] + 2] = g.a[k].tag /\ g.T[g.start[k] + 3] = ">"
  <1>1. PICK s, o, u, m, v, l :
          /\ s = g.a[k] /\ o = g.start[k] /\ u = g.start[k + 1]
          /\ m = g.from[k] /\ v = g.from[k + 1] /\ l = Len(s.body)
    OBVIOUS
  <1>2. /\ o \in Nat /\ u \in Nat /\ l \in Nat /\ u <= Len(g.T) /\ Len(g.T) \in Nat
        /\ s.tag \in Known \cup {"orphan"} /\ s.closed \in BOOLEAN
    BY <1>1, SegmentOf, SettingIs
  <1>3. CASE s.tag = "orphan"
    <2>1. /\ u = o + l /\ \A j \in 1 .. l : g.T[o + j] = s.body[j]
          /\ s.tag \notin Known
      <3>1. s.tag \notin Known
        BY <1>1, <1>3, SegmentOf
      <3>2. /\ g.start[k + 1] = g.start[k] + Len(g.a[k].body)
            /\ \A j \in 1 .. Len(g.a[k].body) : g.T[g.start[k] + j] = g.a[k].body[j]
        BY <1>1, <3>1, BareOf
      <3>3. QED
        BY <1>1, <3>1, <3>2, Zenon
    <2>2. l > 2 /\ s.body[1] = "<" /\ s.body[2] = "/"
      BY <1>1, <1>3, ReadsOnce
    <2>3. 1 \in 1 .. l /\ 2 \in 1 .. l /\ o + 3 <= Len(g.T)
      BY <1>2, <2>1, <2>2
    <2>4. g.T[o + 1] = "<" /\ g.T[o + 2] = "/"
      BY <2>1, <2>2, <2>3
    <2>5. QED
      BY <1>1, <2>1, <2>3, <2>4
  <1>4. CASE s.tag \in Known
    <2>1. InTag(s, o, u, g.T)
      BY <1>1, <1>4, InTagOf
    <2>2. g.T[o + 1] = "<" /\ g.T[o + 2] = s.tag /\ g.T[o + 3] = ">"
      BY <2>1 DEF InTag
    <2>3. o + 3 <= Len(g.T)
      <3>1. u = o + l + 7 \/ u = o + l + 3
        BY <1>1, <1>2, <2>1 DEF InTag
      <3>2. QED
        BY <1>2, <3>1
    <2>4. s.tag # "orphan"
      BY <1>1, <1>4, SegmentOf
    <2>5. QED
      BY <1>1, <2>2, <2>3, <2>4, Zenon
  <1>5. QED
    BY <1>2, <1>3, <1>4

\* A chunk that ends inside the close tag of a call has been noted.
CutAt(b, c) == \E i \in 1 .. 3 :
    /\ Extractor!IsSuffix(Extractor!Upto(Extractor!Close("tool"), i), b)
    /\ Extractor!IsPrefix(Extractor!From(Extractor!Close("tool"), i + 1), c)

CutNoted == \A b, c : b = buffer /\ c = rest /\ CutAt(b, c) => cut

\* What is left of a buffer after e symbols of it.
Remains(left, e) ==
    /\ e \in 0 .. Len(buffer) /\ left \in Symbols /\ Len(left) = Len(buffer) - e
    /\ \A j \in 1 .. Len(left) : left[j] = buffer[e + j]

\* A cut after i symbols of x, of which b has the first and c the others.
CutBetween(x, b, c, i) ==
    /\ i <= Len(b) /\ \A j \in 1 .. i : x[j] = b[Len(b) - i + j]
    /\ 4 - i <= Len(c) /\ \A j \in 1 .. 4 - i : x[i + j] = c[j]

\* Where a cut is, symbol by symbol.
LEMMA CutAtIs ==
    ASSUME NEW b \in Symbols, NEW c \in Symbols, NEW x, x = Extractor!Close("tool")
    PROVE  CutAt(b, c) <=> \E i \in 1 .. 3 : CutBetween(x, b, c, i)
  <1>1. x \in Seq(Extractor!Symbol) /\ Len(x) = 4 /\ "tool" \in Known
    BY CloseIs, WordsAre DEF Symbols
  <1>2. b \in Seq(Extractor!Symbol) /\ c \in Seq(Extractor!Symbol)
    BY DEF Symbols
  <1>3. ASSUME NEW i \in 1 .. 3
        PROVE  /\ Extractor!IsSuffix(Extractor!Upto(x, i), b)
                    <=> i <= Len(b) /\ \A j \in 1 .. i : x[j] = b[Len(b) - i + j]
               /\ Extractor!IsPrefix(Extractor!From(x, i + 1), c)
                    <=> 4 - i <= Len(c) /\ \A j \in 1 .. 4 - i : x[i + j] = c[j]
    <2>1. PICK y, z : y = Extractor!Upto(x, i) /\ z = Extractor!From(x, i + 1)
      OBVIOUS
    <2>2. i \in 0 .. Len(x) /\ i + 1 \in 1 .. Len(x) + 1
      <3>1. i \in 0 .. 4 /\ i + 1 \in 1 .. 4 + 1
        OBVIOUS
      <3>2. QED
        BY <1>1, <3>1, Zenon
    <2>3. /\ y \in Seq(Extractor!Symbol) /\ Len(y) = i /\ \A j \in 1 .. i : y[j] = x[j]
      BY <1>1, <2>1, <2>2, PieceIs
    <2>4. /\ z \in Seq(Extractor!Symbol) /\ Len(z) = 4 - (i + 1) + 1
          /\ \A j \in 1 .. 4 - (i + 1) + 1 : z[j] = x[(i + 1) + j - 1]
      <3>1. /\ z \in Seq(Extractor!Symbol) /\ Len(z) = Len(x) - (i + 1) + 1
            /\ \A j \in 1 .. Len(x) - (i + 1) + 1 : z[j] = x[(i + 1) + j - 1]
        BY <1>1, <2>1, <2>2, PieceIs
      <3>2. QED
        BY <1>1, <3>1, Zenon
    <2>5. Len(z) = 4 - i /\ \A j \in 1 .. 4 - i : z[j] = x[i + j]
      <3>1. 4 - (i + 1) + 1 = 4 - i
        OBVIOUS
      <3>2. \A j \in 1 .. 4 - i : (i + 1) + j - 1 = i + j
        OBVIOUS
      <3>3. QED
        BY <2>4, <3>1, <3>2, Zenon
    <2>6. Extractor!IsSuffix(y, b)
            <=> Len(y) <= Len(b) /\ \A j \in 1 .. Len(y) : y[j] = b[Len(b) - Len(y) + j]
      BY <1>2, <2>3, SuffixIs
    <2>7. Extractor!IsPrefix(z, c) <=> Len(z) <= Len(c) /\ \A j \in 1 .. Len(z) : z[j] = c[j]
      BY <1>2, <2>4, PrefixIs
    <2>8. QED
      BY <2>1, <2>3, <2>5, <2>6, <2>7
  <1>4. CutAt(b, c) <=> \E i \in 1 .. 3 : /\ Extractor!IsSuffix(Extractor!Upto(x, i), b)
                                          /\ Extractor!IsPrefix(Extractor!From(x, i + 1), c)
    BY DEF CutAt
  <1>5. QED
    BY <1>3, <1>4, Zenon DEF CutBetween

\* A buffer that loses symbols at its beginning has no new cut.
LEMMA CutShorter ==
    ASSUME NEW b \in Symbols, NEW c \in Symbols, NEW d \in Symbols, NEW e \in Nat, e <= Len(b),
           Len(d) = Len(b) - e, \A j \in 1 .. Len(d) : d[j] = b[e + j], CutAt(d, c)
    PROVE  CutAt(b, c)
  <1>1. PICK x : x = Extractor!Close("tool")
    OBVIOUS
  <1>2. PICK i \in 1 .. 3 : CutBetween(x, d, c, i)
    BY <1>1, CutAtIs
  <1>3. Len(b) \in Nat /\ Len(d) \in Nat /\ i <= Len(d)
    BY <1>2, LengthsAre DEF CutBetween
  <1>4. ASSUME NEW j \in 1 .. i PROVE x[j] = b[Len(b) - i + j]
    <2>1. PICK h : h = Len(d) - i + j
      OBVIOUS
    <2>2. h \in 1 .. Len(d) /\ e + h = Len(b) - i + j
      BY <1>3, <2>1
    <2>3. x[j] = d[h] /\ d[h] = b[e + h]
      BY <1>2, <2>1, <2>2 DEF CutBetween
    <2>4. QED
      BY <2>2, <2>3
  <1>5. i <= Len(b)
    BY <1>3
  <1>6. CutBetween(x, b, c, i)
    BY <1>2, <1>4, <1>5, Zenon DEF CutBetween
  <1>7. QED
    BY <1>1, <1>6, CutAtIs

LEMMA CutTurn ==
    ASSUME Left, CutNoted, NEW left, NEW e, Remains(left, e), buffer' = left, rest' = rest,
           cut' = cut
    PROVE  CutNoted'
  <1>1. SUFFICES ASSUME NEW b, NEW c, b = buffer', c = rest', CutAt(b, c) PROVE cut'
    BY DEF CutNoted
  <1>2. /\ buffer \in Symbols /\ c \in Symbols /\ b \in Symbols /\ e \in Nat /\ e <= Len(buffer)
        /\ Len(b) = Len(buffer) - e /\ \A j \in 1 .. Len(b) : b[j] = buffer[e + j]
    <2>1. buffer \in Symbols /\ rest \in Symbols
      BY DEF Left
    <2>2. Len(buffer) \in Nat
      BY <2>1, LengthsAre
    <2>3. QED
      BY <1>1, <2>1, <2>2 DEF Remains
  <1>3. PICK d : d = buffer
    OBVIOUS
  <1>4. CutAt(d, c)
    <2>1. /\ d \in Symbols /\ e <= Len(d) /\ Len(b) = Len(d) - e
          /\ \A j \in 1 .. Len(b) : b[j] = d[e + j]
      BY <1>2, <1>3
    <2>2. QED
      BY <1>1, <1>2, <2>1, CutShorter
  <1>5. c = rest
    BY <1>1
  <1>6. cut
    BY <1>3, <1>4, <1>5, Zenon DEF CutNoted
  <1>7. QED
    BY <1>6, Zenon

LEMMA FromRemains ==
    ASSUME Left, NEW e \in 0 .. Len(buffer), NEW h, h = e + 1
    PROVE  Remains(Extractor!From(buffer, h), e)
  <1>1. buffer \in Seq(Extractor!Symbol) /\ Len(buffer) \in Nat
    BY LengthsAre DEF Left, Symbols
  <1>2. h \in 1 .. Len(buffer) + 1 /\ Len(buffer) - h + 1 = Len(buffer) - e
    BY <1>1
  <1>3. PICK left : left = Extractor!From(buffer, h)
    BY Zenon
  <1>4. /\ left \in Seq(Extractor!Symbol) /\ Len(left) = Len(buffer) - h + 1
        /\ \A j \in 1 .. Len(buffer) - h + 1 : left[j] = buffer[h + j - 1]
    BY <1>1, <1>2, <1>3, PieceIs, ZenonT(30)
  <1>5. ASSUME NEW j \in 1 .. Len(left) PROVE left[j] = buffer[e + j]
    <2>1. h + j - 1 = e + j /\ j \in 1 .. Len(buffer) - h + 1
      BY <1>1, <1>2, <1>4
    <2>2. QED
      BY <1>4, <2>1, Zenon
  <1>6. left \in Symbols /\ Len(left) = Len(buffer) - e
    BY <1>2, <1>4 DEF Symbols
  <1>7. QED
    BY <1>3, <1>5, <1>6 DEF Remains

LEMMA TailRemains ==
    ASSUME Left, buffer # <<>>
    PROVE  Remains(Tail(buffer), 1)
  <1>1. buffer \in Seq(Extractor!Symbol) /\ Len(buffer) \in Nat /\ Len(buffer) > 0
    BY LengthsAre DEF Left, Symbols
  <1>2. PICK q : q = buffer
    OBVIOUS
  <1>3. /\ Tail(q) \in Seq(Extractor!Symbol) /\ Len(Tail(q)) = Len(q) - 1
        /\ \A j \in 1 .. Len(q) - 1 : Tail(q)[j] = q[1 + j]
    BY <1>1, <1>2
  <1>4. QED
    BY <1>1, <1>2, <1>3 DEF Remains, Symbols

\* The parts of the state that a turn of the loop keeps or moves on.
LEMMA Turns ==
    ASSUME Left, NEW left, NEW e, Remains(left, e), NEW last, Extractor!Advance(left, last)
    PROVE  /\ \A T, n : Come(T, n) => Come(T, n + e)'
           /\ CutNoted => CutNoted'
           /\ Waits'
           /\ prev' = last /\ answer' = answer /\ cut' = cut /\ mode' # "ended"
  <1>1. /\ buffer' = left /\ rest' = rest /\ prev' = last /\ answer' = answer /\ cut' = cut
        /\ mode' = IF left = <<>> THEN "read" ELSE "drain"
    BY DEF Extractor!Advance
  <1>2. /\ e \in 0 .. Len(buffer) /\ left \in Symbols /\ Len(left) = Len(buffer) - e
        /\ \A j \in 1 .. Len(left) : left[j] = buffer[e + j]
    BY DEF Remains
  <1>3. ASSUME NEW T, NEW n, Come(T, n) PROVE Come(T, n + e)'
    BY <1>2, <1>3, Comes
  <1>4. CutNoted => CutNoted'
    BY <1>1, CutTurn
  <1>5. Waits'
    <2>1. SUFFICES ASSUME mode' = "read" PROVE buffer' = <<>> /\ Len(buffer') = 0
      BY DEF Waits
    <2>2. left = <<>>
      BY <1>1, <2>1
    <2>3. QED
      BY <1>1, <2>2
  <1>6. QED
    BY <1>1, <1>3, <1>4, <1>5

-----------------------------------------------------------------------------
(* The inductive invariant.                                                *)

\* What is written behind the body of a segment.
After(g, k) ==
    IF g.a[k].closed THEN "close" ELSE IF k < Len(g.a) THEN "open" ELSE "end"

\* The loop is outside, before a segment or, p > 0, in a text outside,
OutAt(g, k, p) ==
    /\ state = Outside
    /\ Come(g.T, g.start[k] + p) /\ Spoke(g.M, g.from[k] + p)
    /\ p = 0 /\ k <= Len(g.a) => prev # "tick"
    /\ p > 0 => /\ k <= Len(g.a) /\ g.a[k].tag = Outside /\ p < Len(g.a[k].body)
                /\ prev = g.a[k].body[p]

\* or in the body of a tag.
InAt(g, k, p) ==
    /\ k <= Len(g.a) /\ g.a[k].tag \in Known /\ state = g.a[k].tag /\ p <= Len(g.a[k].body)
    /\ Come(g.T, (g.start[k] + 3) + p) /\ Spoke(g.M, g.from[k] + p)
    /\ Behind(g.a[k].body, p)

\* A call has been closed before segment k.
Called(g, k) == \E j \in 1 .. k - 1 : g.a[j].tag = "tool"

\* The text of the first call is passed on whole unless its close tag was cut.
Tools(g, k, p) ==
    ~cut => /\ IF Called(g, k) THEN parsed > 0 ELSE toolText = <<>>
            /\ state = "tool" => p = 0

\* The loop stands after p symbols of the body of segment k.
Place(g, k, p) ==
    /\ Setting(g) /\ answer = g.a /\ k \in 1 .. Len(g.a) + 1 /\ p \in Nat
    /\ OutAt(g, k, p) \/ InAt(g, k, p)
    /\ Tools(g, k, p)
    /\ mode = "ended" => state = Outside /\ k = Len(g.a) + 1

\* The inductive invariant: there is such a place.
PlaceInv ==
    /\ Waits /\ CutNoted
    /\ \E g, k, p : Place(g, k, p)

\* A setting is of constants only.
LEMMA SettingStays == ASSUME NEW g, Setting(g) PROVE Setting(g)'
  OBVIOUS

\* In a text outside the buffer holds the text, and the bracket behind it.
InText(text, p) ==
    /\ text \in Symbols /\ Len(text) \in Nat /\ Len(buffer) \in Nat
    /\ \A i \in 1 .. Len(buffer) : p + i <= Len(text) => buffer[i] = text[p + i]
    /\ \A i \in 1 .. Len(buffer) : p + i = Len(text) + 1 => buffer[i] = "<"

\* A text outside, and what is written behind it.
LEMMA TextAhead ==
    ASSUME Left, NEW g, Setting(g), NEW k \in 1 .. Len(g.a), g.a[k].tag = Outside,
           NEW p \in Nat, NEW text, text = g.a[k].body, p < Len(text), Come(g.T, g.start[k] + p)
    PROVE  InText(text, p)
  <1>1. /\ text \in Symbols /\ Len(text) \in Nat /\ Len(buffer) \in Nat /\ Len(rest) \in Nat
        /\ Len(g.a) \in Nat /\ Len(g.T) \in Nat /\ g.start[k] \in Nat /\ g.start[k + 1] \in Nat
        /\ g.start[k + 1] <= Len(g.T) /\ g.a[k].tag \notin Known
    BY SegmentOf, SettingIs, LengthsAre, WordsAre DEF Left
  <1>2. /\ g.start[k + 1] = g.start[k] + Len(text)
        /\ \A j \in 1 .. Len(text) : g.T[g.start[k] + j] = text[j]
    BY <1>1, BareOf
  <1>3. /\ (g.start[k] + p) + Len(buffer) + Len(rest) = Len(g.T)
        /\ \A i \in 1 .. Len(buffer) : buffer[i] = g.T[(g.start[k] + p) + i]
    BY DEF Come
  <1>4. ASSUME NEW i \in 1 .. Len(buffer), p + i <= Len(text) PROVE buffer[i] = text[p + i]
    <2>1. p + i \in 1 .. Len(text) /\ (g.start[k] + p) + i = g.start[k] + (p + i)
      BY <1>1, <1>4
    <2>2. QED
      BY <1>2, <1>3, <2>1
  <1>5. ASSUME NEW i \in 1 .. Len(buffer), p + i = Len(text) + 1 PROVE buffer[i] = "<"
    <2>1. PICK o, u, l, b, r, w :
            /\ o = g.start[k] /\ u = g.start[k + 1] /\ l = Len(text) /\ b = Len(buffer)
            /\ r = Len(rest) /\ w = Len(g.T)
      OBVIOUS
    <2>2. /\ o \in Nat /\ u \in Nat /\ l \in Nat /\ b \in Nat /\ r \in Nat /\ w \in Nat
          /\ u = o + l /\ (o + p) + b + r = w /\ i \in 1 .. b /\ p + i = l + 1
      BY <1>1, <1>2, <1>3, <1>5, <2>1
    <2>3. (o + p) + i = u + 1 /\ u < w
      BY <2>2, SMTT(30)
    <2>4. k + 1 \in 1 .. Len(g.a) /\ k < Len(g.a)
      <3>1. k + 1 # Len(g.a) + 1
        <4>1. k + 1 \in 1 .. Len(g.a) + 1
          BY SettingIs
        <4>2. k + 1 = Len(g.a) + 1 => g.start[k + 1] = Len(g.T)
          BY <4>1, SettingIs
        <4>3. u # w
          BY <2>2, <2>3
        <4>4. QED
          BY <2>1, <4>2, <4>3, Zenon
      <3>2. QED
        BY <1>1, <3>1
    <2>5. g.a[k + 1].tag # Outside
      BY <2>4, ReadsOnce, Zenon
    <2>6. g.T[u + 1] = "<"
      BY <2>1, <2>4, <2>5, NextIs
    <2>7. buffer[i] = g.T[(o + p) + i]
      BY <1>3, <2>1
    <2>8. QED
      BY <2>3, <2>6, <2>7, Zenon
  <1>6. QED
    BY <1>1, <1>4, <1>5 DEF InText

\* A piece of what a segment means.
LEMMA SaysMore ==
    ASSUME Passed, NEW g, Setting(g), NEW k \in 1 .. Len(g.a), g.a[k].tag # "orphan",
           NEW p \in Nat, Spoke(g.M, g.from[k] + p), NEW text \in Symbols, NEW n, n = Len(text),
           p + n <= Len(g.a[k].body), \A j \in 1 .. n : text[j] = g.a[k].body[p + j],
           NEW complete, Extractor!Emit(g.a[k].tag, text, complete)
    PROVE  Spoke(g.M, g.from[k] + (p + n))'
  <1>1. PICK t, body, m : t = g.a[k].tag /\ body = g.a[k].body /\ m = g.from[k]
    OBVIOUS
  <1>2. /\ t \in Extractor!Key /\ Len(body) \in Nat /\ m \in Nat /\ n \in Nat
        /\ g.from[k + 1] <= Len(g.M) /\ Len(g.M) \in Nat /\ g.from[k + 1] \in Nat
    BY <1>1, SegmentOf, SettingIs, LengthsAre DEF Extractor!Key
  <1>3. /\ g.from[k + 1] = m + Len(body)
        /\ \A j \in 1 .. Len(body) : g.M[m + j] = [key |-> t, symbol |-> body[j]]
    <2>1. SegmentAt(g.a[k], g.start[k], g.start[k + 1], g.from[k], g.from[k + 1], g.T, g.M)
      BY SegmentOf
    <2>2. Means(g.a[k], g.from[k], g.from[k + 1], g.M)
      BY <2>1, Zenon DEF SegmentAt
    <2>3. PICK s : s = g.a[k]
      OBVIOUS
    <2>4. Means(s, m, g.from[k + 1], g.M) /\ s.tag # "orphan" /\ s.tag = t /\ s.body = body
      BY <1>1, <2>2, <2>3
    <2>5. QED
      BY <2>4 DEF Means
  <1>4. (m + p) + n <= Len(g.M) /\ (m + p) + n = m + (p + n)
    <2>1. p + n <= Len(body)
      BY <1>1
    <2>2. PICK l, w, u : l = Len(body) /\ w = Len(g.M) /\ u = g.from[k + 1]
      OBVIOUS
    <2>3. l \in Nat /\ w \in Nat /\ u = m + l /\ u <= w /\ p + n <= l
      BY <1>2, <1>3, <2>1, <2>2
    <2>4. (m + p) + n <= w /\ (m + p) + n = m + (p + n)
      BY <1>2, <2>3
    <2>5. QED
      BY <2>2, <2>4
  <1>5. ASSUME NEW j \in 1 .. n PROVE g.M[(m + p) + j] = [key |-> t, symbol |-> text[j]]
    <2>1. p + j \in 1 .. Len(body) /\ (m + p) + j = m + (p + j)
      BY <1>1, <1>2, SMTT(30)
    <2>2. text[j] = body[p + j]
      BY <1>1
    <2>3. QED
      BY <1>3, <2>1, <2>2
  <1>6. Spoke(g.M, m + p) /\ Extractor!Emit(t, text, complete)
    BY <1>1
  <1>7. Spoke(g.M, (m + p) + n)'
    <2>1. (m + p) + Len(text) <= Len(g.M)
      BY <1>4
    <2>2. \A j \in 1 .. Len(text) : g.M[(m + p) + j] = [key |-> t, symbol |-> text[j]]
      BY <1>5
    <2>3. Spoke(g.M, (m + p) + Len(text))'
      BY <1>2, <1>6, <2>1, <2>2, Speaks
    <2>4. QED
      BY <2>3
  <1>8. (m + p) + n = g.from[k] + (p + n)
    BY <1>1, <1>4, Zenon
  <1>9. QED
    BY <1>7, <1>8, Zenon

\* The beginning of the buffer.
LEMMA UptoIs ==
    ASSUME Left, NEW n \in 0 .. Len(buffer)
    PROVE  /\ Extractor!Upto(buffer, n) \in Symbols /\ Len(Extractor!Upto(buffer, n)) = n
           /\ \A j \in 1 .. n : Extractor!Upto(buffer, n)[j] = buffer[j]
           /\ n > 0 => Extractor!LastOf(Extractor!Upto(buffer, n)) = buffer[n]
           /\ n = 0 => Extractor!LastOf(Extractor!Upto(buffer, n)) = prev
  <1>1. buffer \in Seq(Extractor!Symbol)
    BY DEF Left, Symbols
  <1>2. PICK u : u = Extractor!Upto(buffer, n)
    OBVIOUS
  <1>3. u \in Seq(Extractor!Symbol) /\ Len(u) = n /\ \A j \in 1 .. n : u[j] = buffer[j]
    BY <1>1, <1>2, PieceIs
  <1>4. u = <<>> <=> n = 0
    BY <1>3
  <1>5. n > 0 => u[n] = buffer[n]
    BY <1>3
  <1>6. QED
    BY <1>2, <1>3, <1>4, <1>5 DEF Symbols, Extractor!LastOf

\* Text under another key is no text of a call.
LEMMA EmitOther ==
    ASSUME NEW key, key # "tool", NEW text, NEW complete, Extractor!Emit(key, text, complete)
    PROVE  toolText' = toolText /\ parsed' = parsed
  BY Zenon DEF Extractor!Emit

LEMMA CalledNext ==
    ASSUME NEW g, NEW k \in Nat, k > 0
    PROVE  Called(g, k + 1) <=> Called(g, k) \/ g.a[k].tag = "tool"
  <1>1. \A j : j \in 1 .. (k + 1) - 1 <=> j \in 1 .. k - 1 \/ j = k
    OBVIOUS
  <1>2. QED
    BY <1>1, Zenon DEF Called

\* What is known of calls stays while nothing of a call is passed on.
LEMMA ToolsKeep ==
    ASSUME NEW g, NEW k \in Nat, k > 0, NEW p, Tools(g, k, p), cut' = cut,
           toolText' = toolText, parsed' = parsed, NEW q, state' = "tool" => q = 0
    PROVE  /\ Tools(g, k, q)'
           /\ g.a[k].tag # "tool" => Tools(g, k + 1, q)'
  <1>1. g.a[k].tag # "tool" => (Called(g, k + 1) <=> Called(g, k))
    BY CalledNext
  <1>2. QED
    BY <1>1, Zenon DEF Tools

\* What the loop may have before it while it is outside.
LEMMA OutsidePlace ==
    ASSUME Left, buffer # <<>>, NEW g, NEW k, NEW p, Place(g, k, p), state = Outside
    PROVE  /\ OutAt(g, k, p) /\ k \in 1 .. Len(g.a) /\ Len(g.a) \in Nat /\ k \in Nat /\ k > 0
           /\ \/ g.a[k].tag = Outside /\ p < Len(g.a[k].body)
              \/ g.a[k].tag \in Known \cup {"orphan"} /\ g.a[k].tag # Outside /\ p = 0
  <1>1. /\ Setting(g) /\ k \in 1 .. Len(g.a) + 1 /\ p \in Nat /\ OutAt(g, k, p)
    BY WordsAre DEF Place, InAt
  <1>2. /\ Len(g.a) \in Nat /\ Len(g.T) \in Nat
        /\ k = Len(g.a) + 1 => g.start[k] = Len(g.T)
    BY <1>1, SettingIs
  <1>3. Len(buffer) \in Nat /\ Len(buffer) > 0 /\ Len(rest) \in Nat
    BY LengthsAre DEF Left
  <1>4. k <= Len(g.a)
    <2>1. SUFFICES ASSUME k = Len(g.a) + 1 PROVE FALSE
      BY <1>1, <1>2
    <2>2. ~ k <= Len(g.a)
      BY <1>2, <2>1
    <2>3. ~ p > 0
      BY <1>1, <2>2 DEF OutAt
    <2>4. p = 0
      BY <1>1, <2>3
    <2>5. Come(g.T, g.start[k] + p)
      BY <1>1 DEF OutAt
    <2>6. (Len(g.T) + 0) + Len(buffer) + Len(rest) = Len(g.T)
      BY <1>2, <2>1, <2>4, <2>5 DEF Come
    <2>7. QED
      BY <1>2, <1>3, <2>6
  <1>5. k \in 1 .. Len(g.a) /\ k \in Nat /\ k > 0
    BY <1>1, <1>2, <1>4
  <1>6. PICK s : s = g.a[k]
    OBVIOUS
  <1>7. /\ s.tag \in Known \cup {Outside, "orphan"} /\ s.body \in Symbols
        /\ Len(s.body) \in Nat /\ (s.body # <<>> <=> Len(s.body) > 0)
        /\ s.tag = Outside => s.body # <<>>
    <2>1. g.a[k].tag = Outside => g.a[k].body # <<>>
      BY <1>1, <1>5, ReadsOnce
    <2>2. /\ s.tag \in Known \cup {Outside, "orphan"} /\ s.body \in Symbols
          /\ Len(s.body) \in Nat
      BY <1>1, <1>5, <1>6, SegmentOf
    <2>3. QED
      BY <1>6, <2>1, <2>2, LengthsAre
  <1>8. p > 0 => s.tag = Outside /\ p < Len(s.body)
    BY <1>1, <1>6 DEF OutAt
  <1>9. CASE s.tag = Outside
    BY <1>1, <1>2, <1>5, <1>6, <1>7, <1>8, <1>9
  <1>10. CASE s.tag # Outside
    BY <1>1, <1>2, <1>5, <1>6, <1>7, <1>8, <1>10
  <1>11. QED
    BY <1>9, <1>10

\* What stands before a segment that is no text outside.
LEMMA TagAhead ==
    ASSUME Left, buffer # <<>>, NEW g, Setting(g), NEW k \in 1 .. Len(g.a),
           g.a[k].tag # Outside, Come(g.T, g.start[k] + 0)
    PROVE  /\ Len(buffer) \in Nat /\ Len(buffer) > 0 /\ buffer[1] = "<"
           /\ Len(buffer) >= 2 /\ g.a[k].tag = "orphan" => buffer[2] = "/"
           /\ Len(buffer) >= 2 /\ g.a[k].tag \in Known => buffer[2] = g.a[k].tag
           /\ Len(buffer) >= 3 /\ g.a[k].tag \in Known => buffer[3] = ">"
  <1>1. Len(buffer) \in Nat /\ Len(buffer) > 0
    BY LengthsAre DEF Left
  <1>2. PICK o : o = g.start[k]
    OBVIOUS
  <1>3. o \in Nat /\ \A i \in 1 .. Len(buffer) : buffer[i] = g.T[(o + 0) + i]
    BY <1>2, SegmentOf DEF Come
  <1>4. /\ g.T[o + 1] = "<"
        /\ g.a[k].tag = "orphan" => g.T[o + 2] = "/"
        /\ g.a[k].tag \in Known => g.T[o + 2] = g.a[k].tag /\ g.T[o + 3] = ">"
    BY <1>2, NextIs
  <1>5. \A i \in 1 .. Len(buffer) : buffer[i] = g.T[o + i]
    BY <1>1, <1>3
  <1>6. QED
    BY <1>1, <1>4, <1>5

-----------------------------------------------------------------------------
(* What each turn of the loop passes on.                                   *)

\* A turn that passes on a piece of a text outside.
LEMMA TextMoves ==
    ASSUME ExtractorInv, NEW g, NEW k, NEW p, Place(g, k, p), OutAt(g, k, p),
           k \in 1 .. Len(g.a), g.a[k].tag = Outside, p < Len(g.a[k].body),
           NEW n \in Nat, n > 0, p + n <= Len(g.a[k].body), NEW text \in Symbols, n = Len(text),
           \A j \in 1 .. n : text[j] = g.a[k].body[p + j],
           NEW complete, Extractor!Emit(Outside, text, complete),
           NEW left, Remains(left, n), NEW last, last = g.a[k].body[p + n],
           Extractor!Advance(left, last), state' = state
    PROVE  \E h, q : Place(g, h, q)'
  <1>1. Left /\ Passed
    BY PartsOf
  <1>2. /\ Setting(g) /\ answer = g.a /\ p \in Nat /\ state = Outside
        /\ Come(g.T, g.start[k] + p) /\ Spoke(g.M, g.from[k] + p) /\ Tools(g, k, p)
    BY DEF Place, OutAt
  <1>3. /\ Len(g.a) \in Nat /\ k \in Nat /\ k > 0 /\ k + 1 \in 1 .. Len(g.a) + 1
        /\ k \in 1 .. Len(g.a) + 1
    BY <1>2, SettingIs, SMTT(30)
  <1>4. /\ g.start[k] \in Nat /\ g.from[k] \in Nat /\ Len(g.a[k].body) \in Nat
        /\ g.a[k].tag \notin Known
    BY <1>2, SegmentOf, WordsAre
  <1>5. Outside # "orphan" /\ Outside # "tool"
    BY PathAssumption DEF Extractor!TagAssumption
  <1>6. Spoke(g.M, g.from[k] + (p + n))'
    BY <1>1, <1>2, <1>5, SaysMore
  <1>7. /\ Come(g.T, (g.start[k] + p) + n)' /\ prev' = last /\ answer' = answer /\ cut' = cut
        /\ mode' # "ended"
    BY <1>1, <1>2, Turns
  <1>8. (g.start[k] + p) + n = g.start[k] + (p + n) /\ p + n \in Nat
    BY <1>2, <1>4
  <1>9. Come(g.T, g.start[k] + (p + n))'
    BY <1>7, <1>8, Zenon
  <1>10. toolText' = toolText /\ parsed' = parsed
    BY <1>5, EmitOther
  <1>11. state' = Outside /\ state' # "tool" /\ answer' = g.a
    BY <1>2, <1>5, <1>7
  <1>12. Setting(g)'
    BY <1>2, SettingStays
  <1>13. CASE p + n < Len(g.a[k].body)
    <2>1. Tools(g, k, p + n)'
      BY <1>2, <1>3, <1>7, <1>10, <1>11, ToolsKeep
    <2>2. k <= Len(g.a) /\ p + n > 0 /\ p + n # 0
      BY <1>2, <1>3
    <2>3. OutAt(g, k, p + n)'
      BY <1>6, <1>7, <1>9, <1>11, <1>13, <2>2 DEF OutAt
    <2>4. Place(g, k, p + n)'
      BY <1>3, <1>7, <1>8, <1>11, <1>12, <2>1, <2>3 DEF Place
    <2>5. QED
      BY <2>4
  <1>14. CASE ~ p + n < Len(g.a[k].body)
    <2>1. p + n = Len(g.a[k].body)
      BY <1>2, <1>4, <1>14
    <2>2. Tools(g, k + 1, 0)'
      BY <1>2, <1>3, <1>5, <1>7, <1>10, <1>11, ToolsKeep
    <2>3. g.start[k + 1] = g.start[k] + Len(g.a[k].body)
      BY <1>2, <1>4, BareOf
    <2>4. g.from[k + 1] = g.from[k] + Len(g.a[k].body)
      <3>1. SegmentAt(g.a[k], g.start[k], g.start[k + 1], g.from[k], g.from[k + 1], g.T, g.M)
        BY <1>2, SegmentOf
      <3>2. QED
        BY <1>5, <3>1 DEF SegmentAt, Means
    <2>5. g.start[k] + (p + n) = g.start[k + 1] + 0 /\ g.from[k] + (p + n) = g.from[k + 1] + 0
      <3>1. g.start[k + 1] = g.start[k] + (p + n) /\ g.from[k + 1] = g.from[k] + (p + n)
        BY <2>1, <2>3, <2>4, Zenon
      <3>2. g.start[k + 1] \in Nat /\ g.from[k + 1] \in Nat
        BY <1>2, SegmentOf
      <3>3. \A x \in Nat : x = x + 0
        OBVIOUS
      <3>4. QED
        BY <3>1, <3>2, <3>3, Zenon
    <2>6. Come(g.T, g.start[k + 1] + 0)' /\ Spoke(g.M, g.from[k + 1] + 0)'
      BY <1>6, <1>9, <2>5, Zenon
    <2>7. k + 1 <= Len(g.a) => prev' # "tick"
      <3>1. SUFFICES ASSUME k + 1 <= Len(g.a) PROVE prev' # "tick"
        OBVIOUS
      <3>2. k < Len(g.a) /\ Len(g.a[k].body) > 0
        BY <1>2, <1>3, <1>4, <3>1
      <3>3. g.a[k].body # <<>>
        BY <1>2, <3>2, SegmentOf, LengthsAre
      <3>4. g.a[k].body[Len(g.a[k].body)] # "tick"
        BY <1>2, <3>2, <3>3, ReadsOnce
      <3>5. QED
        BY <1>7, <2>1, <3>4, Zenon
    <2>8. OutAt(g, k + 1, 0)'
      <3>1. ~ 0 > 0
        OBVIOUS
      <3>2. QED
        BY <1>11, <2>6, <2>7, <3>1 DEF OutAt
    <2>9. Place(g, k + 1, 0)'
      BY <1>3, <1>7, <1>11, <1>12, <2>2, <2>8 DEF Place
    <2>10. QED
      BY <2>9
  <1>15. QED
    BY <1>13, <1>14

\* A turn that waits leaves the loop where it is.
LEMMA WaitKeeps ==
    ASSUME Extractor!Wait, NEW g, NEW k, NEW p, Place(g, k, p)
    PROVE  Place(g, k, p)' /\ (CutNoted => CutNoted')
  <1>1. /\ answer' = answer /\ rest' = rest /\ buffer' = buffer /\ state' = state /\ prev' = prev
        /\ toolText' = toolText /\ said' = said /\ parsed' = parsed /\ cut' = cut
        /\ mode' = "read"
    BY DEF Extractor!Wait
  <1>2. \A T, n : Come(T, n) => Come(T, n)'
    BY <1>1 DEF Come
  <1>3. \A M, n : Spoke(M, n) => Spoke(M, n)'
    BY <1>1 DEF Spoke
  <1>4. Setting(g)'
    BY SettingStays DEF Place
  <1>5. Tools(g, k, p)'
    BY <1>1, Zenon DEF Place, Tools
  <1>6. OutAt(g, k, p) => OutAt(g, k, p)'
    BY <1>1, <1>2, <1>3 DEF OutAt
  <1>7. InAt(g, k, p) => InAt(g, k, p)'
    <2>1. Behind(g.a[k].body, p) => Behind(g.a[k].body, p)'
      BY <1>1 DEF Behind
    <2>2. QED
      BY <1>1, <1>2, <1>3, <2>1 DEF InAt
  <1>8. CutNoted => CutNoted'
    BY <1>1, Zenon DEF CutNoted
  <1>9. QED
    BY <1>1, <1>4, <1>5, <1>6, <1>7, <1>8 DEF Place

\* Text outside passes on text of its segment, up to the next bracket.
LEMMA TextOutsideMoves ==
    ASSUME ExtractorInv, PlaceInv, Extractor!TextOutside
    PROVE  PlaceInv'
  <1>1. Left /\ Passed /\ buffer # <<>> /\ state = Outside /\ CutNoted
    BY PartsOf DEF ExtractorInv, Extractor!TextOutside, Extractor!Draining, PlaceInv
  <1>2. PICK g, k, p : Place(g, k, p)
    BY DEF PlaceInv
  <1>3. /\ OutAt(g, k, p) /\ k \in 1 .. Len(g.a) /\ Len(g.a) \in Nat
        /\ \/ g.a[k].tag = Outside /\ p < Len(g.a[k].body)
           \/ g.a[k].tag \in Known \cup {"orphan"} /\ g.a[k].tag # Outside /\ p = 0
    BY <1>1, <1>2, OutsidePlace
  <1>4. /\ Setting(g) /\ p \in Nat /\ Come(g.T, g.start[k] + p)
    BY <1>2, <1>3 DEF Place, OutAt
  <1>5. PICK f : f = Extractor!FirstOf("<")
    OBVIOUS
  <1>6. buffer \in Symbols /\ Len(buffer) \in Nat /\ Len(buffer) > 0
    BY <1>1, LengthsAre DEF Left
  <1>7. /\ f \in 0 .. Len(buffer) /\ (f > 0 => buffer[f] = "<") /\ f # 1
        /\ \A j \in 1 .. Len(buffer) : buffer[j] = "<" => f > 0 /\ f <= j
    BY <1>5, <1>6, FirstOnes DEF Extractor!TextOutside
  <1>8. g.a[k].tag = Outside /\ p < Len(g.a[k].body)
    <2>1. SUFFICES ASSUME g.a[k].tag # Outside, p = 0 PROVE FALSE
      BY <1>3
    <2>2. buffer[1] = "<"
      BY <1>1, <1>3, <1>4, <2>1, TagAhead
    <2>3. QED
      BY <1>6, <1>7, <2>2
  <1>9. PICK body : body = g.a[k].body
    OBVIOUS
  <1>10. /\ Len(body) \in Nat
         /\ \A i \in 1 .. Len(buffer) : p + i <= Len(body) => buffer[i] = body[p + i]
         /\ \A i \in 1 .. Len(buffer) : p + i = Len(body) + 1 => buffer[i] = "<"
    <2>1. InText(body, p)
      BY <1>1, <1>3, <1>4, <1>8, <1>9, TextAhead
    <2>2. QED
      BY <2>1 DEF InText
  <1>11. PICK n : n = IF f = 0 THEN Len(buffer) ELSE f - 1
    OBVIOUS
  <1>12. /\ Extractor!Emit(Outside, Extractor!Upto(buffer, n), FALSE)
         /\ Extractor!Advance(Extractor!From(buffer, n + 1), buffer[n]) /\ state' = state
    BY <1>5, <1>11, Zenon DEF Extractor!TextOutside
  <1>13. n \in 1 .. Len(buffer) /\ n \in 0 .. Len(buffer) /\ n \in Nat /\ n > 0
    BY <1>6, <1>7, <1>11
  <1>14. p + n <= Len(body)
    <2>1. SUFFICES ASSUME ~ p + n <= Len(body) PROVE FALSE
      OBVIOUS
    <2>2. PICK i \in 1 .. n : p + i = Len(body) + 1
      <3>1. p < Len(body)
        BY <1>8, <1>9
      <3>2. Len(body) + 1 - p \in 1 .. n /\ p + (Len(body) + 1 - p) = Len(body) + 1
        BY <1>4, <1>10, <1>13, <2>1, <3>1
      <3>3. QED
        BY <3>2
    <2>3. i \in 1 .. Len(buffer)
      BY <1>6, <1>13
    <2>4. buffer[i] = "<"
      BY <1>10, <2>2, <2>3
    <2>5. f > 0 /\ f <= i
      BY <1>7, <2>3, <2>4
    <2>6. QED
      BY <1>7, <1>11, <2>5
  <1>15. /\ Extractor!Upto(buffer, n) \in Symbols /\ n = Len(Extractor!Upto(buffer, n))
         /\ \A j \in 1 .. n : Extractor!Upto(buffer, n)[j] = buffer[j]
    BY <1>1, <1>13, UptoIs
  <1>16. /\ \A j \in 1 .. n : Extractor!Upto(buffer, n)[j] = body[p + j]
         /\ buffer[n] = body[p + n]
    <2>1. \A j \in 1 .. n : j \in 1 .. Len(buffer) /\ p + j <= Len(body)
      BY <1>4, <1>6, <1>10, <1>13, <1>14
    <2>2. n \in 1 .. n
      BY <1>13
    <2>3. QED
      BY <1>10, <1>15, <2>1, <2>2, Zenon
  <1>17. Remains(Extractor!From(buffer, n + 1), n)
    BY <1>1, <1>13, FromRemains
  <1>18. PICK left, last, text :
           /\ left = Extractor!From(buffer, n + 1) /\ last = buffer[n]
           /\ text = Extractor!Upto(buffer, n)
    OBVIOUS
  <1>19. \E h, q : Place(g, h, q)'
    <2>1. /\ Extractor!Emit(Outside, text, FALSE) /\ Extractor!Advance(left, last)
          /\ Remains(left, n) /\ last = g.a[k].body[p + n] /\ text \in Symbols /\ n = Len(text)
          /\ \A j \in 1 .. n : text[j] = g.a[k].body[p + j]
          /\ p + n <= Len(g.a[k].body) /\ state' = state
      BY <1>9, <1>12, <1>14, <1>15, <1>16, <1>17, <1>18
    <2>2. QED
      BY <1>2, <1>3, <1>8, <1>13, <2>1, TextMoves
  <1>20. Waits' /\ CutNoted'
    BY <1>1, <1>12, <1>17, Turns
  <1>21. QED
    BY <1>19, <1>20 DEF PlaceInv

\* In a text outside no close tag begins.
LEMMA NoSlash ==
    ASSUME Left, buffer # <<>>, NEW g, Setting(g), NEW k \in 1 .. Len(g.a), g.a[k].tag = Outside,
           NEW p \in Nat, p < Len(g.a[k].body), Come(g.T, g.start[k] + p)
    PROVE  ~ (Len(buffer) >= 2 /\ buffer[1] = "<" /\ buffer[2] = "/")
  <1>1. PICK body : body = g.a[k].body /\ p < Len(body)
    OBVIOUS
  <1>2. /\ body \in Symbols /\ Len(body) \in Nat /\ Len(buffer) \in Nat
        /\ \A i \in 1 .. Len(buffer) : p + i <= Len(body) => buffer[i] = body[p + i]
        /\ \A i \in 1 .. Len(buffer) : p + i = Len(body) + 1 => buffer[i] = "<"
    <2>1. InText(body, p)
      BY <1>1, TextAhead
    <2>2. QED
      BY <2>1 DEF InText
  <1>3. p < Len(body) /\ DOMAIN body = 1 .. Len(body)
    BY <1>1, <1>2, LengthsAre
  <1>4. \A i \in DOMAIN body : ~(i > 1 /\ body[i - 1] = "<" /\ body[i] = "/")
    BY <1>1, ReadsOnce
  <1>5. SUFFICES ASSUME Len(buffer) >= 2, buffer[1] = "<", buffer[2] = "/" PROVE FALSE
    OBVIOUS
  <1>6. 1 \in 1 .. Len(buffer) /\ 2 \in 1 .. Len(buffer)
    BY <1>2, <1>5
  <1>7. CASE p + 2 <= Len(body)
    <2>1. p + 2 \in DOMAIN body /\ p + 2 > 1 /\ (p + 2) - 1 = p + 1 /\ p + 1 <= Len(body)
      BY <1>3, <1>7
    <2>2. body[p + 1] = "<" /\ body[p + 2] = "/"
      BY <1>2, <1>5, <1>6, <1>7, <2>1
    <2>3. ~(p + 2 > 1 /\ body[(p + 2) - 1] = "<" /\ body[p + 2] = "/")
      BY <1>4, <2>1, Zenon
    <2>4. QED
      BY <2>1, <2>2, <2>3, Zenon
  <1>8. CASE ~ p + 2 <= Len(body)
    <2>1. p + 2 = Len(body) + 1
      BY <1>2, <1>3, <1>8
    <2>2. QED
      BY <1>2, <1>5, <1>6, <2>1
  <1>9. QED
    BY <1>7, <1>8

\* The tag t after p symbols of a text, with more behind it.
TagBehind(text, p, t) ==
    p + 3 < Len(text) /\ text[p + 1] = "<" /\ text[p + 2] = t /\ text[p + 3] = ">"

\* A tag in a text outside is escaped.
LEMMA TagInText ==
    ASSUME Left, buffer # <<>>, NEW g, Setting(g), NEW k \in 1 .. Len(g.a), g.a[k].tag = Outside,
           NEW p \in Nat, p < Len(g.a[k].body), Come(g.T, g.start[k] + p),
           p > 0 => prev = g.a[k].body[p],
           NEW t \in Known, Len(buffer) >= 3, buffer[1] = "<", buffer[2] = t, buffer[3] = ">"
    PROVE  Extractor!Escaped(1, 3) /\ TagBehind(g.a[k].body, p, t)
  <1>1. PICK body : body = g.a[k].body /\ p < Len(body)
    OBVIOUS
  <1>2. /\ body \in Symbols /\ Len(body) \in Nat /\ Len(buffer) \in Nat
        /\ \A i \in 1 .. Len(buffer) : p + i <= Len(body) => buffer[i] = body[p + i]
        /\ \A i \in 1 .. Len(buffer) : p + i = Len(body) + 1 => buffer[i] = "<"
    <2>1. InText(body, p)
      BY <1>1, TextAhead
    <2>2. QED
      BY <2>1 DEF InText
  <1>3. /\ p < Len(body) /\ DOMAIN body = 1 .. Len(body) /\ t \in Word /\ t # "<"
        /\ (p > 0 => prev = body[p])
    BY <1>1, <1>2, LengthsAre, WordsAre
  <1>4. \A i \in DOMAIN body :
          Extractor!TagAt(body, i) /\ body[i + 1] \in Known => Extractor!Spared(body, i, 3)
    BY <1>1, ReadsOnce
  <1>5. 1 \in 1 .. Len(buffer) /\ 2 \in 1 .. Len(buffer) /\ 3 \in 1 .. Len(buffer)
    BY <1>2
  <1>6. p + 3 <= Len(body)
    <2>1. p + 2 # Len(body) + 1 /\ p + 3 # Len(body) + 1
      BY <1>2, <1>3, <1>5
    <2>2. QED
      BY <1>2, <1>3, <2>1
  <1>7. body[p + 1] = "<" /\ body[p + 2] = t /\ body[p + 3] = ">"
    <2>1. p + 1 <= Len(body) /\ p + 2 <= Len(body)
      BY <1>2, <1>6
    <2>2. QED
      BY <1>2, <1>5, <1>6, <2>1
  <1>8. /\ (p + 1) + 1 = p + 2 /\ (p + 1) + 2 = p + 3 /\ p + 1 \in DOMAIN body
        /\ p + 3 \in DOMAIN body
    BY <1>2, <1>3, <1>6
  <1>9. Extractor!TagAt(body, p + 1) /\ body[(p + 1) + 1] \in Known
    BY <1>3, <1>7, <1>8, Zenon DEF Extractor!TagAt
  <1>10. Extractor!Spared(body, p + 1, 3)
    BY <1>4, <1>8, <1>9
  <1>11. p > 0 /\ (p + 1) + 3 <= Len(body)
    <2>1. p + 1 > 1 /\ (p + 1) + 3 \in DOMAIN body
      BY <1>10 DEF Extractor!Spared
    <2>2. QED
      BY <1>3, <2>1
  <1>12. Extractor!Escaped(1, 3)
    <2>1. Behind(body, p)
      BY <1>3, <1>11 DEF Behind
    <2>2. buffer \in Symbols /\ 1 + 3 - 1 <= Len(buffer) /\ 3 \in {3, 4}
      <3>1. 1 + 3 - 1 = 3
        OBVIOUS
      <3>2. QED
        BY <3>1, Zenon DEF Left
    <2>3. QED
      BY <1>2, <1>5, <1>10, <2>1, <2>2, SparedIsEscaped
  <1>13. p + 3 < Len(body)
    BY <1>2, <1>11
  <1>14. QED
    BY <1>1, <1>7, <1>12, <1>13 DEF TagBehind

\* The loop goes on outside with the next segment.
LEMMA NextPlace ==
    ASSUME NEW g, Setting(g), NEW k \in 1 .. Len(g.a), answer' = g.a, state' = Outside,
           Come(g.T, g.start[k + 1])', Spoke(g.M, g.from[k + 1])', mode' # "ended",
           k + 1 <= Len(g.a) => prev' # "tick", Tools(g, k + 1, 0)'
    PROVE  Place(g, k + 1, 0)'
  <1>1. k + 1 \in 1 .. Len(g.a) + 1 /\ 0 \in Nat /\ ~ 0 > 0
    BY SettingIs
  <1>2. g.start[k + 1] + 0 = g.start[k + 1] /\ g.from[k + 1] + 0 = g.from[k + 1]
    <2>1. g.start[k + 1] \in Nat /\ g.from[k + 1] \in Nat
      BY SegmentOf
    <2>2. \A x \in Nat : x + 0 = x
      OBVIOUS
    <2>3. QED
      BY <2>1, <2>2, Zenon
  <1>3. Come(g.T, g.start[k + 1] + 0)' /\ Spoke(g.M, g.from[k + 1] + 0)'
    BY <1>2, Zenon
  <1>4. OutAt(g, k + 1, 0)'
    BY <1>1, <1>3 DEF OutAt
  <1>5. Setting(g)'
    BY SettingStays
  <1>6. QED
    BY <1>1, <1>4, <1>5 DEF Place

\* Of a close tag that closes nothing, nothing is passed on.
LEMMA OrphanMoves ==
    ASSUME ExtractorInv, PlaceInv, Extractor!OrphanClose
    PROVE  PlaceInv'
  <1>1. Left /\ Passed /\ buffer # <<>> /\ state = Outside /\ CutNoted
    BY PartsOf DEF ExtractorInv, Extractor!OrphanClose, Extractor!Draining, PlaceInv
  <1>2. PICK g, k, p : Place(g, k, p)
    BY DEF PlaceInv
  <1>3. /\ OutAt(g, k, p) /\ k \in 1 .. Len(g.a) /\ Len(g.a) \in Nat /\ k \in Nat /\ k > 0
        /\ \/ g.a[k].tag = Outside /\ p < Len(g.a[k].body)
           \/ g.a[k].tag \in Known \cup {"orphan"} /\ g.a[k].tag # Outside /\ p = 0
    BY <1>1, <1>2, OutsidePlace
  <1>4. /\ Setting(g) /\ p \in Nat /\ Come(g.T, g.start[k] + p) /\ Spoke(g.M, g.from[k] + p)
        /\ Tools(g, k, p) /\ answer = g.a
    BY <1>2, <1>3 DEF Place, OutAt
  <1>5. PICK f : f = Extractor!FirstOf(">")
    OBVIOUS
  <1>6. buffer \in Symbols /\ Len(buffer) \in Nat /\ Len(buffer) > 0
    BY <1>1, LengthsAre DEF Left
  <1>7. /\ f \in 0 .. Len(buffer) /\ (f > 0 => buffer[f] = ">")
        /\ \A j \in 1 .. Len(buffer) : buffer[j] = ">" => f > 0 /\ f <= j
    BY <1>5, <1>6, FirstOnes
  <1>8. Len(buffer) >= 2 /\ buffer[1] = "<" /\ buffer[2] = "/"
    BY <1>6, SlashOccurs DEF Extractor!OrphanClose
  <1>9. g.a[k].tag = "orphan" /\ p = 0
    <2>1. ~ (g.a[k].tag = Outside /\ p < Len(g.a[k].body))
      BY <1>1, <1>3, <1>4, <1>8, NoSlash
    <2>2. g.a[k].tag \in Known \cup {"orphan"} /\ g.a[k].tag # Outside /\ p = 0
      BY <1>3, <2>1
    <2>3. g.a[k].tag \in Known => buffer[2] = g.a[k].tag
      BY <1>1, <1>3, <1>4, <1>8, <2>2, TagAhead
    <2>4. QED
      BY <1>8, <2>2, <2>3, WordsAre
  <1>10. CASE f = 0
    <2>1. Extractor!Wait
      BY <1>5, <1>10 DEF Extractor!OrphanClose
    <2>2. Place(g, k, p)' /\ CutNoted'
      BY <1>1, <1>2, <2>1, WaitKeeps
    <2>3. Waits'
      <3>1. buffer' = buffer /\ state' = Outside
        BY <1>1, <2>1 DEF Extractor!Wait
      <3>2. \A i \in 1 .. Len(buffer) : buffer[i] # ">"
        BY <1>7, <1>10
      <3>3. QED
        BY <1>8, <3>1, <3>2 DEF Waits
    <2>4. QED
      BY <2>2, <2>3 DEF PlaceInv
  <1>11. CASE f # 0
    <2>1. /\ Extractor!Advance(Extractor!From(buffer, f + 1), prev)
          /\ UNCHANGED <<state, toolText, said, parsed>>
      BY <1>5, <1>11, Zenon DEF Extractor!OrphanClose
    <2>2. f \in 0 .. Len(buffer) /\ f \in 1 .. Len(buffer) /\ buffer[f] = ">"
      BY <1>7, <1>11
    <2>3. Remains(Extractor!From(buffer, f + 1), f)
      BY <1>1, <2>2, FromRemains
    <2>4. PICK left : left = Extractor!From(buffer, f + 1)
      OBVIOUS
    <2>5. Remains(left, f) /\ Extractor!Advance(left, prev)
      BY <2>1, <2>3, <2>4
    <2>6. /\ Come(g.T, (g.start[k] + p) + f)' /\ CutNoted' /\ Waits' /\ prev' = prev
          /\ answer' = answer /\ cut' = cut /\ mode' # "ended"
      BY <1>1, <1>4, <2>5, Turns
    <2>7. PICK body : body = g.a[k].body
      OBVIOUS
    <2>8. /\ Len(body) > 2 /\ body \in Symbols /\ Len(body) \in Nat /\ DOMAIN body = 1 .. Len(body)
          /\ \A i \in DOMAIN body : body[i] = ">" <=> i = Len(body)
      <3>1. /\ Len(body) > 2 /\ \A i \in DOMAIN body : body[i] = ">" <=> i = Len(body)
        BY <1>3, <1>4, <1>9, <2>7, ReadsOnce
      <3>2. body \in Symbols
        BY <1>3, <1>4, <2>7, SegmentOf
      <3>3. QED
        BY <3>1, <3>2, LengthsAre
    <2>9. PICK o : o = g.start[k] /\ o \in Nat
      BY <1>3, <1>4, SegmentOf
    <2>10. /\ g.start[k + 1] = o + Len(body)
           /\ \A j \in 1 .. Len(body) : g.T[o + j] = body[j]
      <3>1. g.a[k].tag \notin Known
        BY <1>3, <1>4, <1>9, SegmentOf
      <3>2. /\ g.start[k + 1] = g.start[k] + Len(g.a[k].body)
            /\ \A j \in 1 .. Len(g.a[k].body) : g.T[g.start[k] + j] = g.a[k].body[j]
        BY <1>3, <1>4, <3>1, BareOf
      <3>3. QED
        BY <2>7, <2>9, <3>2, Zenon
    <2>11. \A i \in 1 .. Len(buffer) : i <= Len(body) => buffer[i] = body[i]
      <3>1. \A i \in 1 .. Len(buffer) : buffer[i] = g.T[(o + 0) + i]
        BY <1>4, <1>9, <2>9 DEF Come
      <3>2. \A i \in 1 .. Len(buffer) : (o + 0) + i = o + i
        BY <2>9
      <3>3. \A i \in 1 .. Len(buffer) : i <= Len(body) => i \in 1 .. Len(body)
        BY <2>8
      <3>4. QED
        BY <2>10, <3>1, <3>2, <3>3, Zenon
    <2>12. f = Len(body)
      <3>1. ~ f < Len(body)
        BY <2>2, <2>8, <2>11
      <3>2. ~ f > Len(body)
        <4>1. SUFFICES ASSUME f > Len(body) PROVE FALSE
          OBVIOUS
        <4>2. Len(body) \in 1 .. Len(buffer) /\ buffer[Len(body)] = body[Len(body)]
          BY <1>6, <2>2, <2>8, <2>11, <4>1
        <4>3. body[Len(body)] = ">"
          BY <2>8
        <4>4. QED
          BY <1>7, <2>8, <4>1, <4>2, <4>3
      <3>3. \A x, y \in Nat : ~ x < y /\ ~ x > y => x = y
        OBVIOUS
      <3>4. f \in Nat
        BY <2>2
      <3>5. QED
        BY <2>8, <3>1, <3>2, <3>3, <3>4, Zenon
    <2>13. (g.start[k] + p) + f = g.start[k + 1] /\ g.from[k] + p = g.from[k + 1]
      <3>1. g.from[k + 1] = g.from[k] /\ g.from[k] \in Nat
        <4>1. SegmentAt(g.a[k], g.start[k], g.start[k + 1], g.from[k], g.from[k + 1], g.T, g.M)
          BY <1>3, <1>4, SegmentOf
        <4>2. g.from[k] \in Nat
          BY <1>3, <1>4, SegmentOf
        <4>3. QED
          BY <1>9, <4>1, <4>2 DEF SegmentAt, Means
      <3>2. (o + 0) + f = o + f
        BY <2>2, <2>9
      <3>3. QED
        BY <1>9, <2>9, <2>10, <2>12, <3>1, <3>2
    <2>14. Come(g.T, g.start[k + 1])' /\ Spoke(g.M, g.from[k + 1])'
      <3>1. Spoke(g.M, g.from[k] + p)'
        BY <1>4, <2>1 DEF Spoke
      <3>2. QED
        BY <2>6, <2>13, <3>1, Zenon
    <2>15. state' = Outside /\ state' # "tool"
      BY <1>1, <2>1, WordsAre
    <2>16. Tools(g, k + 1, 0)'
      BY <1>3, <1>4, <1>9, <2>1, <2>6, <2>15, ToolsKeep
    <2>17. prev' # "tick"
      BY <1>3, <1>9, <2>6 DEF OutAt
    <2>18. Place(g, k + 1, 0)'
      BY <1>3, <1>4, <2>6, <2>14, <2>15, <2>16, <2>17, NextPlace
    <2>19. QED
      BY <2>6, <2>18 DEF PlaceInv
  <1>12. QED
    BY <1>10, <1>11

\* The symbols of an open tag.
LEMMA OpenIs ==
    ASSUME NEW t \in Known, NEW x, x = Extractor!Open(t)
    PROVE  x \in Symbols /\ Len(x) = 3 /\ x[1] = "<" /\ x[2] = t /\ x[3] = ">"
  <1>1. x = <<"<", t, ">">> /\ x \in Symbols
    BY TagsAre DEF Extractor!Open
  <1>2. QED
    BY <1>1

\* An open tag is that of the next segment, or escaped in a text.
LEMMA OpenMoves ==
    ASSUME ExtractorInv, PlaceInv, Extractor!OpenTag
    PROVE  PlaceInv'
  <1>1. Left /\ Passed /\ buffer # <<>> /\ state = Outside /\ CutNoted
    BY PartsOf DEF ExtractorInv, Extractor!OpenTag, Extractor!Draining, PlaceInv
  <1>2. PICK g, k, p : Place(g, k, p)
    BY DEF PlaceInv
  <1>3. /\ OutAt(g, k, p) /\ k \in 1 .. Len(g.a) /\ Len(g.a) \in Nat /\ k \in Nat /\ k > 0
        /\ \/ g.a[k].tag = Outside /\ p < Len(g.a[k].body)
           \/ g.a[k].tag \in Known \cup {"orphan"} /\ g.a[k].tag # Outside /\ p = 0
    BY <1>1, <1>2, OutsidePlace
  <1>4. /\ Setting(g) /\ p \in Nat /\ Come(g.T, g.start[k] + p) /\ Spoke(g.M, g.from[k] + p)
        /\ Tools(g, k, p) /\ answer = g.a
    BY <1>2, <1>3 DEF Place, OutAt
  <1>5. PICK t \in Known :
          /\ Extractor!Occurs(Extractor!Open(t), 1)
          /\ Extractor!Advance(Extractor!From(buffer, 4), ">")
          /\ IF Extractor!Escaped(1, 3)
             THEN Extractor!Emit(Outside, Extractor!Open(t), FALSE) /\ UNCHANGED state
             ELSE state' = t /\ UNCHANGED <<toolText, said, parsed>>
    BY Zenon DEF Extractor!OpenTag
  <1>6. buffer \in Symbols /\ Len(buffer) \in Nat
    BY <1>1, LengthsAre DEF Left
  <1>7. Len(buffer) >= 3 /\ buffer[1] = "<" /\ buffer[2] = t /\ buffer[3] = ">"
    BY <1>5, <1>6, OpenOccurs
  <1>8. Remains(Extractor!From(buffer, 4), 3)
    <2>1. 3 \in 0 .. Len(buffer) /\ 4 = 3 + 1
      BY <1>6, <1>7
    <2>2. QED
      BY <1>1, <2>1, FromRemains
  <1>9. PICK left : left = Extractor!From(buffer, 4)
    OBVIOUS
  <1>10. Remains(left, 3) /\ Extractor!Advance(left, ">")
    BY <1>5, <1>8, <1>9
  <1>11. /\ Come(g.T, (g.start[k] + p) + 3)' /\ CutNoted' /\ Waits' /\ prev' = ">"
         /\ answer' = answer /\ cut' = cut /\ mode' # "ended"
    BY <1>1, <1>4, <1>10, Turns
  <1>12. CASE g.a[k].tag = Outside
    <2>1. p < Len(g.a[k].body)
      BY <1>3, <1>12
    <2>2. p > 0 => prev = g.a[k].body[p]
      BY <1>3 DEF OutAt
    <2>3. /\ Extractor!Escaped(1, 3) /\ p + 3 < Len(g.a[k].body)
          /\ g.a[k].body[p + 1] = "<" /\ g.a[k].body[p + 2] = t /\ g.a[k].body[p + 3] = ">"
      <3>1. Extractor!Escaped(1, 3) /\ TagBehind(g.a[k].body, p, t)
        BY <1>1, <1>3, <1>4, <1>7, <1>12, <2>1, <2>2, TagInText
      <3>2. QED
        BY <3>1, Zenon DEF TagBehind
    <2>4. PICK x : x = Extractor!Open(t)
      OBVIOUS
    <2>5. x \in Symbols /\ Len(x) = 3 /\ x[1] = "<" /\ x[2] = t /\ x[3] = ">"
      BY <2>4, OpenIs
    <2>6. Extractor!Emit(Outside, x, FALSE) /\ state' = state
      BY <1>5, <2>3, <2>4
    <2>7. \A j \in 1 .. 3 : x[j] = g.a[k].body[p + j]
      <3>1. \A j \in 1 .. 3 : j = 1 \/ j = 2 \/ j = 3
        OBVIOUS
      <3>2. QED
        BY <2>3, <2>5, <3>1, Zenon
    <2>8. p + 3 <= Len(g.a[k].body)
      <3>1. Len(g.a[k].body) \in Nat
        BY <1>3, <1>4, SegmentOf
      <3>2. QED
        BY <1>4, <2>3, <3>1
    <2>9. 3 \in Nat /\ 3 > 0 /\ 3 = Len(x) /\ ">" = g.a[k].body[p + 3]
      BY <2>3, <2>5
    <2>10. \E h, q : Place(g, h, q)'
      BY <1>2, <1>3, <1>10, <1>12, <2>1, <2>5, <2>6, <2>7, <2>8, <2>9, TextMoves, ZenonT(30)
    <2>11. QED
      BY <1>11, <2>10 DEF PlaceInv
  <1>13. CASE g.a[k].tag # Outside
    <2>1. p = 0
      BY <1>3, <1>13
    <2>2. Come(g.T, g.start[k] + 0)
      BY <1>4, <2>1
    <2>3. g.a[k].tag \in Known /\ g.a[k].tag = t
      <3>1. /\ g.a[k].tag = "orphan" => buffer[2] = "/"
            /\ g.a[k].tag \in Known => buffer[2] = g.a[k].tag
        <4>1. /\ Len(buffer) >= 2 /\ g.a[k].tag = "orphan" => buffer[2] = "/"
              /\ Len(buffer) >= 2 /\ g.a[k].tag \in Known => buffer[2] = g.a[k].tag
          BY <1>1, <1>3, <1>4, <1>13, <2>2, TagAhead
        <4>2. QED
          BY <1>6, <1>7, <4>1
      <3>2. t # "/"
        BY WordsAre
      <3>3. QED
        BY <1>3, <1>7, <1>13, <3>1, <3>2
    <2>4. prev # "tick"
      BY <1>3, <2>1 DEF OutAt
    <2>5. ~ Extractor!Escaped(1, 3)
      BY <2>4 DEF Extractor!Escaped
    <2>6. state' = t /\ toolText' = toolText /\ said' = said /\ parsed' = parsed
      BY <1>5, <2>5
    <2>7. Tools(g, k, 0)'
      BY <1>3, <1>4, <1>11, <2>6, ToolsKeep
    <2>8. Come(g.T, (g.start[k] + 3) + 0)'
      <3>1. (g.start[k] + p) + 3 = (g.start[k] + 3) + 0
        <4>1. g.start[k] \in Nat
          BY <1>3, <1>4, SegmentOf
        <4>2. QED
          BY <2>1, <4>1
      <3>2. QED
        BY <1>11, <3>1, Zenon
    <2>9. Spoke(g.M, g.from[k] + 0)'
      BY <1>4, <2>1, <2>6 DEF Spoke
    <2>10. Behind(g.a[k].body, 0)'
      BY <1>11 DEF Behind
    <2>11. k <= Len(g.a) /\ 0 <= Len(g.a[k].body)
      <3>1. Len(g.a[k].body) \in Nat
        BY <1>3, <1>4, SegmentOf
      <3>2. QED
        BY <1>3, <3>1
    <2>12. InAt(g, k, 0)'
      BY <2>3, <2>6, <2>8, <2>9, <2>10, <2>11 DEF InAt
    <2>13. k \in 1 .. Len(g.a) + 1 /\ 0 \in Nat
      BY <1>3
    <2>14. Setting(g)'
      BY <1>4, SettingStays
    <2>15. Place(g, k, 0)'
      BY <1>4, <1>11, <2>7, <2>12, <2>13, <2>14 DEF Place
    <2>16. QED
      BY <1>11, <2>15 DEF PlaceInv
  <1>14. QED
    BY <1>12, <1>13

\* The beginning of an open tag.
LEMMA BeginsOpen ==
    ASSUME buffer \in Symbols, NEW t \in Known
    PROVE  Extractor!IsPrefix(buffer, Extractor!Open(t)) <=>
             /\ Len(buffer) <= 3 /\ (Len(buffer) >= 1 => buffer[1] = "<")
             /\ (Len(buffer) >= 2 => buffer[2] = t) /\ (Len(buffer) >= 3 => buffer[3] = ">")
  <1>1. PICK x, q : x = Extractor!Open(t) /\ q = buffer
    OBVIOUS
  <1>2. x \in Seq(Extractor!Symbol) /\ Len(x) = 3 /\ x[1] = "<" /\ x[2] = t /\ x[3] = ">"
    BY <1>1, OpenIs DEF Symbols
  <1>3. q \in Seq(Extractor!Symbol) /\ Len(q) \in Nat
    BY <1>1, LengthsAre DEF Symbols
  <1>4. Extractor!IsPrefix(q, x) <=> Len(q) <= Len(x) /\ \A i \in 1 .. Len(q) : q[i] = x[i]
    BY <1>2, <1>3, PrefixIs
  <1>5. Len(q) <= 3 => \A i : i \in 1 .. Len(q) <=> \/ i = 1 /\ Len(q) >= 1
                                                    \/ i = 2 /\ Len(q) >= 2
                                                    \/ i = 3 /\ Len(q) >= 3
    BY <1>3
  <1>6. Extractor!IsPrefix(q, x) <=>
          /\ Len(q) <= 3 /\ (Len(q) >= 1 => q[1] = "<")
          /\ (Len(q) >= 2 => q[2] = t) /\ (Len(q) >= 3 => q[3] = ">")
    BY <1>2, <1>4, <1>5, Zenon
  <1>7. QED
    BY <1>1, <1>6, Zenon

\* A bracket that cannot become a tag is text.
LEMMA LessThanMoves ==
    ASSUME ExtractorInv, PlaceInv, Extractor!LessThan
    PROVE  PlaceInv'
  <1>1. Left /\ Passed /\ buffer # <<>> /\ state = Outside /\ CutNoted
    BY PartsOf DEF ExtractorInv, Extractor!LessThan, Extractor!Draining, PlaceInv
  <1>2. PICK g, k, p : Place(g, k, p)
    BY DEF PlaceInv
  <1>3. /\ OutAt(g, k, p) /\ k \in 1 .. Len(g.a) /\ Len(g.a) \in Nat /\ k \in Nat /\ k > 0
        /\ \/ g.a[k].tag = Outside /\ p < Len(g.a[k].body)
           \/ g.a[k].tag \in Known \cup {"orphan"} /\ g.a[k].tag # Outside /\ p = 0
    BY <1>1, <1>2, OutsidePlace
  <1>4. /\ Setting(g) /\ p \in Nat /\ Come(g.T, g.start[k] + p) /\ Spoke(g.M, g.from[k] + p)
        /\ Tools(g, k, p) /\ answer = g.a
    BY <1>2, <1>3 DEF Place, OutAt
  <1>5. buffer \in Symbols /\ Len(buffer) \in Nat /\ Len(buffer) > 0
    BY <1>1, LengthsAre DEF Left
  <1>6. /\ buffer[1] = "<" /\ ~ (Len(buffer) >= 2 /\ buffer[2] = "/")
        /\ \A t \in Known : ~ (Len(buffer) >= 3 /\ buffer[2] = t /\ buffer[3] = ">")
    <2>1. Extractor!FirstOf("<") = 1
      BY DEF Extractor!LessThan
    <2>2. buffer[1] = "<"
      BY <1>5, <2>1, FirstOnes
    <2>3. ~ (Len(buffer) >= 2 /\ buffer[2] = "/")
      BY <1>5, <2>2, SlashOccurs DEF Extractor!LessThan
    <2>4. \A t \in Known : ~ Extractor!Occurs(Extractor!Open(t), 1)
      BY Zenon DEF Extractor!LessThan
    <2>5. QED
      BY <1>5, <2>2, <2>3, <2>4, OpenOccurs
  <1>7. CASE \E t \in Known : Extractor!IsPrefix(buffer, Extractor!Open(t))
    <2>1. Extractor!Wait
      BY <1>7, Zenon DEF Extractor!LessThan
    <2>2. Place(g, k, p)' /\ CutNoted'
      BY <1>1, <1>2, <2>1, WaitKeeps
    <2>3. Len(buffer) < 3
      <3>1. PICK t \in Known : Extractor!IsPrefix(buffer, Extractor!Open(t))
        BY <1>7
      <3>2. /\ Len(buffer) <= 3 /\ (Len(buffer) >= 2 => buffer[2] = t)
            /\ (Len(buffer) >= 3 => buffer[3] = ">")
        BY <1>5, <3>1, BeginsOpen
      <3>3. QED
        BY <1>5, <1>6, <3>2
    <2>4. Waits'
      <3>1. buffer' = buffer /\ state' = Outside
        BY <1>1, <2>1 DEF Extractor!Wait
      <3>2. QED
        BY <1>6, <2>3, <3>1 DEF Waits
    <2>5. QED
      BY <2>2, <2>4 DEF PlaceInv
  <1>8. CASE ~ \E t \in Known : Extractor!IsPrefix(buffer, Extractor!Open(t))
    <2>1. /\ Extractor!Emit(Outside, <<"<">>, FALSE) /\ Extractor!Advance(Tail(buffer), "<")
          /\ state' = state
      BY <1>8, Zenon DEF Extractor!LessThan
    <2>2. g.a[k].tag = Outside /\ p < Len(g.a[k].body)
      <3>1. SUFFICES ASSUME g.a[k].tag # Outside PROVE FALSE
        BY <1>3
      <3>2. g.a[k].tag \in Known \cup {"orphan"} /\ Come(g.T, g.start[k] + 0)
        BY <1>3, <1>4, <3>1
      <3>3. /\ Len(buffer) >= 2 /\ g.a[k].tag = "orphan" => buffer[2] = "/"
            /\ Len(buffer) >= 2 /\ g.a[k].tag \in Known => buffer[2] = g.a[k].tag
            /\ Len(buffer) >= 3 /\ g.a[k].tag \in Known => buffer[3] = ">"
        BY <1>1, <1>3, <1>4, <3>1, <3>2, TagAhead
      <3>4. CASE g.a[k].tag \in Known
        <4>1. PICK t \in Known : t = g.a[k].tag
          BY <3>4
        <4>2. ~ Len(buffer) >= 3
          BY <1>5, <1>6, <3>3, <4>1
        <4>3. Len(buffer) <= 3 /\ (Len(buffer) >= 2 => buffer[2] = t)
          BY <1>5, <3>3, <4>1, <4>2
        <4>4. Extractor!IsPrefix(buffer, Extractor!Open(t))
          BY <1>5, <1>6, <4>2, <4>3, BeginsOpen
        <4>5. QED
          BY <1>8, <4>4
      <3>5. CASE g.a[k].tag = "orphan"
        <4>1. PICK t \in Known : TRUE
          BY WordsAre
        <4>2. ~ Len(buffer) >= 2
          BY <1>6, <3>3, <3>5
        <4>3. ~ Len(buffer) >= 3 /\ Len(buffer) <= 3
          BY <1>5, <4>2
        <4>4. Extractor!IsPrefix(buffer, Extractor!Open(t))
          BY <1>5, <1>6, <4>2, <4>3, BeginsOpen
        <4>5. QED
          BY <1>8, <4>4
      <3>6. QED
        BY <3>2, <3>4, <3>5
    <2>3. Remains(Tail(buffer), 1)
      BY <1>1, TailRemains
    <2>4. PICK left, text : left = Tail(buffer) /\ text = <<"<">>
      OBVIOUS
    <2>5. text \in Symbols /\ Len(text) = 1 /\ text[1] = "<"
      BY <2>4 DEF Symbols, Extractor!Symbol, Extractor!Mark
    <2>6. /\ Remains(left, 1) /\ Extractor!Advance(left, "<")
          /\ Extractor!Emit(Outside, text, FALSE)
      BY <2>1, <2>3, <2>4
    <2>7. "<" = g.a[k].body[p + 1] /\ p + 1 <= Len(g.a[k].body)
      <3>1. PICK body : body = g.a[k].body /\ p < Len(body)
        BY <2>2
      <3>2. InText(body, p)
        BY <1>1, <1>3, <1>4, <2>2, <3>1, TextAhead
      <3>3. p + 1 <= Len(body) /\ 1 \in 1 .. Len(buffer)
        BY <1>4, <1>5, <3>1, <3>2 DEF InText
      <3>4. buffer[1] = body[p + 1]
        BY <3>2, <3>3 DEF InText
      <3>5. QED
        BY <1>6, <3>1, <3>3, <3>4
    <2>8. \A j \in 1 .. 1 : text[j] = g.a[k].body[p + j]
      <3>1. \A j \in 1 .. 1 : j = 1
        OBVIOUS
      <3>2. QED
        BY <2>5, <2>7, <3>1, Zenon
    <2>9. 1 \in Nat /\ 1 > 0 /\ 1 = Len(text)
      BY <2>5
    <2>10. \E h, q : Place(g, h, q)'
      <3>1. PICK n : n = 1
        OBVIOUS
      <3>2. /\ n \in Nat /\ n > 0 /\ n = Len(text) /\ Remains(left, n)
            /\ "<" = g.a[k].body[p + n] /\ p + n <= Len(g.a[k].body)
            /\ \A j \in 1 .. n : text[j] = g.a[k].body[p + j]
        BY <2>6, <2>7, <2>8, <2>9, <3>1, Zenon
      <3>3. QED
        BY <1>2, <1>3, <2>1, <2>2, <2>5, <2>6, <3>2, TextMoves, ZenonT(30)
    <2>11. Waits' /\ CutNoted'
      BY <1>1, <2>6, Turns
    <2>12. QED
      BY <2>10, <2>11 DEF PlaceInv
  <1>9. QED
    BY <1>7, <1>8

\* The text of a tag in what is written from z on, and what comes behind it.
WrittenAt(T, z, text, t, after) ==
    /\ \A j \in 1 .. Len(text) : T[z + j] = text[j]
    /\ after # "end" => T[(z + Len(text)) + 1] = "<"
    /\ after = "close" => /\ T[(z + Len(text)) + 2] = "/" /\ T[(z + Len(text)) + 3] = t
                          /\ T[(z + Len(text)) + 4] = ">"
    /\ after = "open" => T[(z + Len(text)) + 2] \in Word /\ T[(z + Len(text)) + 3] = ">"
    /\ after = "end" => Len(T) = z + Len(text)

LEMMA TagWritten ==
    ASSUME NEW g, Setting(g), NEW k \in 1 .. Len(g.a), g.a[k].tag \in Known
    PROVE  /\ WrittenAt(g.T, g.start[k] + 3, g.a[k].body, g.a[k].tag, After(g, k))
           /\ After(g, k) \in {"close", "open", "end"}
           /\ Sound(g.a[k].body, g.a[k].tag, After(g, k))
  <1>1. PICK s, o, u, l, z, T, after :
          /\ s = g.a[k] /\ o = g.start[k] /\ u = g.start[k + 1] /\ l = Len(s.body)
          /\ z = o + 3 /\ T = g.T /\ after = After(g, k)
    OBVIOUS
  <1>2. /\ InTag(s, o, u, T) /\ o \in Nat /\ l \in Nat /\ u \in Nat /\ s.closed \in BOOLEAN
        /\ s.tag \in Known /\ Len(g.a) \in Nat
    BY <1>1, InTagOf, SegmentOf, SettingIs
  <1>3. /\ \A j \in 1 .. l : T[o + 3 + j] = s.body[j]
        /\ s.closed => /\ u = o + l + 7
                       /\ T[o + l + 4] = "<" /\ T[o + l + 5] = "/"
                       /\ T[o + l + 6] = s.tag /\ T[o + l + 7] = ">"
        /\ ~s.closed => u = o + l + 3
    BY <1>1, <1>2 DEF InTag
  <1>4. /\ (s.closed => after = "close") /\ (~s.closed /\ k < Len(g.a) => after = "open")
        /\ (~s.closed /\ ~ k < Len(g.a) => after = "end")
    BY <1>1 DEF After
  <1>5. /\ o + l + 4 = (z + l) + 1 /\ o + l + 5 = (z + l) + 2 /\ o + l + 6 = (z + l) + 3
        /\ o + l + 7 = (z + l) + 4 /\ o + l + 3 = z + l
    <2>1. z = o + 3 /\ o \in Nat /\ l \in Nat
      BY <1>1, <1>2, Zenon
    <2>2. QED
      BY <2>1
  <1>6. CASE s.closed
    <2>1. after = "close" /\ after # "open" /\ after # "end"
      BY <1>4, <1>6
    <2>2. /\ T[(z + l) + 1] = "<" /\ T[(z + l) + 2] = "/" /\ T[(z + l) + 3] = s.tag
          /\ T[(z + l) + 4] = ">"
      BY <1>3, <1>5, <1>6, Zenon
    <2>3. WrittenAt(T, z, s.body, s.tag, after)
      BY <1>1, <1>3, <2>1, <2>2, Zenon DEF WrittenAt
    <2>4. Sound(s.body, s.tag, after)
      <3>1. /\ s.body # <<>> => s.body[Len(s.body)] # "tick"
            /\ \A i \in DOMAIN s.body : Extractor!TagAt(s.body, i) => Extractor!Spared(s.body, i, 3)
            /\ \A i \in DOMAIN s.body :
                 Extractor!CloseAt(s.body, i, s.tag) => Extractor!Spared(s.body, i, 4)
        BY <1>1, <1>2, <1>6, ReadsOnce
      <3>2. QED
        BY <2>1, <3>1, Zenon DEF Sound
    <2>5. QED
      BY <1>1, <2>1, <2>3, <2>4, Zenon
  <1>7. CASE ~s.closed /\ k < Len(g.a)
    <2>1. after = "open" /\ after # "close" /\ after # "end"
      BY <1>4, <1>7
    <2>2. u = z + l /\ k + 1 \in 1 .. Len(g.a)
      <3>1. u = z + l
        BY <1>3, <1>5, <1>7, Zenon
      <3>2. Len(g.a) \in Nat /\ k < Len(g.a)
        BY <1>2, <1>7, Zenon
      <3>3. k + 1 \in 1 .. Len(g.a)
        BY <3>2
      <3>4. QED
        BY <3>1, <3>3
    <2>3. g.a[k + 1].tag \in Known
      BY <1>1, <1>2, <1>7, ReadsOnce
    <2>4. g.a[k + 1].tag # Outside
      BY <2>3, WordsAre
    <2>5. T[u + 1] = "<" /\ T[u + 2] \in Word /\ T[u + 3] = ">"
      <3>1. /\ g.T[g.start[k + 1] + 1] = "<"
            /\ g.T[g.start[k + 1] + 2] = g.a[k + 1].tag /\ g.T[g.start[k + 1] + 3] = ">"
        <4>1. PICK h \in 1 .. Len(g.a) : h = k + 1
          BY <2>2
        <4>2. /\ g.T[g.start[h] + 1] = "<" /\ g.T[g.start[h] + 2] = g.a[h].tag
              /\ g.T[g.start[h] + 3] = ">"
          BY <2>3, <2>4, <4>1, NextIs
        <4>3. QED
          BY <4>1, <4>2, Zenon
      <3>2. g.a[k + 1].tag \in Word
        BY <2>3, WordsAre
      <3>3. QED
        BY <1>1, <3>1, <3>2, Zenon
    <2>6. WrittenAt(T, z, s.body, s.tag, after)
      <3>1. T[(z + l) + 1] = "<" /\ T[(z + l) + 2] \in Word /\ T[(z + l) + 3] = ">"
        BY <2>2, <2>5, Zenon
      <3>2. QED
        BY <1>1, <1>3, <2>1, <3>1, Zenon DEF WrittenAt
    <2>7. Sound(s.body, s.tag, after)
      <3>1. /\ s.body # <<>> => s.body[Len(s.body)] # "tick"
            /\ \A i \in DOMAIN s.body : Extractor!TagAt(s.body, i) => Extractor!Spared(s.body, i, 3)
            /\ \A i \in DOMAIN s.body :
                 Extractor!CloseAt(s.body, i, s.tag) => Extractor!Spared(s.body, i, 4)
            /\ \A i \in DOMAIN s.body : s.body[i] = "<" => Extractor!TagAt(s.body, i)
        BY <1>1, <1>2, <1>7, ReadsOnce
      <3>2. QED
        BY <2>1, <3>1, Zenon DEF Sound
    <2>8. QED
      BY <1>1, <2>1, <2>6, <2>7, Zenon
  <1>8. CASE ~s.closed /\ ~ k < Len(g.a)
    <2>1. after = "end" /\ after # "close" /\ after # "open"
      BY <1>4, <1>8
    <2>2. k = Len(g.a)
      BY <1>2, <1>8
    <2>3. Len(T) = z + l
      <3>1. k + 1 \in 1 .. Len(g.a) + 1 /\ k + 1 = Len(g.a) + 1
        BY <1>2, <2>2
      <3>2. u = Len(T)
        BY <1>1, <3>1, SettingIs
      <3>3. QED
        BY <1>3, <1>5, <1>8, <3>2
    <2>4. WrittenAt(T, z, s.body, s.tag, after)
      BY <1>1, <1>3, <2>1, <2>3, Zenon DEF WrittenAt
    <2>5. Sound(s.body, s.tag, after)
      <3>1. /\ \A i \in DOMAIN s.body : Extractor!TagAt(s.body, i) => Extractor!Spared(s.body, i, 3)
            /\ \A i \in DOMAIN s.body :
                 Extractor!CloseAt(s.body, i, s.tag) => Extractor!Spared(s.body, i, 4)
        BY <1>1, <1>2, ReadsOnce
      <3>2. QED
        BY <2>1, <3>1, Zenon DEF Sound
    <2>6. QED
      BY <1>1, <2>1, <2>4, <2>5, Zenon
  <1>9. QED
    BY <1>2, <1>6, <1>7, <1>8

\* Inside a tag the loop stands in the body of a segment.
LEMMA InsidePlace ==
    ASSUME Left, NEW g, NEW k, NEW p, Place(g, k, p), state \in Known
    PROVE  /\ InAt(g, k, p) /\ k \in 1 .. Len(g.a) /\ k \in Nat /\ k > 0
           /\ Inside(g.a[k].body, p, g.a[k].tag, After(g, k))
  <1>1. /\ Setting(g) /\ k \in 1 .. Len(g.a) + 1 /\ p \in Nat /\ InAt(g, k, p)
    BY WordsAre DEF Place, OutAt
  <1>2. Len(g.a) \in Nat
    BY <1>1, SettingIs
  <1>3. k \in 1 .. Len(g.a) /\ k \in Nat /\ k > 0
    BY <1>1, <1>2 DEF InAt
  <1>4. PICK text, t, z, T, after :
          /\ text = g.a[k].body /\ t = g.a[k].tag /\ z = g.start[k] + 3 /\ T = g.T
          /\ after = After(g, k)
    OBVIOUS
  <1>5. /\ t \in Known /\ state = t /\ p <= Len(text) /\ Come(T, z + p) /\ Behind(text, p)
    BY <1>1, <1>4 DEF InAt
  <1>6. text \in Symbols /\ Len(text) \in Nat /\ z \in Nat
    <2>1. g.a[k].body \in Symbols /\ Len(g.a[k].body) \in Nat /\ g.start[k] \in Nat
      BY <1>1, <1>3, SegmentOf
    <2>2. \A x \in Nat : x + 3 \in Nat
      OBVIOUS
    <2>3. QED
      BY <1>4, <2>1, <2>2, Zenon
  <1>7. WrittenAt(T, z, text, t, after) /\ after \in {"close", "open", "end"}
        /\ Sound(text, t, after)
    BY <1>1, <1>3, <1>4, <1>5, TagWritten
  <1>8. Len(buffer) \in Nat /\ Len(rest) \in Nat
    BY LengthsAre DEF Left
  <1>9. /\ (z + p) + Len(buffer) + Len(rest) = Len(T)
        /\ \A i \in 1 .. Len(buffer) : buffer[i] = T[(z + p) + i]
    BY <1>5 DEF Come
  <1>10. ASSUME NEW i \in 1 .. Len(buffer)
         PROVE  /\ p + i <= Len(text) => buffer[i] = text[p + i]
                /\ p + i = Len(text) + 1 => after # "end" /\ buffer[i] = "<"
                /\ p + i = Len(text) + 2 =>
                     IF after = "close" THEN buffer[i] = "/" ELSE buffer[i] \in Word
                /\ p + i = Len(text) + 3 => buffer[i] = IF after = "close" THEN t ELSE ">"
                /\ p + i = Len(text) + 4 /\ after = "close" => buffer[i] = ">"
                /\ after = "end" => p + i <= Len(text)
    <2>1. buffer[i] = T[z + (p + i)]
      <3>1. (z + p) + i = z + (p + i)
        BY <1>1, <1>6
      <3>2. QED
        BY <1>9, <3>1, Zenon
    <2>2. PICK h, l : h = p + i /\ l = Len(text)
      OBVIOUS
    <2>3. h \in Nat /\ h > 0 /\ l \in Nat /\ buffer[i] = T[z + h]
      BY <1>1, <1>6, <2>1, <2>2
    <2>4. h <= l => buffer[i] = text[h]
      BY <1>7, <2>2, <2>3 DEF WrittenAt
    <2>5. after = "end" => h <= l
      <3>1. SUFFICES ASSUME after = "end" PROVE h <= l
        OBVIOUS
      <3>2. Len(T) = z + l
        BY <1>7, <2>2, <3>1 DEF WrittenAt
      <3>3. PICK b, r : b = Len(buffer) /\ r = Len(rest)
        OBVIOUS
      <3>4. /\ b \in Nat /\ r \in Nat /\ (z + p) + b + r = z + l /\ i \in 1 .. b /\ h = p + i
            /\ z \in Nat /\ l \in Nat
        BY <1>6, <1>8, <1>9, <2>2, <2>3, <3>2, <3>3
      <3>5. QED
        BY <1>1, <3>4
    <2>6. /\ h = l + 1 => z + h = (z + l) + 1
          /\ h = l + 2 => z + h = (z + l) + 2
          /\ h = l + 3 => z + h = (z + l) + 3
          /\ h = l + 4 => z + h = (z + l) + 4
          /\ h = l + 1 => ~ h <= l
          /\ h = l + 2 => ~ h <= l
          /\ h = l + 3 => ~ h <= l
      BY <1>6, <2>3
    <2>7. h = l + 1 => after # "end" /\ buffer[i] = "<"
      BY <1>7, <2>2, <2>3, <2>5, <2>6, Zenon DEF WrittenAt
    <2>8. h = l + 2 => IF after = "close" THEN buffer[i] = "/" ELSE buffer[i] \in Word
      BY <1>7, <2>2, <2>3, <2>5, <2>6 DEF WrittenAt
    <2>9. h = l + 3 => buffer[i] = IF after = "close" THEN t ELSE ">"
      BY <1>7, <2>2, <2>3, <2>5, <2>6 DEF WrittenAt
    <2>10. h = l + 4 /\ after = "close" => buffer[i] = ">"
      BY <1>7, <2>2, <2>3, <2>6, Zenon DEF WrittenAt
    <2>11. QED
      BY <2>2, <2>4, <2>5, <2>7, <2>8, <2>9, <2>10, Zenon
  <1>11. Ahead(text, p, t, after)
    BY <1>10, Zenon DEF Ahead
  <1>12. p \in 0 .. Len(text)
    BY <1>1, <1>5, <1>6
  <1>13. Inside(text, p, t, after)
    BY <1>5, <1>6, <1>7, <1>11, <1>12 DEF Inside
  <1>14. QED
    BY <1>1, <1>3, <1>4, <1>13

\* A turn that passes on a piece of the text of a tag.
LEMMA BodyMoves ==
    ASSUME ExtractorInv, NEW g, NEW k, NEW p, Place(g, k, p), InAt(g, k, p),
           k \in 1 .. Len(g.a),
           NEW n \in Nat, n > 0, p + n <= Len(g.a[k].body), NEW text \in Symbols, n = Len(text),
           \A j \in 1 .. n : text[j] = g.a[k].body[p + j],
           NEW complete, Extractor!Emit(state, text, complete),
           NEW left, Remains(left, n), NEW last, last = g.a[k].body[p + n],
           Extractor!Advance(left, last), state' = state, Tools(g, k, p + n)'
    PROVE  Place(g, k, p + n)'
  <1>1. Left /\ Passed
    BY PartsOf
  <1>2. /\ Setting(g) /\ answer = g.a /\ p \in Nat /\ state = g.a[k].tag
        /\ Come(g.T, (g.start[k] + 3) + p) /\ Spoke(g.M, g.from[k] + p) /\ g.a[k].tag \in Known
    BY DEF Place, InAt
  <1>3. /\ Len(g.a) \in Nat /\ k \in 1 .. Len(g.a) + 1 /\ k <= Len(g.a)
    BY <1>2, SettingIs
  <1>4. g.start[k] \in Nat /\ g.a[k].tag # "orphan"
    BY <1>2, SegmentOf
  <1>5. Spoke(g.M, g.from[k] + (p + n))'
    <2>1. Extractor!Emit(g.a[k].tag, text, complete)
      BY <1>2
    <2>2. QED
      BY <1>1, <1>2, <1>4, <2>1, SaysMore
  <1>6. /\ Come(g.T, ((g.start[k] + 3) + p) + n)' /\ prev' = last /\ answer' = answer
        /\ mode' # "ended"
    BY <1>1, <1>2, Turns
  <1>7. ((g.start[k] + 3) + p) + n = (g.start[k] + 3) + (p + n) /\ p + n \in Nat
        /\ p + n # 0
    <2>1. PICK o : o = g.start[k]
      OBVIOUS
    <2>2. o \in Nat /\ p \in Nat
      BY <1>2, <1>4, <2>1
    <2>3. ((o + 3) + p) + n = (o + 3) + (p + n) /\ p + n \in Nat /\ p + n # 0
      BY <2>2
    <2>4. QED
      BY <2>1, <2>3, Zenon
  <1>8. Come(g.T, (g.start[k] + 3) + (p + n))'
    BY <1>6, <1>7, Zenon
  <1>9. Behind(g.a[k].body, p + n)'
    BY <1>6, <1>7 DEF Behind
  <1>10. InAt(g, k, p + n)'
    BY <1>2, <1>3, <1>5, <1>8, <1>9 DEF InAt
  <1>11. Setting(g)'
    BY <1>2, SettingStays
  <1>12. QED
    BY <1>2, <1>3, <1>6, <1>7, <1>10, <1>11 DEF Place

\* A turn that passes on the last of the text of a tag, and ends the tag.
LEMMA BodyEnds ==
    ASSUME ExtractorInv, NEW g, NEW k, NEW p, Place(g, k, p), InAt(g, k, p),
           k \in 1 .. Len(g.a), k < Len(g.a) \/ g.a[k].closed,
           NEW n \in Nat, p + n = Len(g.a[k].body), NEW text \in Symbols, n = Len(text),
           \A j \in 1 .. n : text[j] = g.a[k].body[p + j],
           NEW complete, Extractor!Emit(state, text, complete),
           NEW left, NEW e, Remains(left, e), ((g.start[k] + 3) + p) + e = g.start[k + 1],
           Extractor!Advance(left, Extractor!LastOf(text)), state' = Outside,
           Tools(g, k + 1, 0)'
    PROVE  Place(g, k + 1, 0)'
  <1>1. Left /\ Passed
    BY PartsOf
  <1>2. /\ Setting(g) /\ answer = g.a /\ p \in Nat /\ state = g.a[k].tag
        /\ Come(g.T, (g.start[k] + 3) + p) /\ Spoke(g.M, g.from[k] + p) /\ g.a[k].tag \in Known
        /\ Behind(g.a[k].body, p)
    BY DEF Place, InAt
  <1>3. /\ g.a[k].tag # "orphan" /\ g.a[k].body \in Symbols /\ Len(g.a[k].body) \in Nat
        /\ g.from[k] \in Nat
    BY <1>2, SegmentOf
  <1>4. Spoke(g.M, g.from[k] + (p + n))'
    <2>1. Extractor!Emit(g.a[k].tag, text, complete) /\ p + n <= Len(g.a[k].body)
      BY <1>2, <1>3
    <2>2. QED
      BY <1>1, <1>2, <1>3, <2>1, SaysMore
  <1>5. /\ Come(g.T, ((g.start[k] + 3) + p) + e)' /\ prev' = Extractor!LastOf(text)
        /\ answer' = answer /\ mode' # "ended"
    BY <1>1, <1>2, Turns
  <1>6. g.from[k + 1] = g.from[k] + Len(g.a[k].body)
    <2>1. SegmentAt(g.a[k], g.start[k], g.start[k + 1], g.from[k], g.from[k + 1], g.T, g.M)
      BY <1>2, SegmentOf
    <2>2. QED
      BY <1>3, <2>1 DEF SegmentAt, Means
  <1>7. Come(g.T, g.start[k + 1])' /\ Spoke(g.M, g.from[k + 1])'
    BY <1>4, <1>5, <1>6, Zenon
  <1>8. prev' # "tick"
    <2>1. PICK body : body = g.a[k].body
      OBVIOUS
    <2>2. /\ body \in Symbols /\ Len(body) \in Nat /\ p + n = Len(body) /\ Behind(body, p)
          /\ \A j \in 1 .. n : text[j] = body[p + j]
      BY <1>2, <1>3, <2>1
    <2>3. Len(body) > 0 => body[Len(body)] # "tick"
      <3>1. g.a[k].body # <<>> => g.a[k].body[Len(g.a[k].body)] # "tick"
        BY <1>2, ReadsOnce
      <3>2. QED
        BY <2>1, <2>2, <3>1, LengthsAre
    <2>4. CASE n = 0
      <3>1. Extractor!LastOf(text) = prev
        <4>1. text # <<>> <=> Len(text) > 0
          BY LengthsAre
        <4>2. text = <<>>
          BY <2>4, <4>1
        <4>3. QED
          BY <4>2 DEF Extractor!LastOf
      <3>2. p = Len(body)
        BY <1>2, <2>2, <2>4
      <3>3. QED
        BY <1>2, <1>5, <2>2, <2>3, <3>1, <3>2 DEF Behind
    <2>5. CASE n # 0
      <3>1. Extractor!LastOf(text) = text[n]
        <4>1. text # <<>>
          BY <2>5, LengthsAre
        <4>2. QED
          BY <4>1 DEF Extractor!LastOf
      <3>2. text[n] = body[Len(body)] /\ Len(body) > 0
        <4>1. n \in 1 .. n /\ Len(body) > 0
          BY <1>2, <2>2, <2>5
        <4>2. QED
          BY <2>2, <4>1
      <3>3. QED
        BY <1>5, <2>3, <3>1, <3>2
    <2>6. QED
      BY <2>4, <2>5
  <1>9. answer' = g.a
    BY <1>2, <1>5
  <1>10. QED
    BY <1>2, <1>5, <1>7, <1>8, <1>9, NextPlace

\* The text of a call, as a model writes it.
LEMMA ToolIs ==
    ASSUME NEW g, Setting(g), NEW k \in 1 .. Len(g.a), g.a[k].tag = "tool"
    PROVE  /\ g.a[k].closed /\ After(g, k) = "close" /\ Len(g.a[k].body) = 2
           /\ g.a[k].body[1] = "{" /\ g.a[k].body[2] = "}"
  <1>1. g.a[k].closed /\ g.a[k].body = <<"{", "}">>
    BY ReadsOnce
  <1>2. After(g, k) = "close"
    BY <1>1, Zenon DEF After
  <1>3. PICK body : body = g.a[k].body
    OBVIOUS
  <1>4. body = <<"{", "}">>
    BY <1>1, <1>3
  <1>5. Len(body) = 2 /\ body[1] = "{" /\ body[2] = "}"
    BY <1>4
  <1>6. QED
    BY <1>1, <1>2, <1>3, <1>5, Zenon

\* A text that has brackets in it is not that of a call.
LEMMA NoTool ==
    ASSUME NEW g, Setting(g), NEW k \in 1 .. Len(g.a), NEW h \in Nat, h >= 3,
           h <= Len(g.a[k].body)
    PROVE  g.a[k].tag # "tool"
  <1>1. SUFFICES ASSUME g.a[k].tag = "tool" PROVE FALSE
    OBVIOUS
  <1>2. PICK body : body = g.a[k].body
    OBVIOUS
  <1>3. Len(g.a[k].body) = 2
    BY <1>1, ToolIs, Zenon
  <1>4. QED
    BY <1>3

\* A new tag inside a tag is escaped, or it is that of the next segment.
LEMMA ImplicitMoves ==
    ASSUME ExtractorInv, PlaceInv, Extractor!ImplicitClose
    PROVE  PlaceInv'
  <1>1. Left /\ Passed /\ CutNoted /\ buffer \in Symbols /\ state \in Known
    BY PartsOf DEF ExtractorInv, Extractor!ImplicitClose, Extractor!Draining, PlaceInv, Left,
                   Extractor!Key
  <1>2. PICK g, k, p : Place(g, k, p)
    BY DEF PlaceInv
  <1>3. /\ InAt(g, k, p) /\ k \in 1 .. Len(g.a) /\ k \in Nat /\ k > 0
        /\ Inside(g.a[k].body, p, g.a[k].tag, After(g, k))
    BY <1>1, <1>2, InsidePlace
  <1>4. /\ Setting(g) /\ p \in Nat /\ Tools(g, k, p) /\ state = g.a[k].tag
    BY <1>2, <1>3 DEF Place, InAt
  <1>5. PICK f, body, after :
          f = Extractor!FirstOf("<") /\ body = g.a[k].body /\ after = After(g, k)
    OBVIOUS
  <1>6. Inside(body, p, state, after) /\ Extractor!NewTag
    BY <1>3, <1>4, <1>5 DEF Extractor!ImplicitClose
  <1>7. /\ f \in 1 .. Len(buffer) /\ f + 2 <= Len(buffer)
        /\ \/ Extractor!Escaped(f, 3) /\ p + f + 2 <= Len(body) /\ body[p + f + 2] = ">"
           \/ ~ Extractor!Escaped(f, 3) /\ after = "open" /\ p + f = Len(body) + 1
    BY <1>1, <1>5, <1>6, TagInside
  <1>8. IF Extractor!Escaped(f, 3)
        THEN /\ Extractor!Emit(state, Extractor!Upto(buffer, f + 2), FALSE)
             /\ Extractor!Advance(Extractor!From(buffer, f + 3), ">")
             /\ UNCHANGED state
        ELSE /\ Extractor!Emit(state, Extractor!Upto(buffer, f - 1), FALSE)
             /\ Extractor!Advance(Extractor!From(buffer, f),
                                  Extractor!LastOf(Extractor!Upto(buffer, f - 1)))
             /\ state' = Outside
    BY <1>5, Zenon DEF Extractor!ImplicitClose
  <1>9. /\ Len(buffer) \in Nat /\ Len(body) \in Nat
        /\ \A j \in 1 .. Len(buffer) : p + j <= Len(body) => buffer[j] = body[p + j]
    BY <1>1, <1>6, InsideIs
  <1>10. CASE Extractor!Escaped(f, 3)
    <2>1. PICK n : n = f + 2
      OBVIOUS
    <2>2. /\ n \in 0 .. Len(buffer) /\ n \in Nat /\ n > 0 /\ f + 3 = n + 1 /\ p + n <= Len(body)
          /\ p + f + 2 = p + n /\ n >= 3
      BY <1>4, <1>7, <1>9, <1>10, <2>1
    <2>3. PICK text, left : /\ text = Extractor!Upto(buffer, n)
                            /\ left = Extractor!From(buffer, f + 3)
      OBVIOUS
    <2>4. text \in Symbols /\ Len(text) = n /\ \A j \in 1 .. n : text[j] = buffer[j]
      BY <1>1, <2>2, <2>3, UptoIs
    <2>5. Remains(left, n)
      BY <1>1, <2>2, <2>3, FromRemains
    <2>6. /\ Extractor!Emit(state, text, FALSE) /\ Extractor!Advance(left, ">") /\ state' = state
      BY <1>8, <1>10, <2>1, <2>3
    <2>7. \A j \in 1 .. n : text[j] = body[p + j]
      <3>1. \A j \in 1 .. n : j \in 1 .. Len(buffer) /\ p + j <= Len(body)
        BY <1>4, <1>9, <2>2
      <3>2. QED
        BY <1>9, <2>4, <3>1, Zenon
    <2>8. body[p + n] = ">"
      BY <1>7, <1>10, <2>2, Zenon
    <2>9. state # "tool"
      <3>1. p + n \in Nat /\ p + n >= 3 /\ p + n <= Len(g.a[k].body)
        BY <1>4, <1>5, <2>2
      <3>2. QED
        BY <1>3, <1>4, <3>1, NoTool
    <2>10. toolText' = toolText /\ parsed' = parsed
      BY <2>6, <2>9, EmitOther
    <2>11. cut' = cut /\ Waits' /\ CutNoted'
      BY <1>1, <2>5, <2>6, Turns
    <2>12. Tools(g, k, p + n)'
      BY <1>3, <1>4, <2>6, <2>9, <2>10, <2>11, ToolsKeep
    <2>13. /\ p + n <= Len(g.a[k].body) /\ n = Len(text) /\ ">" = g.a[k].body[p + n]
           /\ \A j \in 1 .. n : text[j] = g.a[k].body[p + j]
      BY <1>5, <2>2, <2>4, <2>7, <2>8
    <2>14. Place(g, k, p + n)'
      BY <1>2, <1>3, <2>2, <2>4, <2>5, <2>6, <2>12, <2>13, BodyMoves
    <2>15. QED
      BY <2>11, <2>14 DEF PlaceInv
  <1>11. CASE ~ Extractor!Escaped(f, 3)
    <2>1. PICK n : n = f - 1
      OBVIOUS
    <2>2. after = "open" /\ p + f = Len(body) + 1
      BY <1>7, <1>11
    <2>3. n \in 0 .. Len(buffer) /\ n \in Nat /\ f = n + 1 /\ p + n = Len(body)
      BY <1>4, <1>7, <1>9, <2>1, <2>2
    <2>4. PICK text, left : text = Extractor!Upto(buffer, n) /\ left = Extractor!From(buffer, f)
      OBVIOUS
    <2>5. text \in Symbols /\ Len(text) = n /\ \A j \in 1 .. n : text[j] = buffer[j]
      BY <1>1, <2>3, <2>4, UptoIs
    <2>6. Remains(left, n)
      BY <1>1, <2>3, <2>4, FromRemains
    <2>7. /\ Extractor!Emit(state, text, FALSE)
          /\ Extractor!Advance(left, Extractor!LastOf(text)) /\ state' = Outside
      BY <1>8, <1>11, <2>1, <2>4
    <2>8. \A j \in 1 .. n : text[j] = body[p + j]
      <3>1. \A j \in 1 .. n : j \in 1 .. Len(buffer) /\ p + j <= Len(body)
        BY <1>4, <1>9, <2>3
      <3>2. QED
        BY <1>9, <2>5, <3>1, Zenon
    <2>9. ~g.a[k].closed /\ k < Len(g.a)
      BY <1>5, <2>2 DEF After
    <2>10. state # "tool"
      BY <1>3, <1>4, <2>9, ToolIs
    <2>11. toolText' = toolText /\ parsed' = parsed
      BY <2>7, <2>10, EmitOther
    <2>12. cut' = cut /\ Waits' /\ CutNoted'
      BY <1>1, <2>6, <2>7, Turns
    <2>13. Tools(g, k + 1, 0)'
      BY <1>3, <1>4, <2>10, <2>11, <2>12, ToolsKeep
    <2>14. ((g.start[k] + 3) + p) + n = g.start[k + 1]
      <3>1. InTag(g.a[k], g.start[k], g.start[k + 1], g.T)
        BY <1>1, <1>3, <1>4, InTagOf
      <3>2. g.start[k + 1] = g.start[k] + Len(g.a[k].body) + 3
        BY <2>9, <3>1, Zenon DEF InTag
      <3>3. PICK o : o = g.start[k] /\ o \in Nat
        BY <1>3, <1>4, SegmentOf
      <3>4. ((o + 3) + p) + n = o + Len(body) + 3
        BY <1>4, <1>9, <2>3, <3>3
      <3>5. QED
        BY <1>5, <3>2, <3>3, <3>4, Zenon
    <2>15. /\ p + n = Len(g.a[k].body) /\ n = Len(text)
           /\ \A j \in 1 .. n : text[j] = g.a[k].body[p + j]
      BY <1>5, <2>3, <2>5, <2>8
    <2>16. Place(g, k + 1, 0)'
      BY <1>2, <1>3, <2>3, <2>5, <2>6, <2>7, <2>9, <2>13, <2>14, <2>15, BodyEnds
    <2>17. QED
      BY <2>12, <2>16 DEF PlaceInv
  <1>12. QED
    BY <1>10, <1>11

\* A sequence of two.
LEMMA PairIs ==
    ASSUME NEW Q, NEW q \in Seq(Q), NEW x \in Q, NEW y \in Q, Len(q) = 2, q[1] = x, q[2] = y
    PROVE  q = <<x, y>>
  <1>1. <<x, y>> \in Seq(Q) /\ Len(<<x, y>>) = 2 /\ <<x, y>>[1] = x /\ <<x, y>>[2] = y
    OBVIOUS
  <1>2. \A i \in 1 .. Len(q) : q[i] = <<x, y>>[i]
    <2>1. SUFFICES ASSUME NEW i \in 1 .. Len(q) PROVE q[i] = <<x, y>>[i]
      OBVIOUS
    <2>2. i = 1 \/ i = 2
      OBVIOUS
    <2>3. QED
      BY <1>1, <2>2
  <1>3. QED
    BY <1>1, <1>2

\* A chunk that holds the whole text of the first call completes it.
LEMMA CallParses ==
    ASSUME ExtractorInv, NEW g, Setting(g), NEW k \in 1 .. Len(g.a), g.a[k].tag = "tool",
           Tools(g, k, 0), NEW text \in Symbols, Len(text) = Len(g.a[k].body),
           \A j \in 1 .. Len(text) : text[j] = g.a[k].body[j],
           Extractor!Emit("tool", text, TRUE), cut' = cut, state' = Outside
    PROVE  Tools(g, k + 1, 0)'
  <1>1. Called(g, k + 1)
    BY DEF Called
  <1>2. PICK body : body = g.a[k].body
    OBVIOUS
  <1>3. Len(body) = 2 /\ body[1] = "{" /\ body[2] = "}"
    BY <1>2, ToolIs, Zenon
  <1>4. Len(text) = 2 /\ text[1] = "{" /\ text[2] = "}" /\ text # <<>>
    <2>1. Len(text) = 2
      BY <1>2, <1>3
    <2>2. 1 \in 1 .. Len(text) /\ 2 \in 1 .. Len(text) /\ Len(text) > 0
      BY <2>1
    <2>3. text[1] = body[1] /\ text[2] = body[2]
      BY <1>2, <2>2, Zenon
    <2>4. text # <<>> <=> Len(text) > 0
      BY LengthsAre
    <2>5. QED
      BY <1>3, <2>1, <2>2, <2>3, <2>4, Zenon
  <1>5. text = <<"{", "}">>
    <2>1. PICK x, y, Q : x = "{" /\ y = "}" /\ Q = Extractor!Symbol
      OBVIOUS
    <2>2. x \in Q /\ y \in Q
      BY <2>1 DEF Extractor!Symbol, Extractor!Mark
    <2>3. text \in Seq(Q)
      BY <2>1 DEF Symbols
    <2>4. Len(text) = 2 /\ text[1] = x /\ text[2] = y
      BY <1>4, <2>1, Zenon
    <2>5. text = <<x, y>>
      BY <2>2, <2>3, <2>4, PairIs
    <2>6. QED
      BY <2>1, <2>5
  <1>6. toolText \in Symbols /\ parsed \in {0, 1}
    BY PartsOf DEF Passed, Symbols
  <1>7. /\ toolText' = toolText \o text
        /\ parsed' = IF text # <<>> /\ Extractor!Parses(toolText') THEN parsed + 1 ELSE parsed
    BY Zenon DEF Extractor!Emit
  <1>8. ~cut => parsed' > 0
    <2>1. SUFFICES ASSUME ~cut PROVE parsed' > 0
      OBVIOUS
    <2>2. CASE Called(g, k)
      <3>1. parsed > 0
        BY <2>1, <2>2 DEF Tools
      <3>2. QED
        BY <1>6, <1>7, <3>1
    <2>3. CASE ~ Called(g, k)
      <3>1. toolText = <<>>
        BY <2>1, <2>3, Zenon DEF Tools
      <3>2. toolText' = <<"{", "}">>
        <4>1. <<>> \o text = text
          OBVIOUS
        <4>2. QED
          BY <1>5, <1>7, <3>1, <4>1, Zenon
      <3>3. Extractor!Parses(toolText') /\ text # <<>>
        BY <1>4, <3>2, Zenon DEF Extractor!Parses
      <3>4. parsed' = parsed + 1
        BY <1>7, <3>3, Zenon
      <3>5. QED
        BY <1>6, <3>4
    <2>4. QED
      BY <2>2, <2>3
  <1>9. QED
    BY <1>1, <1>8, Zenon DEF Tools, Called

\* The first real close tag ends its segment.
LEMMA CloseTagMoves ==
    ASSUME ExtractorInv, PlaceInv, Extractor!CloseTag
    PROVE  PlaceInv'
  <1>1. Left /\ Passed /\ CutNoted /\ buffer \in Symbols /\ state \in Known
    BY PartsOf DEF ExtractorInv, Extractor!CloseTag, Extractor!Draining, PlaceInv, Left,
                   Extractor!Key
  <1>2. PICK g, k, p : Place(g, k, p)
    BY DEF PlaceInv
  <1>3. /\ InAt(g, k, p) /\ k \in 1 .. Len(g.a) /\ k \in Nat /\ k > 0
        /\ Inside(g.a[k].body, p, g.a[k].tag, After(g, k))
    BY <1>1, <1>2, InsidePlace
  <1>4. /\ Setting(g) /\ p \in Nat /\ Tools(g, k, p) /\ state = g.a[k].tag
    BY <1>2, <1>3 DEF Place, InAt
  <1>5. PICK i, body, after :
          i = Extractor!Min(Extractor!RealCloses) /\ body = g.a[k].body /\ after = After(g, k)
    OBVIOUS
  <1>6. Inside(body, p, state, after) /\ ~ Extractor!NewTag /\ Extractor!RealCloses # {}
    BY <1>3, <1>4, <1>5 DEF Extractor!CloseTag
  <1>7. /\ i \in 1 .. Len(buffer) /\ i + 3 <= Len(buffer)
        /\ after = "close" /\ p + i = Len(body) + 1
    BY <1>1, <1>5, <1>6, RealIsWritten
  <1>8. /\ Extractor!Emit(state, Extractor!Upto(buffer, i - 1), TRUE)
        /\ Extractor!Advance(Extractor!From(buffer, i + 4),
                             Extractor!LastOf(Extractor!Upto(buffer, i - 1)))
        /\ state' = Outside
    BY <1>5, Zenon DEF Extractor!CloseTag
  <1>9. /\ Len(buffer) \in Nat /\ Len(body) \in Nat
        /\ \A j \in 1 .. Len(buffer) : p + j <= Len(body) => buffer[j] = body[p + j]
    BY <1>1, <1>6, InsideIs
  <1>10. PICK n, e : n = i - 1 /\ e = i + 3
    OBVIOUS
  <1>11. /\ n \in 0 .. Len(buffer) /\ n \in Nat /\ p + n = Len(body)
         /\ e \in 0 .. Len(buffer) /\ i + 4 = e + 1
    BY <1>4, <1>7, <1>9, <1>10
  <1>12. PICK text, left : /\ text = Extractor!Upto(buffer, n)
                           /\ left = Extractor!From(buffer, i + 4)
    OBVIOUS
  <1>13. text \in Symbols /\ Len(text) = n /\ \A j \in 1 .. n : text[j] = buffer[j]
    BY <1>1, <1>11, <1>12, UptoIs
  <1>14. Remains(left, e)
    BY <1>1, <1>11, <1>12, FromRemains
  <1>15. /\ Extractor!Emit(state, text, TRUE)
         /\ Extractor!Advance(left, Extractor!LastOf(text)) /\ state' = Outside
    BY <1>8, <1>10, <1>12
  <1>16. \A j \in 1 .. n : text[j] = body[p + j]
    <2>1. \A j \in 1 .. n : j \in 1 .. Len(buffer) /\ p + j <= Len(body)
      BY <1>4, <1>9, <1>11
    <2>2. QED
      BY <1>9, <1>13, <2>1, Zenon
  <1>17. g.a[k].closed
    BY <1>5, <1>7 DEF After
  <1>18. cut' = cut /\ Waits' /\ CutNoted'
    BY <1>1, <1>14, <1>15, Turns
  <1>19. Tools(g, k + 1, 0)'
    <2>1. CASE state = "tool"
      <3>1. CASE p = 0
        <4>1. Len(text) = Len(body) /\ \A j \in 1 .. Len(text) : text[j] = body[j]
          BY <1>9, <1>11, <1>13, <1>16, <3>1
        <4>2. /\ Extractor!Emit("tool", text, TRUE) /\ g.a[k].tag = "tool" /\ Tools(g, k, 0)
              /\ Len(text) = Len(g.a[k].body)
              /\ \A j \in 1 .. Len(text) : text[j] = g.a[k].body[j]
          BY <1>4, <1>5, <1>15, <2>1, <3>1, <4>1
        <4>3. QED
          BY <1>3, <1>4, <1>13, <1>15, <1>18, <4>2, CallParses
      <3>2. CASE p # 0
        BY <1>4, <1>18, <2>1, <3>2 DEF Tools
      <3>3. QED
        BY <3>1, <3>2
    <2>2. CASE state # "tool"
      <3>1. toolText' = toolText /\ parsed' = parsed
        BY <1>15, <2>2, EmitOther
      <3>2. QED
        BY <1>3, <1>4, <1>18, <2>2, <3>1, ToolsKeep
    <2>3. QED
      BY <2>1, <2>2
  <1>20. ((g.start[k] + 3) + p) + e = g.start[k + 1]
    <2>1. InTag(g.a[k], g.start[k], g.start[k + 1], g.T)
      BY <1>1, <1>3, <1>4, InTagOf
    <2>2. g.start[k + 1] = g.start[k] + Len(g.a[k].body) + 7
      BY <1>17, <2>1, Zenon DEF InTag
    <2>3. PICK o : o = g.start[k] /\ o \in Nat
      BY <1>3, <1>4, SegmentOf
    <2>4. /\ o \in Nat /\ p \in Nat /\ i \in Nat /\ Len(body) \in Nat
          /\ p + i = Len(body) + 1 /\ e = i + 3
      BY <1>4, <1>7, <1>9, <1>10, <2>3
    <2>5. ((o + 3) + p) + e = o + Len(body) + 7
      BY <2>4
    <2>6. QED
      BY <1>5, <2>2, <2>3, <2>5, Zenon
  <1>21. /\ p + n = Len(g.a[k].body) /\ n = Len(text)
         /\ \A j \in 1 .. n : text[j] = g.a[k].body[p + j]
    BY <1>5, <1>11, <1>13, <1>16
  <1>22. Place(g, k + 1, 0)'
    BY <1>2, <1>3, <1>11, <1>13, <1>14, <1>15, <1>17, <1>19, <1>20, <1>21, BodyEnds
  <1>23. QED
    BY <1>18, <1>22 DEF PlaceInv

\* Close tags that are all escaped are text.
LEMMA EscapedMoves ==
    ASSUME ExtractorInv, PlaceInv, Extractor!EscapedClose
    PROVE  PlaceInv'
  <1>1. Left /\ Passed /\ CutNoted /\ buffer \in Symbols /\ state \in Known
    BY PartsOf DEF ExtractorInv, Extractor!EscapedClose, Extractor!Draining, PlaceInv, Left,
                   Extractor!Key
  <1>2. PICK g, k, p : Place(g, k, p)
    BY DEF PlaceInv
  <1>3. /\ InAt(g, k, p) /\ k \in 1 .. Len(g.a) /\ k \in Nat /\ k > 0
        /\ Inside(g.a[k].body, p, g.a[k].tag, After(g, k))
    BY <1>1, <1>2, InsidePlace
  <1>4. /\ Setting(g) /\ p \in Nat /\ Tools(g, k, p) /\ state = g.a[k].tag
    BY <1>2, <1>3 DEF Place, InAt
  <1>5. PICK i, body, after :
          i = Extractor!Max(Extractor!Closes) /\ body = g.a[k].body /\ after = After(g, k)
    OBVIOUS
  <1>6. /\ Inside(body, p, state, after) /\ ~ Extractor!NewTag /\ Extractor!RealCloses = {}
        /\ Extractor!Closes # {}
    BY <1>3, <1>4, <1>5 DEF Extractor!EscapedClose
  <1>7. /\ i \in 1 .. Len(buffer) /\ i + 3 <= Len(buffer)
        /\ p + i + 3 <= Len(body) /\ body[p + i + 3] = ">"
    BY <1>1, <1>5, <1>6, EscapedIsInText
  <1>8. /\ Extractor!Emit(state, Extractor!Upto(buffer, i + 3), FALSE)
        /\ Extractor!Advance(Extractor!From(buffer, (i + 3) + 1), ">")
        /\ state' = state
    BY <1>5, Zenon DEF Extractor!EscapedClose
  <1>9. /\ Len(buffer) \in Nat /\ Len(body) \in Nat
        /\ \A j \in 1 .. Len(buffer) : p + j <= Len(body) => buffer[j] = body[p + j]
    BY <1>1, <1>6, InsideIs
  <1>10. PICK n, h : n = i + 3 /\ h = (i + 3) + 1
    OBVIOUS
  <1>11. /\ n \in 0 .. Len(buffer) /\ n \in Nat /\ n > 0 /\ h = n + 1 /\ p + n <= Len(body)
         /\ p + i + 3 = p + n /\ n >= 3
    BY <1>4, <1>7, <1>9, <1>10
  <1>12. PICK text, left : text = Extractor!Upto(buffer, n) /\ left = Extractor!From(buffer, h)
    OBVIOUS
  <1>13. text \in Symbols /\ Len(text) = n /\ \A j \in 1 .. n : text[j] = buffer[j]
    BY <1>1, <1>11, <1>12, UptoIs
  <1>14. Remains(left, n)
    BY <1>1, <1>11, <1>12, FromRemains
  <1>15. Extractor!Emit(state, text, FALSE) /\ Extractor!Advance(left, ">") /\ state' = state
    BY <1>8, <1>10, <1>12
  <1>16. \A j \in 1 .. n : text[j] = body[p + j]
    <2>1. \A j \in 1 .. n : j \in 1 .. Len(buffer) /\ p + j <= Len(body)
      BY <1>4, <1>9, <1>11
    <2>2. QED
      BY <1>9, <1>13, <2>1, Zenon
  <1>17. body[p + n] = ">"
    BY <1>7, <1>11, Zenon
  <1>18. state # "tool"
    <2>1. p + n \in Nat /\ p + n >= 3 /\ p + n <= Len(g.a[k].body)
      BY <1>4, <1>5, <1>11
    <2>2. QED
      BY <1>3, <1>4, <2>1, NoTool
  <1>19. toolText' = toolText /\ parsed' = parsed
    BY <1>15, <1>18, EmitOther
  <1>20. cut' = cut /\ Waits' /\ CutNoted'
    BY <1>1, <1>14, <1>15, Turns
  <1>21. Tools(g, k, p + n)'
    BY <1>3, <1>4, <1>15, <1>18, <1>19, <1>20, ToolsKeep
  <1>22. /\ p + n <= Len(g.a[k].body) /\ n = Len(text) /\ ">" = g.a[k].body[p + n]
         /\ \A j \in 1 .. n : text[j] = g.a[k].body[p + j]
    BY <1>5, <1>11, <1>13, <1>16, <1>17
  <1>23. Place(g, k, p + n)'
    BY <1>2, <1>3, <1>11, <1>13, <1>14, <1>15, <1>21, <1>22, BodyMoves
  <1>24. QED
    BY <1>20, <1>23 DEF PlaceInv

\* A buffer that ends inside the close tag of a call was cut there.
LEMMA CallCut ==
    ASSUME Left, NEW g, Setting(g), NEW k \in 1 .. Len(g.a), g.a[k].tag = "tool",
           Come(g.T, (g.start[k] + 3) + 0), NEW m \in 1 .. 3, Len(buffer) = 2 + m
    PROVE  CutAt(buffer, rest)
  <1>1. "tool" \in Known /\ g.a[k].tag \in Known /\ buffer \in Symbols /\ rest \in Symbols
    BY WordsAre DEF Left
  <1>2. PICK x : x = Extractor!Close("tool")
    OBVIOUS
  <1>3. Len(x) = 4 /\ x[1] = "<" /\ x[2] = "/" /\ x[3] = "tool" /\ x[4] = ">"
    BY <1>1, <1>2, CloseIs
  <1>4. PICK body, o, T : body = g.a[k].body /\ o = g.start[k] /\ T = g.T
    OBVIOUS
  <1>5. Len(body) = 2 /\ After(g, k) = "close" /\ g.a[k].closed
    BY <1>4, ToolIs, Zenon
  <1>6. o \in Nat /\ Len(T) \in Nat
    BY <1>4, SegmentOf, SettingIs
  <1>7. WrittenAt(T, o + 3, body, "tool", "close")
    <2>1. WrittenAt(g.T, g.start[k] + 3, g.a[k].body, g.a[k].tag, After(g, k))
      BY <1>1, TagWritten
    <2>2. QED
      BY <1>4, <1>5, <2>1
  <1>8. /\ T[((o + 3) + 2) + 1] = x[1] /\ T[((o + 3) + 2) + 2] = x[2]
        /\ T[((o + 3) + 2) + 3] = x[3] /\ T[((o + 3) + 2) + 4] = x[4]
    BY <1>3, <1>5, <1>7 DEF WrittenAt
  <1>9. \A j \in 1 .. 4 : T[(o + 5) + j] = x[j]
    <2>1. SUFFICES ASSUME NEW j \in 1 .. 4 PROVE T[(o + 5) + j] = x[j]
      OBVIOUS
    <2>2. /\ ((o + 3) + 2) + 1 = (o + 5) + 1 /\ ((o + 3) + 2) + 2 = (o + 5) + 2
          /\ ((o + 3) + 2) + 3 = (o + 5) + 3 /\ ((o + 3) + 2) + 4 = (o + 5) + 4
      BY <1>6
    <2>3. j = 1 \/ j = 2 \/ j = 3 \/ j = 4
      OBVIOUS
    <2>4. QED
      BY <1>8, <2>2, <2>3, Zenon
  <1>10. PICK z : z = (o + 3) + 0 /\ z \in Nat /\ z = o + 3
    BY <1>6
  <1>11. /\ z + Len(buffer) + Len(rest) = Len(T)
         /\ \A i \in 1 .. Len(buffer) : buffer[i] = T[z + i]
         /\ \A i \in 1 .. Len(rest) : rest[i] = T[z + Len(buffer) + i]
    BY <1>4, <1>10 DEF Come
  <1>12. z + 6 <= Len(T)
    <2>1. InTag(g.a[k], g.start[k], g.start[k + 1], g.T)
      BY <1>1, InTagOf
    <2>2. g.start[k + 1] = g.start[k] + Len(g.a[k].body) + 7
      BY <1>5, <2>1, Zenon DEF InTag
    <2>3. g.start[k + 1] <= Len(g.T)
      BY SegmentOf
    <2>4. o + Len(body) + 7 <= Len(T)
      BY <1>4, <2>2, <2>3
    <2>5. QED
      BY <1>5, <1>6, <1>10, <2>4
  <1>13. Len(rest) \in Nat /\ Len(buffer) \in Nat
    BY <1>1, LengthsAre
  <1>14. 4 - m <= Len(rest) /\ m <= Len(buffer)
    BY <1>6, <1>10, <1>11, <1>12, <1>13, SMTT(30)
  <1>15. \A j \in 1 .. m : x[j] = buffer[Len(buffer) - m + j]
    <2>1. SUFFICES ASSUME NEW j \in 1 .. m PROVE x[j] = buffer[Len(buffer) - m + j]
      OBVIOUS
    <2>2. PICK h : h = Len(buffer) - m + j
      OBVIOUS
    <2>3. h \in 1 .. Len(buffer) /\ z + h = (o + 5) + j /\ j \in 1 .. 4
      BY <1>6, <1>10, <2>2
    <2>4. buffer[h] = T[(o + 5) + j]
      BY <1>11, <2>3, Zenon
    <2>5. QED
      BY <1>9, <2>2, <2>3, <2>4, Zenon
  <1>16. \A j \in 1 .. 4 - m : x[m + j] = rest[j]
    <2>1. SUFFICES ASSUME NEW j \in 1 .. 4 - m PROVE x[m + j] = rest[j]
      OBVIOUS
    <2>2. PICK h : h = m + j
      OBVIOUS
    <2>3. h \in 1 .. 4 /\ j \in 1 .. Len(rest) /\ z + Len(buffer) + j = (o + 5) + h
      BY <1>6, <1>10, <1>13, <1>14, <2>2
    <2>4. rest[j] = T[(o + 5) + h]
      BY <1>11, <2>3, Zenon
    <2>5. QED
      BY <1>9, <2>2, <2>3, <2>4, Zenon
  <1>17. CutBetween(x, buffer, rest, m)
    BY <1>14, <1>15, <1>16 DEF CutBetween
  <1>18. QED
    BY <1>1, <1>2, <1>17, CutAtIs

\* The text of a call is not passed on in pieces unless its close tag was cut.
LEMMA CallNotHeld ==
    ASSUME Left, CutNoted, NEW g, Setting(g), NEW k \in 1 .. Len(g.a), g.a[k].tag = "tool",
           state = "tool", Come(g.T, (g.start[k] + 3) + 0),
           NEW m \in Parts, Len(buffer) > 2 => Len(buffer) = 2 + m
    PROVE  cut
  <1>1. "tool" \in Known /\ buffer \in Symbols /\ Len(buffer) \in Nat
    BY WordsAre, LengthsAre DEF Left
  <1>2. /\ m \in 1 .. 3 /\ m <= Len(buffer)
        /\ buffer[Len(buffer)] = IF m = 1 THEN "<" ELSE IF m = 2 THEN "/" ELSE "tool"
    BY <1>1, PartsAre
  <1>3. Len(buffer) > 2
    <2>1. SUFFICES ASSUME ~ Len(buffer) > 2 PROVE FALSE
      OBVIOUS
    <2>2. PICK body, o, T : body = g.a[k].body /\ o = g.start[k] /\ T = g.T
      OBVIOUS
    <2>3. Len(body) = 2 /\ body[1] = "{" /\ body[2] = "}"
      BY <2>2, ToolIs, Zenon
    <2>4. o \in Nat
      BY <2>2, SegmentOf
    <2>5. WrittenAt(T, o + 3, body, g.a[k].tag, After(g, k))
      BY <1>1, <2>2, TagWritten
    <2>6. \A j \in 1 .. Len(body) : T[(o + 3) + j] = body[j]
      BY <2>5 DEF WrittenAt
    <2>7. PICK n : /\ n = Len(buffer) /\ n \in 1 .. Len(buffer) /\ n \in 1 .. Len(body)
                   /\ n = 1 \/ n = 2
      <3>1. Len(body) = 2
        BY <2>3
      <3>2. m \in 1 .. 3 /\ m <= Len(buffer)
        BY <1>2
      <3>3. PICK n : n = Len(buffer)
        OBVIOUS
      <3>4. n \in Nat /\ ~ n > 2 /\ m <= n /\ m \in 1 .. 3
        BY <1>1, <2>1, <3>2, <3>3
      <3>5. n \in 1 .. n /\ n \in 1 .. 2 /\ (n = 1 \/ n = 2)
        BY <3>4
      <3>6. QED
        BY <3>1, <3>3, <3>5, Zenon
    <2>8. (o + 3) + 0 = o + 3
      BY <2>4
    <2>9. buffer[n] = T[(o + 3) + n]
      BY <2>2, <2>7, <2>8 DEF Come
    <2>10. buffer[n] = "{" \/ buffer[n] = "}"
      <3>1. buffer[n] = body[n]
        BY <2>6, <2>7, <2>9, Zenon
      <3>2. QED
        BY <2>3, <2>7, <3>1, Zenon
    <2>11. buffer[n] \in {"<", "/", "tool"}
      BY <1>2, <2>7
    <2>12. "tool" # "{" /\ "tool" # "}"
      OBVIOUS
    <2>13. QED
      BY <2>10, <2>11, <2>12
  <1>4. CutAt(buffer, rest)
    BY <1>2, <1>3, CallCut
  <1>5. QED
    BY <1>4 DEF CutNoted

\* Text is passed on up to what may become the close tag.
LEMMA HoldMoves ==
    ASSUME ExtractorInv, PlaceInv, Extractor!HoldBack
    PROVE  PlaceInv'
  <1>1. Left /\ Passed /\ CutNoted /\ buffer \in Symbols /\ state \in Known
    BY PartsOf DEF ExtractorInv, Extractor!HoldBack, Extractor!Draining, PlaceInv, Left,
                   Extractor!Key
  <1>2. PICK g, k, p : Place(g, k, p)
    BY DEF PlaceInv
  <1>3. /\ InAt(g, k, p) /\ k \in 1 .. Len(g.a) /\ k \in Nat /\ k > 0
        /\ Inside(g.a[k].body, p, g.a[k].tag, After(g, k))
    BY <1>1, <1>2, InsidePlace
  <1>4. /\ Setting(g) /\ p \in Nat /\ Tools(g, k, p) /\ state = g.a[k].tag
        /\ Come(g.T, (g.start[k] + 3) + p)
    BY <1>2, <1>3 DEF Place, InAt
  <1>5. PICK m, n, body, after :
          m = Extractor!Min(Parts) /\ n = Len(buffer) - m /\ body = g.a[k].body
          /\ after = After(g, k)
    OBVIOUS
  <1>6. Inside(body, p, state, after) /\ ~ Extractor!NewTag /\ Extractor!Closes = {}
    BY <1>3, <1>4, <1>5 DEF Extractor!HoldBack
  <1>7. IF Parts = {} \/ n = 0 THEN Extractor!Wait
        ELSE /\ Extractor!Emit(state, Extractor!Upto(buffer, n), FALSE)
             /\ Extractor!Advance(Extractor!From(buffer, n + 1), buffer[n])
             /\ UNCHANGED state
    BY <1>5, Zenon DEF Extractor!HoldBack, Parts
  <1>8. CASE Parts = {} \/ n = 0
    <2>1. Extractor!Wait
      BY <1>7, <1>8
    <2>2. Place(g, k, p)' /\ CutNoted'
      BY <1>1, <1>2, <2>1, WaitKeeps
    <2>3. state' = state /\ buffer' = buffer
      BY <2>1 DEF Extractor!Wait
    <2>4. \A i \in 1 .. Len(buffer) :
               /\ ~ (/\ i + 3 <= Len(buffer) /\ buffer[i] = "<" /\ buffer[i + 1] = "/"
                     /\ buffer[i + 2] = state /\ buffer[i + 3] = ">")
               /\ i + 2 <= Len(buffer) /\ buffer[i] = "<" /\ buffer[i + 1] \in Word
                    /\ buffer[i + 2] = ">" => \E j \in 1 .. i - 1 : buffer[j] = "<"
      BY <1>1, <1>6, WaitsIs
    <2>5. state # Outside
      BY <1>1, WordsAre
    <2>6. Waits'
      BY <2>3, <2>4, <2>5, Zenon DEF Waits
    <2>7. QED
      BY <2>2, <2>6 DEF PlaceInv
  <1>9. CASE ~ (Parts = {} \/ n = 0)
    <2>1. /\ m \in Parts /\ m \in 1 .. 3 /\ m <= Len(buffer)
          /\ p + n <= Len(body)
          /\ after = "close" /\ p + Len(buffer) > Len(body) => p + Len(buffer) = Len(body) + m
      BY <1>1, <1>5, <1>6, <1>9, HeldInside
    <2>2. /\ Len(buffer) \in Nat /\ Len(body) \in Nat
          /\ \A j \in 1 .. Len(buffer) : p + j <= Len(body) => buffer[j] = body[p + j]
      BY <1>1, <1>6, InsideIs
    <2>3. n \in 0 .. Len(buffer) /\ n \in Nat /\ n > 0
      BY <1>5, <1>9, <2>1, <2>2
    <2>4. PICK h : h = n + 1
      OBVIOUS
    <2>5. PICK text, left, last :
            /\ text = Extractor!Upto(buffer, n) /\ left = Extractor!From(buffer, h)
            /\ last = buffer[n]
      OBVIOUS
    <2>6. text \in Symbols /\ Len(text) = n /\ \A j \in 1 .. n : text[j] = buffer[j]
      BY <1>1, <2>3, <2>5, UptoIs
    <2>7. Remains(left, n)
      BY <1>1, <2>3, <2>4, <2>5, FromRemains
    <2>8. Extractor!Emit(state, text, FALSE) /\ Extractor!Advance(left, last) /\ state' = state
      BY <1>7, <1>9, <2>4, <2>5
    <2>9. \A j \in 1 .. n : text[j] = body[p + j]
      <3>1. \A j \in 1 .. n : j \in 1 .. Len(buffer) /\ p + j <= Len(body)
        BY <1>4, <2>1, <2>2, <2>3
      <3>2. QED
        BY <2>2, <2>6, <3>1, Zenon
    <2>10. last = body[p + n]
      <3>1. n \in 1 .. Len(buffer)
        BY <2>2, <2>3
      <3>2. QED
        BY <2>1, <2>2, <2>5, <3>1, Zenon
    <2>11. cut' = cut /\ Waits' /\ CutNoted'
      BY <1>1, <2>7, <2>8, Turns
    <2>12. Tools(g, k, p + n)'
      <3>1. CASE state # "tool"
        <4>1. toolText' = toolText /\ parsed' = parsed
          BY <2>8, <3>1, EmitOther
        <4>2. QED
          BY <1>3, <1>4, <2>8, <2>11, <3>1, <4>1, ToolsKeep
      <3>2. CASE state = "tool"
        <4>1. cut
          <5>1. SUFFICES ASSUME ~cut PROVE FALSE
            OBVIOUS
          <5>2. p = 0
            BY <1>4, <3>2, <5>1, Zenon DEF Tools
          <5>3. Len(body) = 2 /\ after = "close"
            BY <1>3, <1>4, <1>5, <3>2, ToolIs
          <5>4. Len(buffer) > 2 => Len(buffer) = 2 + m
            BY <2>1, <2>2, <5>2, <5>3
          <5>5. Come(g.T, (g.start[k] + 3) + 0)
            BY <1>4, <5>2
          <5>6. g.a[k].tag = "tool"
            BY <1>4, <3>2
          <5>7. QED
            BY <1>1, <1>3, <1>4, <2>1, <3>2, <5>1, <5>4, <5>5, <5>6, CallNotHeld
        <4>2. QED
          BY <2>11, <4>1, Zenon DEF Tools
      <3>3. QED
        BY <3>1, <3>2
    <2>13. /\ p + n <= Len(g.a[k].body) /\ n = Len(text) /\ last = g.a[k].body[p + n]
           /\ \A j \in 1 .. n : text[j] = g.a[k].body[p + j]
      BY <1>5, <2>1, <2>6, <2>9, <2>10
    <2>14. Place(g, k, p + n)'
      BY <1>2, <1>3, <2>3, <2>6, <2>7, <2>8, <2>12, <2>13, BodyMoves
    <2>15. QED
      BY <2>11, <2>14 DEF PlaceInv
  <1>10. QED
    BY <1>8, <1>9

\* A chunk moves symbols of the rest to the buffer.
LEMMA MoreComes ==
    ASSUME Left, NEW n \in 1 .. Len(rest), buffer' = buffer \o Extractor!Upto(rest, n),
           rest' = Extractor!From(rest, n + 1), NEW T, NEW x, Come(T, x)
    PROVE  Come(T, x)'
  <1>1. /\ buffer \in Seq(Extractor!Symbol) /\ rest \in Seq(Extractor!Symbol)
        /\ Len(rest) \in Nat /\ Len(buffer) \in Nat
    BY LengthsAre DEF Left, Symbols
  <1>2. PICK u, v, b, c, h :
          /\ u = Extractor!Upto(rest, n) /\ v = Extractor!From(rest, h) /\ h = n + 1
          /\ b = buffer' /\ c = rest'
    OBVIOUS
  <1>3. n \in 0 .. Len(rest) /\ h \in 1 .. Len(rest) + 1 /\ n \in Nat
    BY <1>1, <1>2
  <1>4. u \in Seq(Extractor!Symbol) /\ Len(u) = n /\ \A j \in 1 .. n : u[j] = rest[j]
    BY <1>1, <1>2, <1>3, PieceIs
  <1>5. Len(v) = Len(rest) - h + 1 /\ \A j \in 1 .. Len(rest) - h + 1 : v[j] = rest[h + j - 1]
    BY <1>1, <1>2, <1>3, PieceIs
  <1>6. b = buffer \o u /\ c = v
    BY <1>2
  <1>7. /\ Len(b) = Len(buffer) + Len(u)
        /\ \A j \in 1 .. Len(buffer) : b[j] = buffer[j]
        /\ \A j \in 1 .. Len(u) : b[Len(buffer) + j] = u[j]
    BY <1>1, <1>4, <1>6, JoinIs
  <1>8. /\ x \in Nat /\ x + Len(buffer) + Len(rest) = Len(T)
        /\ \A i \in 1 .. Len(buffer) : buffer[i] = T[x + i]
        /\ \A i \in 1 .. Len(rest) : rest[i] = T[x + Len(buffer) + i]
    BY DEF Come
  <1>9. Len(b) = Len(buffer) + n /\ Len(c) = Len(rest) - n
    BY <1>1, <1>2, <1>3, <1>4, <1>5, <1>6, <1>7
  <1>10. x + Len(b) + Len(c) = Len(T)
    <2>1. x \in Nat /\ x + Len(buffer) + Len(rest) = Len(T)
      BY <1>8
    <2>2. n \in Nat /\ Len(rest) \in Nat /\ Len(buffer) \in Nat
      BY <1>1, <1>3
    <2>3. \A l, r \in Nat : x + (l + n) + (r - n) = x + l + r
      BY <2>1, <2>2
    <2>4. x + (Len(buffer) + n) + (Len(rest) - n) = Len(T)
      BY <2>1, <2>2, <2>3, Zenon
    <2>5. QED
      BY <1>9, <2>4, Zenon
  <1>11. \A i \in 1 .. Len(b) : b[i] = T[x + i]
    <2>1. SUFFICES ASSUME NEW i \in 1 .. Len(b) PROVE b[i] = T[x + i]
      OBVIOUS
    <2>2. CASE i <= Len(buffer)
      <3>1. i \in 1 .. Len(buffer)
        BY <1>1, <1>3, <1>9, <2>2
      <3>2. QED
        BY <1>7, <1>8, <3>1, Zenon
    <2>3. CASE i > Len(buffer)
      <3>1. PICK j : j = i - Len(buffer)
        OBVIOUS
      <3>2. /\ j \in 1 .. n /\ j \in 1 .. Len(rest) /\ i = Len(buffer) + j /\ j \in 1 .. Len(u)
            /\ x + Len(buffer) + j = x + i
        BY <1>1, <1>3, <1>4, <1>8, <1>9, <2>3, <3>1, SMTT(30)
      <3>3. b[i] = rest[j]
        BY <1>4, <1>7, <3>2, Zenon
      <3>4. QED
        BY <1>8, <3>2, <3>3, Zenon
    <2>4. QED
      BY <1>1, <1>3, <1>9, <2>2, <2>3
  <1>12. \A i \in 1 .. Len(c) : c[i] = T[x + Len(b) + i]
    <2>1. SUFFICES ASSUME NEW i \in 1 .. Len(c) PROVE c[i] = T[x + Len(b) + i]
      OBVIOUS
    <2>2. PICK j : j = h + i - 1
      OBVIOUS
    <2>3. /\ i \in 1 .. Len(rest) - h + 1 /\ j \in 1 .. Len(rest)
          /\ x + Len(buffer) + j = x + Len(b) + i
      BY <1>1, <1>2, <1>3, <1>8, <1>9, <2>2
    <2>4. c[i] = rest[j]
      BY <1>5, <1>6, <2>2, <2>3, Zenon
    <2>5. QED
      BY <1>8, <2>3, <2>4, Zenon
  <1>13. QED
    BY <1>2, <1>8, <1>10, <1>11, <1>12 DEF Come

\* A chunk leaves the loop where it is, with more before it.
LEMMA ReadMoves ==
    ASSUME ExtractorInv, PlaceInv, Extractor!Read
    PROVE  PlaceInv'
  <1>1. Left
    BY PartsOf
  <1>2. PICK g, k, p : Place(g, k, p)
    BY DEF PlaceInv
  <1>3. PICK n \in 1 .. Len(rest) : /\ buffer' = buffer \o Extractor!Upto(rest, n)
                                    /\ rest' = Extractor!From(rest, n + 1)
    BY DEF Extractor!Read
  <1>4. /\ answer' = answer /\ state' = state /\ prev' = prev /\ toolText' = toolText
        /\ said' = said /\ parsed' = parsed /\ mode' = "drain"
    BY DEF Extractor!Read
  <1>5. cut => cut'
    BY Zenon DEF Extractor!Read
  <1>6. CutNoted'
    <2>1. CutAt(buffer', rest') => cut'
      BY Zenon DEF Extractor!Read, CutAt
    <2>2. QED
      BY <2>1, Zenon DEF CutNoted
  <1>7. Waits'
    BY <1>4 DEF Waits
  <1>8. \A T, x : Come(T, x) => Come(T, x)'
    BY <1>1, <1>3, MoreComes
  <1>9. \A M, x : Spoke(M, x) => Spoke(M, x)'
    BY <1>4 DEF Spoke
  <1>10. Setting(g)'
    BY <1>2, SettingStays DEF Place
  <1>11. Tools(g, k, p)'
    BY <1>2, <1>4, <1>5, Zenon DEF Place, Tools
  <1>12. OutAt(g, k, p) => OutAt(g, k, p)'
    BY <1>4, <1>8, <1>9 DEF OutAt
  <1>13. InAt(g, k, p) => InAt(g, k, p)'
    <2>1. Behind(g.a[k].body, p) => Behind(g.a[k].body, p)'
      BY <1>4 DEF Behind
    <2>2. QED
      BY <1>4, <1>8, <1>9, <2>1 DEF InAt
  <1>14. Place(g, k, p)'
    BY <1>2, <1>4, <1>10, <1>11, <1>12, <1>13 DEF Place
  <1>15. QED
    BY <1>6, <1>7, <1>14 DEF PlaceInv

-----------------------------------------------------------------------------
(* The end of the answer.                                                  *)

\* Where the answer ends inside a tag, it ends with the text of the tag.
LEMMA EndInside ==
    ASSUME Left, Waits, mode = "read", rest = <<>>, NEW g, NEW k, NEW p, Place(g, k, p),
           state \in Known
    PROVE  /\ InAt(g, k, p) /\ k \in 1 .. Len(g.a) /\ k = Len(g.a) /\ ~g.a[k].closed
           /\ p + Len(buffer) = Len(g.a[k].body)
           /\ \A j \in 1 .. Len(buffer) : buffer[j] = g.a[k].body[p + j]
  <1>1. /\ InAt(g, k, p) /\ k \in 1 .. Len(g.a) /\ k \in Nat /\ k > 0
        /\ Inside(g.a[k].body, p, g.a[k].tag, After(g, k))
    BY InsidePlace
  <1>2. /\ Setting(g) /\ p \in Nat /\ state = g.a[k].tag
        /\ Come(g.T, (g.start[k] + 3) + p)
    BY <1>1 DEF Place, InAt
  <1>3. PICK body, after, o, next, L :
          /\ body = g.a[k].body /\ after = After(g, k) /\ o = g.start[k]
          /\ next = g.start[k + 1] /\ L = Len(g.T)
    OBVIOUS
  <1>4. Inside(body, p, state, after) /\ buffer \in Symbols
    BY <1>1, <1>2, <1>3 DEF Left
  <1>5. /\ Len(buffer) \in Nat /\ Len(body) \in Nat /\ p \in 0 .. Len(body)
        /\ after \in {"close", "open", "end"}
        /\ \A j \in 1 .. Len(buffer) : p + j <= Len(body) => buffer[j] = body[p + j]
    BY <1>4, InsideIs
  <1>6. o \in Nat /\ next \in Nat /\ next <= L /\ L \in Nat
    BY <1>1, <1>2, <1>3, SegmentOf, SettingIs
  <1>7. ((o + 3) + p) + Len(buffer) = L
    <2>1. Len(rest) = 0
      OBVIOUS
    <2>2. ((o + 3) + p) + Len(buffer) + Len(rest) = L
      BY <1>2, <1>3 DEF Come
    <2>3. QED
      BY <1>5, <1>6, <2>1, <2>2
  <1>8. ~ Extractor!NewTag /\ Extractor!Closes = {}
    <2>1. state # Outside
      BY WordsAre
    <2>2. \A i \in 1 .. Len(buffer) :
               /\ ~ (/\ i + 3 <= Len(buffer) /\ buffer[i] = "<" /\ buffer[i + 1] = "/"
                     /\ buffer[i + 2] = state /\ buffer[i + 3] = ">")
               /\ i + 2 <= Len(buffer) /\ buffer[i] = "<" /\ buffer[i + 1] \in Word
                    /\ buffer[i + 2] = ">" => \E j \in 1 .. i - 1 : buffer[j] = "<"
      BY <2>1, Zenon DEF Waits
    <2>3. QED
      BY <1>4, <2>2, WaitsIs
  <1>9. InTag(g.a[k], o, next, g.T)
    BY <1>1, <1>2, <1>3, InTagOf
  <1>10. ~g.a[k].closed
    <2>1. SUFFICES ASSUME g.a[k].closed PROVE FALSE
      OBVIOUS
    <2>2. next = o + Len(body) + 7
      BY <1>3, <1>9, <2>1, Zenon DEF InTag
    <2>3. Len(body) + 4 <= p + Len(buffer)
      BY <1>5, <1>6, <1>7, <2>2
    <2>4. PICK j \in Nat : p + j = Len(body) + 1
      <3>1. Len(body) - p + 1 \in Nat /\ p + (Len(body) - p + 1) = Len(body) + 1
        BY <1>5
      <3>2. QED
        BY <3>1
    <2>5. Inside(body, p, state, "close")
      BY <1>3, <1>4, <2>1 DEF After
    <2>6. QED
      BY <1>4, <1>8, <2>3, <2>4, <2>5, CloseIsSeen
  <1>11. next = o + Len(body) + 3
    BY <1>3, <1>9, <1>10, Zenon DEF InTag
  <1>12. k = Len(g.a)
    <2>1. Len(g.a) \in Nat
      BY <1>2, SettingIs
    <2>2. SUFFICES ASSUME k < Len(g.a) PROVE FALSE
      BY <1>1, <2>1
    <2>3. k + 1 \in 1 .. Len(g.a)
      BY <1>1, <2>1, <2>2
    <2>4. g.a[k + 1].tag # Outside
      BY <1>1, <1>2, <1>10, <2>2, ReadsOnce, WordsAre
    <2>5. next + 3 <= L
      BY <1>2, <1>3, <2>3, <2>4, NextIs
    <2>6. Len(body) + 3 <= p + Len(buffer)
      BY <1>5, <1>6, <1>7, <1>11, <2>5
    <2>7. Inside(body, p, state, "open")
      BY <1>3, <1>4, <1>10, <2>2 DEF After
    <2>8. QED
      BY <1>4, <1>8, <2>6, <2>7, OpenIsSeen
  <1>13. next = L
    BY <1>1, <1>2, <1>3, <1>12, SettingIs
  <1>14. p + Len(buffer) = Len(body)
    BY <1>5, <1>6, <1>7, <1>11, <1>13
  <1>15. \A j \in 1 .. Len(buffer) : buffer[j] = body[p + j]
    <2>1. \A j \in 1 .. Len(buffer) : p + j <= Len(body)
      BY <1>5, <1>14
    <2>2. QED
      BY <1>5, <2>1
  <1>16. QED
    BY <1>1, <1>3, <1>10, <1>12, <1>14, <1>15

\* Where it ends outside, all of it has been read, or the buffer holds the end of
\* a text.
LEMMA EndOutside ==
    ASSUME Left, Waits, mode = "read", rest = <<>>, NEW g, NEW k, NEW p, Place(g, k, p),
           state = Outside, buffer # <<>>
    PROVE  /\ OutAt(g, k, p) /\ k \in 1 .. Len(g.a) /\ k = Len(g.a)
           /\ g.a[k].tag = Outside
           /\ p + Len(buffer) = Len(g.a[k].body)
           /\ \A j \in 1 .. Len(buffer) : buffer[j] = g.a[k].body[p + j]
  <1>1. /\ OutAt(g, k, p) /\ k \in 1 .. Len(g.a) /\ Len(g.a) \in Nat /\ k \in Nat /\ k > 0
        /\ \/ g.a[k].tag = Outside /\ p < Len(g.a[k].body)
           \/ g.a[k].tag \in Known \cup {"orphan"} /\ g.a[k].tag # Outside /\ p = 0
    BY OutsidePlace
  <1>2. /\ Setting(g) /\ p \in Nat /\ Come(g.T, g.start[k] + p)
    BY <1>1 DEF Place, OutAt
  <1>3. PICK body, o, next, L :
          /\ body = g.a[k].body /\ o = g.start[k] /\ next = g.start[k + 1] /\ L = Len(g.T)
    OBVIOUS
  <1>4. /\ o \in Nat /\ next \in Nat /\ next <= L /\ L \in Nat /\ Len(body) \in Nat
    BY <1>1, <1>2, <1>3, SegmentOf, SettingIs
  <1>5. Len(buffer) \in Nat /\ Len(buffer) > 0
    BY LengthsAre DEF Left
  <1>6. (o + p) + Len(buffer) = L
    <2>1. Len(rest) = 0
      OBVIOUS
    <2>2. (o + p) + Len(buffer) + Len(rest) = L
      BY <1>2, <1>3 DEF Come
    <2>3. QED
      BY <1>2, <1>4, <1>5, <2>1, <2>2
  <1>7. /\ buffer[1] = "<"
        /\ \/ Len(buffer) < 3
           \/ buffer[2] = "/" /\ \A i \in 1 .. Len(buffer) : buffer[i] # ">"
    BY Zenon DEF Waits
  <1>8. CASE g.a[k].tag # Outside
    <2>1. p = 0 /\ Come(g.T, g.start[k] + 0)
      BY <1>1, <1>2, <1>8
    <2>2. o + 3 <= L
      BY <1>1, <1>2, <1>3, <1>8, NextIs
    <2>3. Len(buffer) >= 3 /\ L = o + Len(buffer)
      BY <1>4, <1>5, <1>6, <2>1, <2>2
    <2>4. buffer[2] = "/" /\ \A i \in 1 .. Len(buffer) : buffer[i] # ">"
      BY <1>5, <1>7, <2>3
    <2>5. CASE g.a[k].tag \in Known
      <3>1. buffer[2] = g.a[k].tag
        BY <1>1, <1>2, <1>5, <1>8, <2>1, <2>3, <2>5, TagAhead
      <3>2. QED
        BY <2>4, <2>5, <3>1, WordsAre
    <2>6. CASE g.a[k].tag = "orphan"
      <3>1. g.a[k].tag \notin Known
        BY <1>1, <1>2, <2>6, SegmentOf
      <3>2. /\ next = o + Len(body)
            /\ \A j \in 1 .. Len(body) : g.T[o + j] = body[j]
        BY <1>1, <1>2, <1>3, <3>1, BareOf
      <3>3. Len(body) > 2 /\ \A i \in DOMAIN body : body[i] = ">" <=> i = Len(body)
        BY <1>1, <1>2, <1>3, <2>6, ReadsOnce
      <3>4. body \in Symbols
        BY <1>1, <1>2, <1>3, SegmentOf
      <3>5. PICK n : n = Len(body)
        OBVIOUS
      <3>6. n \in 1 .. Len(body) /\ n \in 1 .. Len(buffer)
        <4>1. o + n <= o + Len(buffer) /\ n > 2 /\ n \in Nat
          BY <1>4, <2>3, <3>2, <3>3, <3>5
        <4>2. QED
          BY <1>4, <1>5, <3>5, <4>1
      <3>7. body[n] = ">"
        BY <3>3, <3>4, <3>5, <3>6, LengthsAre
      <3>8. o + 0 = o
        BY <1>4
      <3>9. buffer[n] = g.T[o + n]
        BY <1>3, <2>1, <3>6, <3>8, Zenon DEF Come
      <3>10. QED
        BY <2>4, <3>2, <3>6, <3>7, <3>9, Zenon
    <2>7. QED
      BY <1>1, <1>8, <2>5, <2>6
  <1>9. CASE g.a[k].tag = Outside
    <2>1. g.a[k].tag \notin Known
      BY <1>9, WordsAre
    <2>2. next = o + Len(body)
      BY <1>1, <1>2, <1>3, <2>1, BareOf
    <2>3. p < Len(body)
      BY <1>1, <1>3, <1>9
    <2>4. ~ (Len(buffer) >= 2 /\ buffer[1] = "<" /\ buffer[2] = "/")
      BY <1>1, <1>2, <1>3, <1>9, <2>3, NoSlash
    <2>5. Len(buffer) < 3
      BY <1>5, <1>7, <2>4
    <2>6. k = Len(g.a)
      <3>1. SUFFICES ASSUME k < Len(g.a) PROVE FALSE
        BY <1>1
      <3>2. k + 1 \in 1 .. Len(g.a)
        BY <1>1, <3>1
      <3>3. g.a[k + 1].tag # Outside
        BY <1>1, <1>2, <1>9, <3>1, ReadsOnce
      <3>4. next + 3 <= L
        BY <1>2, <1>3, <3>2, <3>3, NextIs
      <3>5. QED
        BY <1>2, <1>4, <1>5, <1>6, <2>2, <2>3, <2>5, <3>4
    <2>7. next = L
      BY <1>1, <1>2, <1>3, <2>6, SettingIs
    <2>8. p + Len(buffer) = Len(body)
      BY <1>2, <1>4, <1>5, <1>6, <2>2, <2>7
    <2>9. InText(body, p)
      BY <1>1, <1>2, <1>3, <1>9, <2>3, TextAhead
    <2>10. \A j \in 1 .. Len(buffer) : buffer[j] = body[p + j]
      <3>1. \A j \in 1 .. Len(buffer) : p + j <= Len(body)
        BY <1>2, <1>4, <1>5, <2>8
      <3>2. QED
        BY <2>9, <3>1, Zenon DEF InText
    <2>11. QED
      BY <1>1, <1>3, <1>9, <2>6, <2>8, <2>10
  <1>10. QED
    BY <1>8, <1>9

\* Where it ends with nothing in the buffer, all of it has been passed on.
LEMMA EndNothing ==
    ASSUME Left, rest = <<>>, NEW g, NEW k, NEW p, Place(g, k, p), state = Outside, buffer = <<>>
    PROVE  OutAt(g, k, p) /\ k = Len(g.a) + 1 /\ p = 0
  <1>1. /\ OutAt(g, k, p) /\ Setting(g) /\ p \in Nat /\ Come(g.T, g.start[k] + p)
        /\ k \in 1 .. Len(g.a) + 1
    <2>1. ~ InAt(g, k, p)
      BY WordsAre DEF InAt
    <2>2. QED
      BY <2>1 DEF Place, OutAt
  <1>2. Len(g.a) \in Nat /\ (p > 0 => k <= Len(g.a) /\ g.a[k].tag = Outside /\ p < Len(g.a[k].body))
    BY <1>1, SettingIs DEF OutAt
  <1>3. k = Len(g.a) + 1
    <2>1. SUFFICES ASSUME k \in 1 .. Len(g.a) PROVE FALSE
      BY <1>1, <1>2
    <2>2. PICK body, o, next, L :
            /\ body = g.a[k].body /\ o = g.start[k] /\ next = g.start[k + 1] /\ L = Len(g.T)
      OBVIOUS
    <2>3. o \in Nat /\ next \in Nat /\ next <= L /\ L \in Nat /\ Len(body) \in Nat
      BY <1>1, <2>1, <2>2, SegmentOf, SettingIs
    <2>4. o + p = L
      <3>1. Len(rest) = 0 /\ Len(buffer) = 0
        OBVIOUS
      <3>2. (o + p) + Len(buffer) + Len(rest) = L
        BY <1>1, <2>2 DEF Come
      <3>3. QED
        BY <1>1, <2>3, <3>1, <3>2
    <2>5. CASE g.a[k].tag = Outside
      <3>1. g.a[k].tag \notin Known
        BY <2>5, WordsAre
      <3>2. next = o + Len(body)
        BY <1>1, <2>1, <2>2, <3>1, BareOf
      <3>3. p < Len(body)
        <4>1. body # <<>> /\ body \in Symbols
          BY <1>1, <2>1, <2>2, <2>5, ReadsOnce, SegmentOf
        <4>2. Len(body) > 0
          BY <4>1, LengthsAre
        <4>3. p > 0 => p < Len(body)
          BY <1>2, <2>2
        <4>4. QED
          BY <1>1, <2>3, <4>2, <4>3
      <3>4. QED
        BY <1>1, <2>3, <2>4, <3>2, <3>3
    <2>6. CASE g.a[k].tag # Outside
      <3>1. p = 0
        BY <1>1, <1>2, <2>6
      <3>2. o + 3 <= L
        BY <1>1, <2>1, <2>2, <2>6, NextIs
      <3>3. QED
        BY <2>3, <2>4, <3>1, <3>2
    <2>7. QED
      BY <2>5, <2>6
  <1>4. p = 0
    BY <1>1, <1>2, <1>3
  <1>5. QED
    BY <1>1, <1>3, <1>4

\* All of the answer has been passed on.
LEMMA EndPlace ==
    ASSUME NEW g, Setting(g), answer' = g.a, state' = Outside, buffer' = <<>>, rest' = <<>>,
           NEW M, M = g.M, NEW m, m = Len(M), Spoke(M, m)', Tools(g, Len(g.a) + 1, 0)'
    PROVE  Place(g, Len(g.a) + 1, 0)'
  <1>1. PICK k : k = Len(g.a) + 1 /\ Len(g.a) \in Nat
    BY SettingIs
  <1>2. k \in 1 .. Len(g.a) + 1 /\ ~ k <= Len(g.a) /\ k = Len(g.a) + 1
    BY <1>1
  <1>3. g.start[k] = Len(g.T) /\ g.from[k] = Len(g.M) /\ Len(g.T) \in Nat /\ Len(g.M) \in Nat
    BY <1>2, SettingIs
  <1>4. PICK s, f : s = g.start[k] + 0 /\ f = g.from[k] + 0 /\ s = Len(g.T) /\ f = Len(g.M)
    <2>1. Len(g.T) + 0 = Len(g.T) /\ Len(g.M) + 0 = Len(g.M)
      BY <1>3
    <2>2. QED
      BY <1>3, <2>1
  <1>5. Come(g.T, s)'
    <2>1. Len(buffer') = 0 /\ Len(rest') = 0 /\ s + 0 + 0 = s /\ s \in Nat
      BY <1>3, <1>4
    <2>2. QED
      BY <1>4, <2>1 DEF Come
  <1>6. Spoke(g.M, f)'
    BY <1>4
  <1>7. OutAt(g, k, 0)'
    BY <1>2, <1>4, <1>5, <1>6 DEF OutAt
  <1>8. Setting(g)'
    BY SettingStays
  <1>9. Place(g, k, 0)'
    BY <1>2, <1>7, <1>8 DEF Place
  <1>10. QED
    BY <1>2, <1>9

\* The end of the stream passes on what is left.
LEMMA FlushMoves ==
    ASSUME ExtractorInv, PlaceInv, Extractor!Flush
    PROVE  PlaceInv'
  <1>1. /\ Left /\ Passed /\ buffer \in Symbols /\ state \in Extractor!Key /\ Waits /\ CutNoted
        /\ Len(buffer) \in Nat
    BY PartsOf, LengthsAre DEF Left, PlaceInv
  <1>2. PICK g, k, p : Place(g, k, p)
    BY DEF PlaceInv
  <1>3. /\ mode = "read" /\ rest = <<>> /\ Extractor!Emit(state, buffer, TRUE)
        /\ buffer' = <<>> /\ state' = Outside /\ mode' = "ended" /\ answer' = answer
        /\ rest' = rest /\ cut' = cut
    BY Zenon DEF Extractor!Flush
  <1>4. Setting(g) /\ answer = g.a /\ Tools(g, k, p) /\ p \in Nat /\ k \in 1 .. Len(g.a) + 1
    BY <1>2 DEF Place
  <1>5. PICK n, M, m : n = Len(buffer) /\ M = g.M /\ m = Len(M)
    OBVIOUS
  <1>6. Len(g.a) \in Nat /\ Len(M) \in Nat /\ g.from[Len(g.a) + 1] = Len(M)
    <2>1. Len(g.a) + 1 \in 1 .. Len(g.a) + 1
      BY <1>4, SettingIs
    <2>2. QED
      BY <1>4, <1>5, <2>1, SettingIs
  <1>7. Waits'
    BY <1>3 DEF Waits
  <1>8. CutNoted'
    <2>1. Remains(<<>>, n)
      BY <1>1, <1>5 DEF Remains, Symbols
    <2>2. QED
      BY <1>1, <1>3, <2>1, CutTurn
  <1>9. SUFFICES Spoke(M, m)' /\ Tools(g, Len(g.a) + 1, 0)'
    <2>1. ASSUME Spoke(M, m)' /\ Tools(g, Len(g.a) + 1, 0)' PROVE Place(g, Len(g.a) + 1, 0)'
      BY <1>3, <1>4, <1>5, <2>1, EndPlace
    <2>2. QED
      BY <1>7, <1>8, <2>1 DEF PlaceInv
  <1>10. ASSUME k \in 1 .. Len(g.a), k = Len(g.a), g.a[k].tag # "orphan", g.a[k].tag # "tool",
                state = g.a[k].tag, Spoke(g.M, g.from[k] + p), p + Len(buffer) = Len(g.a[k].body),
                \A j \in 1 .. Len(buffer) : buffer[j] = g.a[k].body[p + j]
         PROVE  Spoke(M, m)' /\ Tools(g, Len(g.a) + 1, 0)'
    <2>1. /\ p + n = Len(g.a[k].body) /\ p + n <= Len(g.a[k].body)
          /\ \A j \in 1 .. n : buffer[j] = g.a[k].body[p + j]
      <3>1. Len(g.a[k].body) \in Nat
        BY <1>4, <1>10, SegmentOf
      <3>2. QED
        BY <1>5, <1>10, <3>1
    <2>2. Extractor!Emit(g.a[k].tag, buffer, TRUE)
      BY <1>3, <1>10
    <2>3. Spoke(g.M, g.from[k] + (p + n))'
      BY <1>1, <1>4, <1>5, <1>10, <2>1, <2>2, SaysMore
    <2>4. g.from[k + 1] = g.from[k] + Len(g.a[k].body)
      <3>1. SegmentAt(g.a[k], g.start[k], g.start[k + 1], g.from[k], g.from[k + 1], g.T, g.M)
        BY <1>4, <1>10, SegmentOf
      <3>2. QED
        BY <1>10, <3>1 DEF SegmentAt, Means
    <2>5. Spoke(M, m)'
      BY <1>5, <1>6, <1>10, <2>1, <2>3, <2>4
    <2>6. toolText' = toolText /\ parsed' = parsed
      BY <1>10, <2>2, EmitOther
    <2>7. state' # "tool"
      BY <1>3, WordsAre
    <2>8. k \in Nat /\ k > 0
      BY <1>10
    <2>9. Tools(g, k + 1, 0)'
      BY <1>3, <1>4, <1>10, <2>6, <2>7, <2>8, ToolsKeep
    <2>10. QED
      BY <1>10, <2>5, <2>9
  <1>11. CASE state \in Known
    <2>1. /\ InAt(g, k, p) /\ k \in 1 .. Len(g.a) /\ k = Len(g.a) /\ ~g.a[k].closed
          /\ p + Len(buffer) = Len(g.a[k].body)
          /\ \A j \in 1 .. Len(buffer) : buffer[j] = g.a[k].body[p + j]
      BY <1>1, <1>2, <1>3, <1>11, EndInside
    <2>2. Spoke(g.M, g.from[k] + p) /\ state = g.a[k].tag /\ g.a[k].tag \in Known
      BY <2>1 DEF InAt
    <2>3. g.a[k].tag # "orphan"
      BY <1>4, <2>1, <2>2, SegmentOf
    <2>4. g.a[k].tag # "tool"
      BY <1>4, <2>1, ToolIs
    <2>5. QED
      BY <1>10, <2>1, <2>2, <2>3, <2>4
  <1>12. CASE state = Outside /\ buffer # <<>>
    <2>1. /\ OutAt(g, k, p) /\ k \in 1 .. Len(g.a) /\ k = Len(g.a)
          /\ g.a[k].tag = Outside
          /\ p + Len(buffer) = Len(g.a[k].body)
          /\ \A j \in 1 .. Len(buffer) : buffer[j] = g.a[k].body[p + j]
      BY <1>1, <1>2, <1>3, <1>12, EndOutside
    <2>2. Spoke(g.M, g.from[k] + p) /\ state = g.a[k].tag
      BY <2>1 DEF OutAt
    <2>3. g.a[k].tag # "orphan" /\ g.a[k].tag # "tool"
      BY <2>1, PathAssumption DEF Extractor!TagAssumption
    <2>4. QED
      BY <1>10, <2>1, <2>2, <2>3
  <1>13. CASE state = Outside /\ buffer = <<>>
    <2>1. OutAt(g, k, p) /\ k = Len(g.a) + 1 /\ p = 0
      BY <1>1, <1>2, <1>3, <1>13, EndNothing
    <2>2. Spoke(M, m)
      <3>1. Spoke(g.M, g.from[k] + 0)
        BY <2>1 DEF OutAt
      <3>2. g.from[k] + 0 = m
        BY <1>5, <1>6, <2>1
      <3>3. QED
        BY <1>5, <3>1, <3>2
    <2>3. PICK text, e : text = buffer /\ e = m + Len(text)
      OBVIOUS
    <2>4. Spoke(M, m)'
      <3>1. Len(text) = 0 /\ m + Len(text) <= Len(M) /\ text \in Symbols /\ e = m
        BY <1>1, <1>5, <1>6, <1>13, <2>3
      <3>2. \A j \in 1 .. Len(text) : M[m + j] = [key |-> state, symbol |-> text[j]]
        BY <3>1
      <3>3. Extractor!Emit(state, text, TRUE)
        BY <1>3, <2>3
      <3>4. Spoke(M, m + Len(text))'
        BY <1>1, <1>6, <2>2, <3>1, <3>2, <3>3, Speaks
      <3>5. QED
        BY <2>3, <3>1, <3>4
    <2>5. toolText' = toolText /\ parsed' = parsed
      <3>1. state # "tool"
        BY <1>13, WordsAre
      <3>2. QED
        BY <1>3, <3>1, EmitOther
    <2>6. Tools(g, k, 0)'
      <3>1. k \in Nat /\ k > 0
        BY <1>4, <1>6
      <3>2. state' # "tool"
        BY <1>3, WordsAre
      <3>3. QED
        BY <1>3, <1>4, <2>5, <3>1, <3>2, ToolsKeep
    <2>7. QED
      BY <2>1, <2>4, <2>6
  <1>14. QED
    BY <1>1, <1>11, <1>12, <1>13 DEF Extractor!Key

\* The loop begins before the first segment.
LEMMA PlaceInit == Extractor!Init => PlaceInv
  <1>1. SUFFICES ASSUME Extractor!Init PROVE PlaceInv
    OBVIOUS
  <1>2. /\ answer \in Answers /\ rest = Extractor!Text(answer) /\ buffer = <<>>
        /\ state = Outside /\ prev = "" /\ toolText = <<>> /\ said = <<>> /\ parsed = 0
        /\ mode = "read" /\ cut = FALSE
    BY <1>1 DEF Extractor!Init
  <1>3. PICK start, from :
          Layout(answer, Extractor!Text(answer), Extractor!Meant(answer), start, from)
    BY <1>2, Layouts
  <1>4. PICK T, M : T = Extractor!Text(answer) /\ M = Extractor!Meant(answer)
    OBVIOUS
  <1>5. PICK g : g = [a |-> answer, T |-> T, M |-> M, start |-> start, from |-> from]
    OBVIOUS
  <1>6. g.a = answer /\ g.T = T /\ g.M = M /\ g.start = start /\ g.from = from
    BY <1>5
  <1>7. Setting(g)
    BY <1>2, <1>3, <1>4, <1>6, Zenon DEF Setting
  <1>8. Len(g.a) \in Nat /\ 1 \in 1 .. Len(g.a) + 1 /\ Len(g.T) \in Nat /\ Len(g.M) \in Nat
    BY <1>7, SettingIs
  <1>9. g.start[1] = 0 /\ g.from[1] = 0
    BY <1>7, <1>8, SettingIs
  <1>10. Come(g.T, g.start[1] + 0)
    <2>1. PICK z : z = g.start[1] + 0 /\ z = 0
      BY <1>9
    <2>2. rest = g.T
      BY <1>2, <1>4, <1>6, Zenon
    <2>3. Len(buffer) = 0
      <3>1. buffer = <<>>
        BY <1>2
      <3>2. QED
        BY <3>1
    <2>4. /\ z \in Nat /\ z + Len(buffer) + Len(g.T) = Len(g.T)
          /\ \A i \in 1 .. Len(g.T) : z + Len(buffer) + i = i
      BY <1>8, <2>1, <2>3
    <2>5. \A i \in 1 .. Len(g.T) : rest[i] = g.T[z + Len(buffer) + i]
      BY <2>2, <2>4, Zenon
    <2>6. \A i \in 1 .. Len(buffer) : buffer[i] = g.T[z + i]
      BY <2>3
    <2>7. Come(g.T, z)
      BY <2>2, <2>4, <2>5, <2>6 DEF Come
    <2>8. QED
      BY <2>1, <2>7
  <1>11. Spoke(g.M, g.from[1] + 0)
    <2>1. PICK z : z = g.from[1] + 0 /\ z = 0
      BY <1>9
    <2>2. said = <<>>
      BY <1>2
    <2>3. Len(said) = 0
      BY <2>2
    <2>4. z \in Nat /\ z <= Len(g.M) /\ Len(said) = z
      BY <1>8, <2>1, <2>3
    <2>5. \A i \in 1 .. z : said[i] = g.M[i]
      BY <2>1
    <2>6. QED
      BY <2>1, <2>4, <2>5 DEF Spoke
  <1>12. OutAt(g, 1, 0)
    <2>1. state = Outside /\ prev # "tick" /\ ~ 0 > 0
      <3>1. state = Outside /\ prev = ""
        BY <1>2
      <3>2. "" # "tick"
        OBVIOUS
      <3>3. ~ 0 > 0
        OBVIOUS
      <3>4. QED
        BY <3>1, <3>2, <3>3, Zenon
    <2>2. QED
      BY <1>10, <1>11, <2>1, Zenon DEF OutAt
  <1>13. Tools(g, 1, 0)
    <2>1. ~ Called(g, 1)
      BY DEF Called
    <2>2. toolText = <<>>
      BY <1>2
    <2>3. QED
      BY <2>1, <2>2, Zenon DEF Tools
  <1>14. Place(g, 1, 0)
    BY <1>2, <1>6, <1>7, <1>8, <1>12, <1>13 DEF Place
  <1>15. Waits
    BY <1>2 DEF Waits
  <1>16. CutNoted
    <2>1. ~ CutAt(<<>>, rest)
      <3>1. <<>> \in Symbols /\ rest \in Symbols
        <4>1. answer \in Answers /\ rest = Extractor!Text(answer)
          BY <1>2, Zenon
        <4>2. Extractor!Text(answer) \in Symbols
          BY <4>1, Layouts
        <4>3. <<>> \in Symbols
          BY DEF Symbols
        <4>4. QED
          BY <4>1, <4>2, <4>3, Zenon
      <3>2. \A x, i : i \in 1 .. 3 => ~ CutBetween(x, <<>>, rest, i)
        BY DEF CutBetween
      <3>3. QED
        BY <3>1, <3>2, CutAtIs
    <2>2. QED
      BY <1>2, <2>1, Zenon DEF CutNoted
  <1>17. QED
    BY <1>14, <1>15, <1>16 DEF PlaceInv

LEMMA PlaceStays == ASSUME PlaceInv, UNCHANGED extractorVars PROVE PlaceInv'
  <1>1. /\ answer' = answer /\ rest' = rest /\ buffer' = buffer /\ state' = state /\ prev' = prev
        /\ toolText' = toolText /\ said' = said /\ parsed' = parsed /\ mode' = mode /\ cut' = cut
    BY Zenon DEF extractorVars
  <1>2. PICK g, k, p : Place(g, k, p)
    BY DEF PlaceInv
  <1>3. \A T, n : Come(T, n) => Come(T, n)'
    BY <1>1 DEF Come
  <1>4. \A M, n : Spoke(M, n) => Spoke(M, n)'
    BY <1>1 DEF Spoke
  <1>5. Setting(g)'
    BY <1>2, SettingStays DEF Place
  <1>6. Tools(g, k, p)'
    BY <1>1, <1>2, Zenon DEF Place, Tools
  <1>7. OutAt(g, k, p) => OutAt(g, k, p)'
    BY <1>1, <1>3, <1>4 DEF OutAt
  <1>8. InAt(g, k, p) => InAt(g, k, p)'
    <2>1. Behind(g.a[k].body, p) => Behind(g.a[k].body, p)'
      BY <1>1 DEF Behind
    <2>2. QED
      BY <1>1, <1>3, <1>4, <2>1 DEF InAt
  <1>9. CutNoted'
    BY <1>1, Zenon DEF PlaceInv, CutNoted
  <1>10. Waits'
    BY <1>1, Zenon DEF PlaceInv, Waits
  <1>11. Place(g, k, p)'
    BY <1>1, <1>2, <1>5, <1>6, <1>7, <1>8 DEF Place
  <1>12. QED
    BY <1>9, <1>10, <1>11 DEF PlaceInv

LEMMA PlaceStep == ASSUME ExtractorInv, PlaceInv, [PathNext]_pathVars PROVE PlaceInv'
  <1>1. CASE Extractor!Next
    <2>1. CASE Extractor!Over
      BY <2>1, PlaceStays DEF Extractor!Over, Extractor!tagVars, extractorVars
    <2>2. QED
      BY <1>1, <2>1, ReadMoves, FlushMoves, TextOutsideMoves, OrphanMoves, OpenMoves,
         LessThanMoves, ImplicitMoves, CloseTagMoves, EscapedMoves, HoldMoves
         DEF Extractor!Next
  <1>2. CASE UNCHANGED extractorVars
    BY <1>2, PlaceStays
  <1>3. QED
    BY <1>1, <1>2 DEF PathNext, pathVars

LEMMA PlaceHolds == PathSpec => []PlaceInv
  <1>1. PathInit => PlaceInv
    BY PlaceInit DEF PathInit
  <1>2. ExtractorInv /\ PlaceInv /\ [PathNext]_pathVars => PlaceInv'
    BY PlaceStep
  <1>3. QED
    BY <1>1, <1>2, ExtractorHolds, PTL DEF PathSpec

\* What has been passed on is the beginning of what is meant.
LEMMA SaidIsMeant ==
    ASSUME ExtractorInv, PlaceInv
    PROVE  Extractor!CutsDoNotMatter
  <1>1. said \in Seq(Said)
    BY PartsOf DEF Passed, Said
  <1>2. PICK g, k, p : Place(g, k, p)
    BY DEF PlaceInv
  <1>3. Setting(g) /\ answer = g.a /\ Tools(g, k, p) /\ k \in 1 .. Len(g.a) + 1 /\ p \in Nat
    BY <1>2 DEF Place
  <1>4. PICK M : M = Extractor!Meant(answer) /\ M = g.M
    BY <1>3 DEF Setting
  <1>5. M \in Seq(Said) /\ Len(M) \in Nat /\ Len(g.a) \in Nat
    BY <1>3, <1>4, SettingIs
  <1>6. PICK m : Spoke(M, m)
    BY <1>2, <1>4 DEF Place, OutAt, InAt
  <1>7. Extractor!IsPrefix(said, M)
    <2>1. Len(said) <= Len(M) /\ \A i \in 1 .. Len(said) : said[i] = M[i]
      BY <1>6 DEF Spoke
    <2>2. QED
      BY <1>1, <1>5, <2>1, PrefixIs
  <1>8. ASSUME Extractor!Ended PROVE k = Len(g.a) + 1 /\ said = M
    <2>1. state = Outside /\ k = Len(g.a) + 1
      BY <1>2, <1>8 DEF Place, Extractor!Ended
    <2>2. OutAt(g, k, p)
      BY <1>2, <1>3, <2>1, WordsAre DEF Place, InAt
    <2>3. p = 0
      BY <1>3, <1>5, <2>1, <2>2 DEF OutAt
    <2>4. g.from[k] = Len(M)
      BY <1>3, <1>4, <2>1, SettingIs
    <2>5. Spoke(M, Len(M))
      <3>1. PICK f : f = g.from[k] + p
        OBVIOUS
      <3>2. f = Len(M)
        BY <1>5, <2>3, <2>4, <3>1
      <3>3. Spoke(M, f)
        BY <1>4, <2>2, <3>1 DEF OutAt
      <3>4. QED
        BY <3>2, <3>3
    <2>6. Len(said) = Len(M) /\ \A i \in 1 .. Len(M) : said[i] = M[i]
      BY <2>5 DEF Spoke
    <2>7. said = M
      BY <1>1, <1>5, <2>6
    <2>8. QED
      BY <2>1, <2>7
  <1>9. ASSUME Extractor!Ended, ~cut, Extractor!Calls(answer) # {} PROVE parsed > 0
    <2>1. PICK i \in DOMAIN g.a : g.a[i].tag = "tool"
      BY <1>3, <1>9 DEF Extractor!Calls
    <2>2. i \in 1 .. Len(g.a)
      BY <1>3, SettingIs
    <2>3. i \in 1 .. k - 1
      BY <1>5, <1>8, <1>9, <2>2
    <2>4. Called(g, k)
      BY <2>1, <2>3, Zenon DEF Called
    <2>5. QED
      BY <1>3, <1>9, <2>4, Zenon DEF Tools
  <1>10. QED
    BY <1>4, <1>7, <1>8, <1>9 DEF Extractor!CutsDoNotMatter

\* agent/parsers and full_duplex_llm_processor.py: wherever the deltas and the
\* text of the model are cut, the calls are whole, every symbol goes where its
\* tag says, in order and once, and the first call in a text becomes a tool
\* call unless a chunk ended in its close tag.
THEOREM CutsMakeNoDifference == PathSpec => []CutsDoNotMatter
  <1>1. ExtractorInv /\ PlaceInv => Extractor!CutsDoNotMatter
    BY SaidIsMeant
  <1>2. Stream!CallsAreWhole /\ Extractor!CutsDoNotMatter => CutsDoNotMatter
    BY DEF CutsDoNotMatter
  <1>3. QED
    BY <1>1, <1>2, DeltasMakeCalls, ExtractorHolds, PlaceHolds, PTL

-----------------------------------------------------------------------------
(* The round.                                                              *)

LEMMA RoundMoves == [PathNext]_pathVars => [Round!Next]_(Round!vars)
  BY DEF PathNext, pathVars, roundVars, Round!vars, Round!roundVars, Round!ctxVars,
         Round!outVars

LEMMA RoundHolds == PathSpec => []Round!RoundInv
  <1>1. PathInit => Round!RoundInv
    BY Round!RoundInit DEF PathInit
  <1>2. Round!RoundInv /\ [PathNext]_pathVars => Round!RoundInv'
    BY RoundMoves, Round!RoundStep
  <1>3. QED
    BY <1>1, <1>2, PTL DEF PathSpec

\* full_duplex_llm_processor.py: the counter of the condition is the number of
\* pending tools and of those whose handling raised, whichever task updates it.
THEOREM CounterAgrees == PathSpec => []CountsAgree
  <1>1. Round!RoundInv => CountsAgree
    BY DEF CountsAgree, Round!RoundInv, Round!Counted, Round!CountsAgree
  <1>2. QED
    BY <1>1, RoundHolds, PTL

\* _wait_for_tools_complete: whoever waits for tools that have all ended has
\* been woken.
THEOREM WaiterIsWoken == PathSpec => []NoLostWakeup
  <1>1. Round!RoundInv => NoLostWakeup
    BY DEF NoLostWakeup, Round!RoundInv
  <1>2. QED
    BY <1>1, RoundHolds, PTL

\* _flush_pending_tool_results: no result comes into the context before the
\* assistant message with its call.
THEOREM ResultsFollowCalls == PathSpec => []ResultsBehindCalls
  <1>1. Round!RoundInv => ResultsBehindCalls
    BY DEF ResultsBehindCalls, Round!RoundInv, Round!Accounted, Round!ResultsBehindCalls
  <1>2. QED
    BY <1>1, RoundHolds, PTL

\* ChatAgent.stream: what it hands on of a run read to its end is whole,
\* however the run ends.
THEOREM ContextIsWhole == PathSpec => []HandedWhole
  <1>1. Round!RoundInv => HandedWhole
    BY DEF HandedWhole, Round!RoundInv, Round!Ending, Round!HandedWhole
  <1>2. QED
    BY <1>1, RoundHolds, PTL

\* A run read to its end pushed one done frame and is in a final state.
THEOREM RunEndsOnce == PathSpec => []OneDone
  <1>1. Round!RoundInv => OneDone
    BY DEF OneDone, Round!RoundInv, Round!Ending, Round!OneDone
  <1>2. QED
    BY <1>1, RoundHolds, PTL

\* _handle_llm_call: the model is called again only with whole rounds.
THEOREM RoundsAreWhole == PathSpec => CalledWithWholeRounds
  <1>1. Round!RoundInv /\ [PathNext]_pathVars =>
          [iter' # iter => results = calls /\ asked' = replied' /\ buffered' = {}]_(Round!vars)
    BY RoundMoves, Round!WholeRoundStep
  <1>2. QED
    BY <1>1, RoundHolds, PTL DEF PathSpec, CalledWithWholeRounds, Round!CalledWithWholeRounds

-----------------------------------------------------------------------------
(* The executor.                                                           *)

LEMMA ExecutorMoves == [PathNext]_pathVars => [Executor!Next]_(Executor!vars)
  BY DEF PathNext, pathVars, executorVars, Executor!vars, Executor!queueVars

\* async_executor.py:165: sequential mode runs one call at a time, unless a call
\* is dispatched between the creation of a queue task and its first step.
THEOREM QueueRunsOneCall == PathSpec => []OneAtATimeUnlessHasty
  <1>1. PathInit => Executor!TypeOK /\ Executor!Alone
    BY Executor!ExecutorTypeInit, Executor!AloneInit DEF PathInit
  <1>2. Executor!TypeOK /\ Executor!Alone /\ [PathNext]_pathVars
          => (Executor!TypeOK /\ Executor!Alone)'
    BY ExecutorMoves, Executor!ExecutorTypeStep, Executor!AloneStep
  <1>3. Executor!Alone => OneAtATimeUnlessHasty
    BY DEF OneAtATimeUnlessHasty, Executor!OneAtATimeUnlessHasty, Executor!Alone,
           Executor!Single, Executor!Awaited, Executor!Alive
  <1>4. QED
    BY <1>1, <1>2, <1>3, PTL DEF PathSpec

-----------------------------------------------------------------------------
(* The MCP server.                                                         *)

LEMMA McpHolds == PathSpec => []Mcp!McpInv
  <1>1. Mcp!CallerAssumption
    BY PathAssumption
  <1>2. PathInit => Mcp!McpInv
    BY <1>1, Mcp!McpInit DEF PathInit
  <1>3. [PathNext]_pathVars => [Mcp!Next]_(Mcp!mcpVars)
    BY DEF PathNext, pathVars, mcpVars, Mcp!mcpVars, Mcp!entryVars, Mcp!clientVars,
           Mcp!callVars
  <1>4. Mcp!McpInv /\ [PathNext]_pathVars => Mcp!McpInv'
    BY <1>1, <1>3, Mcp!McpStep
  <1>5. QED
    BY <1>2, <1>4, PTL DEF PathSpec

\* mcp_client.py: a caller gets the answer to its own request, whatever the
\* order of the answers and whichever of the clients it used.
THEOREM AnswersAreOwn == PathSpec => []OwnAnswer
  <1>1. Mcp!McpInv => OwnAnswer
    BY DEF OwnAnswer, Mcp!OwnAnswer, Mcp!McpInv, Mcp!Told, Mcp!Own
  <1>2. QED
    BY <1>1, McpHolds, PTL

-----------------------------------------------------------------------------
(* All of them.                                                            *)

\* Every variable of every component has its type, whatever the model answers
\* and however it is cut: among them, that a piece taken off the buffer of the
\* extractor lies in it (xml_tag_extractor.py:147-345), and that one answer makes
\* at most one tool call (mapper.py).
THEOREM TypesHold == PathSpec => []PathTypes
  <1>1. StreamInv => Stream!TypeOK
    BY DEF StreamInv
  <1>2. ExtractorInv => Extractor!TypeOK
    BY DEF ExtractorInv
  <1>3. PathInit => Round!RoundTypes
    BY PathAssumption, Round!RoundTypeInit DEF PathInit
  <1>4. Round!RoundTypes /\ [PathNext]_pathVars => Round!RoundTypes'
    BY PathAssumption, RoundMoves, Round!RoundTypeStep
  <1>5. Round!RoundTypes => Round!TypeOK
    BY Round!TypeParts
  <1>6. PathInit => Executor!TypeOK
    BY Executor!ExecutorTypeInit DEF PathInit
  <1>7. Executor!TypeOK /\ [PathNext]_pathVars => Executor!TypeOK'
    BY ExecutorMoves, Executor!ExecutorTypeStep
  <1>8. Mcp!McpInv => Mcp!TypeOK
    BY DEF Mcp!McpInv, Mcp!TypeInv
  <1>9. PathSpec => [](Round!TypeOK /\ Executor!TypeOK)
    BY <1>3, <1>4, <1>5, <1>6, <1>7, PTL DEF PathSpec
  <1>10. Stream!TypeOK /\ Extractor!TypeOK /\ Round!TypeOK /\ Executor!TypeOK /\ Mcp!TypeOK
           => PathTypes
    BY DEF PathTypes
  <1>11. QED
    BY <1>1, <1>2, <1>8, <1>9, <1>10, StreamHolds, ExtractorHolds, McpHolds, PTL
=============================================================================
