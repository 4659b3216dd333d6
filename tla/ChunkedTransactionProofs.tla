------------------------ MODULE ChunkedTransactionProofs ------------------------
(***************************************************************************)
(* Theorems about ChunkedTransaction: for contents of any length, chunks   *)
(* of any size and any limits, what reaches consensus is a beginning of    *)
(* the contents, all of it on success, and nothing of it twice.            *)
(*                                                                         *)
(* The inductive invariant is ChunkInv.  Progress ties the ledger, the     *)
(* index and the responses to the chunk that executeAll is at, which is    *)
(* what the order of the contents rests on; Twice ties every position of   *)
(* the ledger to a chunk whose ID is used, over any number of executions.  *)
(***************************************************************************)
EXTENDS ChunkedTransaction, SequenceTheorems, TLAPS

Receipt == {"receipt", "receipt again"}
Sending == {"execute", "resubmit"}
Active == Receipt \cup Sending

Transactions ==
  [kind : Kinds, regenerate : BOOLEAN, contents : Seq(Nat), chunkSize : Nat \ {0}, ids : Seq(Nat), index : Nat]

Shape ==
  /\ tx \in Transactions
  /\ call \in [pc : Active \cup {"frozen?", "returned"}, i : Nat, chunk : Nat, run : Nat \ {0}]
  /\ list \in Seq(Nat) /\ ledger \in Seq(Nat) /\ made \in Nat /\ throttles \in Nat
  /\ IsInjective(tx.contents)
  /\ tx.ids = << >> \/ Len(tx.ids) = ChunkCount
  /\ tx.ids = << >> \/ tx.index < Len(tx.ids)
  /\ call.pc \in Active => tx.ids # << >>
  /\ call.pc \in Receipt => call.chunk \in 1..Len(tx.ids)
  /\ call.pc = "frozen?" => tx.ids = << >> /\ tx.index = 0 /\ call.i = 0 /\ list = << >> /\ ledger = << >>
  /\ call.pc # "returned" => result = "none"

\* The IDs of the chunks are different ones.
IDs ==
  /\ IsInjective(tx.ids)
  /\ \A k \in 1..Len(tx.ids) : tx.ids[k] <= made

\* In a first execution that is not throttled, the chunks before the i-th have
\* reached consensus, in order, and the index is at the one that is submitted.
Progress ==
  NotThrottled /\ Once =>
    /\ call.pc \in Active => call.i < Len(tx.ids) /\ ledger = SubSeq(tx.contents, 1, call.i * tx.chunkSize)
    /\ call.pc \in Sending => tx.index = call.i
    /\ call.pc \in Receipt => /\ call.chunk = call.i + 1
                              /\ call.i + 1 < Len(tx.ids) => tx.index = call.i + 1
    /\ call.pc = "execute" => Len(list) = call.i
    /\ call.pc \in Active \ {"execute"} => Len(list) = call.i + 1
    /\ \A k \in 1..Len(list) : list[k] = k
    /\ call.pc = "returned" => \E m \in 0..Len(tx.contents) : ledger = SubSeq(tx.contents, 1, m)
    /\ result = "ok" => ledger = tx.contents

\* Positions of chunk c of transaction t.
Part(t, c) == ((c - 1) * t.chunkSize + 1)..(c * t.chunkSize)

\* Each position on ledger l is of a chunk of t, not one of S, whose ID is in u.
Sourced(l, t, u, S) ==
  \A j \in 1..Len(l) : \E c \in 1..Len(t.ids) :
    /\ t.ids[c] \in u /\ c \notin S
    /\ \E p \in Part(t, c) \cap DOMAIN t.contents : l[j] = t.contents[p]

\* Without regeneration each position on the ledger is of a chunk whose ID is used;
\* the chunk that waits for its receipt is not on it.
Sources == Sourced(ledger, tx, used, IF call.pc \in Receipt THEN {call.chunk} ELSE {})

Twice ==
  ~ tx.regenerate =>
    /\ IsInjective(ledger)
    /\ call.pc \in Receipt => tx.ids[call.chunk] \in used
    /\ Sources

ChunkInv == Shape /\ IDs /\ Progress /\ Twice
-----------------------------------------------------------------------------
(* The chunks *)

\* The chunks cover the contents, and none is empty.
LEMMA Cover ==
  ASSUME NEW n \in Nat, NEW s \in Nat \ {0}, NEW q, q = (n + (s - 1)) \div s
  PROVE  q \in Nat /\ q * s >= n /\ \A c \in 1..q : (c - 1) * s < n
<1>1. q \in Nat /\ q * s >= n /\ q * s < n + s
  <2>1. q \in Int /\ q * s <= n + (s - 1) /\ q * s + s > n + (s - 1)
    OBVIOUS
  <2> QED
    BY <2>1
<1>2. ASSUME NEW c \in 1..q PROVE (c - 1) * s < n
  <2>1. c * s <= q * s
    BY <1>1
  <2>2. (c - 1) * s = c * s - s
    OBVIOUS
  <2>3. c * s \in Int /\ q * s \in Int
    BY <1>1
  <2> QED
    BY <1>1, <2>1, <2>2, <2>3
<1> QED
  BY <1>1, <1>2

\* A remainder, as of the index after its last advance.
LEMMA Remainder ==
  ASSUME NEW a \in Nat, NEW b \in Nat \ {0}
  PROVE  a % b \in Nat /\ a % b < b /\ (a < b => a % b = a)
OBVIOUS

\* The parts of two chunks have no position in common.
LEMMA PartsAreDisjoint ==
  ASSUME NEW s \in Nat, NEW c \in Nat, NEW d \in Nat, c < d,
         NEW p \in Int, p <= c * s, NEW r \in Int, r > (d - 1) * s
  PROVE  p # r
<1>1. c * s <= (d - 1) * s
  OBVIOUS
<1>2. c * s \in Int /\ (d - 1) * s \in Int
  OBVIOUS
<1> QED
  BY <1>1, <1>2

\* The same for the chunks in any order.
LEMMA Apart ==
  ASSUME NEW s \in Nat, NEW c \in Nat \ {0}, NEW d \in Nat \ {0}, c # d,
         NEW p \in ((c - 1) * s + 1)..(c * s), NEW r \in ((d - 1) * s + 1)..(d * s)
  PROVE  p # r
<1>1. (c - 1) * s \in Int /\ (d - 1) * s \in Int /\ c * s \in Int /\ d * s \in Int
  OBVIOUS
<1>2. p \in Int /\ r \in Int /\ p > (c - 1) * s /\ p <= c * s /\ r > (d - 1) * s /\ r <= d * s
  BY <1>1
<1> QED
  BY <1>2, PartsAreDisjoint

\* Chunk c of contents f, in chunks of s, is not empty; its last position; and what
\* it is, in itself and after what comes before it.
Filled(f, s, c) == (c - 1) * s < Len(f)
EndOf(f, s, c) == IF c * s < Len(f) THEN c * s ELSE Len(f)
Holds(f, s, c, e, slice) ==
  /\ e \in Nat /\ e <= Len(f) /\ e <= c * s /\ (c - 1) * s \in Nat
  /\ e = Len(f) \/ e = c * s
  /\ slice \in Seq(Nat) /\ Len(slice) = e - (c - 1) * s
  /\ \A k \in 1..(e - (c - 1) * s) : slice[k] = f[(c - 1) * s + k]
  /\ SubSeq(f, 1, (c - 1) * s) \o slice = SubSeq(f, 1, e)

\* What a chunk holds is the slice of the contents at its place.
LEMMA Slices ==
  ASSUME NEW f \in Seq(Nat), NEW s \in Nat \ {0}, NEW c \in Nat \ {0}, Filled(f, s, c)
  PROVE  Holds(f, s, c, EndOf(f, s, c), SubSeq(f, (c - 1) * s + 1, EndOf(f, s, c)))
<1> DEFINE e == EndOf(f, s, c)
<1> DEFINE a == (c - 1) * s
<1>1. /\ a \in Nat /\ c * s \in Nat /\ Len(f) \in Nat
      /\ c * s = a + s
  OBVIOUS
<1>2. e \in Nat /\ e <= Len(f) /\ e <= c * s /\ a <= e /\ (e = Len(f) \/ e = c * s)
  BY <1>1 DEF Filled, EndOf
<1> HIDE DEF a, e
<1>3. /\ SubSeq(f, a + 1, e) \in Seq(Nat) /\ Len(SubSeq(f, a + 1, e)) = e - a
      /\ \A k \in 1..(e - a) : SubSeq(f, a + 1, e)[k] = f[a + k]
  BY <1>1, <1>2
<1>4. SubSeq(f, 1, a) \o SubSeq(f, a + 1, e) = SubSeq(f, 1, e)
  <2>1. 1 \in 1..(Len(f) + 1) /\ a \in (1 - 1)..Len(f) /\ e \in a..Len(f)
    BY <1>1, <1>2
  <2> QED
    BY <2>1, ConcatAdjacentSubSeq
<1> QED
  BY <1>1, <1>2, <1>3, <1>4 DEF a, e, Holds

\* Where the elements of a chunk come from.
Placed(f, s, c, slice) ==
  \A k \in 1..Len(slice) :
    /\ (c - 1) * s + k \in ((c - 1) * s + 1)..(c * s)
    /\ (c - 1) * s + k \in 1..Len(f)
    /\ slice[k] = f[(c - 1) * s + k]

\* Each position of such a slice is one of the contents.
LEMMA Positions ==
  ASSUME NEW f, Len(f) \in Nat, NEW s \in Nat \ {0}, NEW c \in Nat \ {0}, NEW e, NEW slice,
         Holds(f, s, c, e, slice)
  PROVE  Placed(f, s, c, slice)
<1> SUFFICES ASSUME NEW k \in 1..Len(slice)
             PROVE  /\ (c - 1) * s + k \in ((c - 1) * s + 1)..(c * s)
                    /\ (c - 1) * s + k \in 1..Len(f)
                    /\ slice[k] = f[(c - 1) * s + k]
  BY DEF Placed
<1> DEFINE a == (c - 1) * s
<1> DEFINE b == c * s
<1>1. /\ e \in Nat /\ e <= Len(f) /\ e <= b /\ a \in Nat /\ b \in Nat /\ Len(slice) = e - a
      /\ \A j \in 1..(e - a) : slice[j] = f[a + j]
  BY DEF Holds
<1> HIDE DEF a, b
<1>2. a + k \in (a + 1)..b /\ a + k \in 1..Len(f) /\ slice[k] = f[a + k]
  BY <1>1
<1> QED
  BY <1>2 DEF a, b

\* The fields of the transaction, and its chunks.
LEMMA Fields ==
  ASSUME Shape
  PROVE  /\ tx.kind \in Kinds /\ tx.regenerate \in BOOLEAN /\ tx.contents \in Seq(Nat)
         /\ tx.chunkSize \in Nat \ {0} /\ tx.ids \in Seq(Nat) /\ tx.index \in Nat
         /\ call.pc \in Active \cup {"frozen?", "returned"} /\ call.i \in Nat /\ call.chunk \in Nat
         /\ call.run \in Nat \ {0} /\ Len(tx.ids) \in Nat /\ Len(tx.contents) \in Nat
         /\ ChunkCount \in Nat /\ ChunkCount * tx.chunkSize >= Len(tx.contents)
         /\ \A c \in 1..ChunkCount : (c - 1) * tx.chunkSize < Len(tx.contents)
<1>1. /\ tx.kind \in Kinds /\ tx.regenerate \in BOOLEAN /\ tx.contents \in Seq(Nat)
      /\ tx.chunkSize \in Nat \ {0} /\ tx.ids \in Seq(Nat) /\ tx.index \in Nat
  BY DEF Shape, Transactions
<1>2. /\ call.pc \in Active \cup {"frozen?", "returned"} /\ call.i \in Nat /\ call.chunk \in Nat
      /\ call.run \in Nat \ {0}
  BY DEF Shape
<1>3. Len(tx.ids) \in Nat /\ Len(tx.contents) \in Nat
  BY <1>1
<1>4. ChunkCount = (Len(tx.contents) + (tx.chunkSize - 1)) \div tx.chunkSize
  BY DEF ChunkCount
<1>5. /\ ChunkCount \in Nat /\ ChunkCount * tx.chunkSize >= Len(tx.contents)
      /\ \A c \in 1..ChunkCount : (c - 1) * tx.chunkSize < Len(tx.contents)
  BY <1>1, <1>3, <1>4, Cover
<1> QED
  BY <1>1, <1>2, <1>3, <1>5

\* The part of the contents that a chunk holds, and what the ledger is with it.
LEMMA Chunks ==
  ASSUME Shape, NEW c \in 1..Len(tx.ids), tx.ids # << >>
  PROVE  \E e : Holds(tx.contents, tx.chunkSize, c, e, Slice(c))
<1>1. /\ tx.contents \in Seq(Nat) /\ tx.chunkSize \in Nat \ {0} /\ c \in Nat \ {0}
      /\ Filled(tx.contents, tx.chunkSize, c)
  <2>1. Len(tx.ids) = ChunkCount
    BY DEF Shape
  <2> QED
    BY <2>1, Fields DEF Filled
<1>2. Slice(c) = SubSeq(tx.contents, (c - 1) * tx.chunkSize + 1, EndOf(tx.contents, tx.chunkSize, c))
  BY DEF Slice, EndOf
<1> QED
  BY <1>1, <1>2, Slices
-----------------------------------------------------------------------------
(* Steps of executeAll *)

\* A transaction that was not executed before.
FreshStart ==
  /\ tx \in Transactions /\ IsInjective(tx.contents) /\ tx.ids = << >> /\ tx.index = 0
  /\ call = [pc |-> "frozen?", i |-> 0, chunk |-> 0, run |-> 1]
  /\ list = << >> /\ result = "none" /\ made = 0 /\ ledger = << >> /\ throttles = 0

\* A transaction that has not been frozen satisfies the invariant.
LEMMA FreshInv == FreshStart => ChunkInv
<1> SUFFICES ASSUME FreshStart PROVE ChunkInv
  OBVIOUS
<1> USE DEF FreshStart
<1>1. call \in [pc : Active \cup {"frozen?", "returned"}, i : Nat, chunk : Nat, run : Nat \ {0}]
  OBVIOUS
<1>2. /\ call.pc = "frozen?" /\ call.i = 0 /\ "frozen?" \notin Active
      /\ << >> \in Seq(Nat) /\ Len(<< >>) = 0
  BY EmptySeq DEF Active, Receipt, Sending
<1>3. Shape
  BY <1>1, <1>2 DEF Shape, Active
<1>4. IDs /\ Progress /\ Twice
  BY <1>2 DEF IDs, Progress, Twice, Sources, Sourced, IsInjective, Active, Receipt, Sending
<1> QED
  BY <1>3, <1>4 DEF ChunkInv

\* The parts of the state that a step keeps.
LEMMA ListedIsList ==
  ASSUME Shape PROVE Listed \in Seq(Nat) /\ Len(Listed) = Len(list)
<1> DEFINE l == [list EXCEPT ![call.i + 1] = call.chunk]
<1>1. list \in Seq(Nat) /\ call.chunk \in Nat /\ Len(list) \in Nat
  BY Fields DEF Shape
<1>2. list \in [1..Len(list) -> Nat]
  BY <1>1
<1>3. l \in [1..Len(list) -> Nat]
  BY <1>1, <1>2
<1>4. l \in Seq(Nat) /\ Len(l) = Len(list)
  BY <1>1, <1>3
<1> QED
  BY <1>1, <1>4 DEF Listed

\* Execute returns without an acceptance; the ledger has what it had, or the chunk
\* that waits for its receipt in addition.
Ends(r) ==
  /\ UNCHANGED <<tx, made, used, throttles>>
  /\ call' = [call EXCEPT !.pc = "returned"] /\ result' = r
  /\ list' = list \/ (call.pc \in Receipt /\ list' = Listed)
  /\ ledger' = ledger \/ (call.pc \in Receipt /\ ledger' = ledger \o Slice(call.chunk))

\* What the ledger is with the chunk that waits.
LEMMA WithChunk ==
  ASSUME ChunkInv, call.pc \in Receipt, ledger' = ledger \o Slice(call.chunk), UNCHANGED tx
  PROVE  /\ ledger' \in Seq(Nat)
         /\ NotThrottled /\ Once =>
              \E e \in 0..Len(tx.contents) :
                /\ ledger' = SubSeq(tx.contents, 1, e)
                /\ e = Len(tx.contents) \/ e = (call.i + 1) * tx.chunkSize
                /\ e <= (call.i + 1) * tx.chunkSize
         /\ ~ tx.regenerate =>
              /\ IsInjective(ledger')
              /\ Sourced(ledger', tx, used, {})
<1> DEFINE c == call.chunk
           f == tx.contents
           s == tx.chunkSize
<1>0. /\ Shape /\ c \in 1..Len(tx.ids) /\ tx.ids # << >> /\ ledger \in Seq(Nat) /\ f \in Seq(Nat) /\ s \in Nat \ {0}
      /\ Len(f) \in Nat /\ Len(ledger) \in Nat /\ Len(tx.ids) \in Nat /\ c \in Nat /\ c >= 1
  BY Fields DEF ChunkInv, Shape, Active
<1>1. PICK e : Holds(f, s, c, e, Slice(c))
  BY <1>0, Chunks
<1>2. Slice(c) \in Seq(Nat) /\ Len(Slice(c)) \in Nat
  BY <1>1 DEF Holds
<1>3. /\ ledger' \in Seq(Nat) /\ Len(ledger') = Len(ledger) + Len(Slice(c))
      /\ \A j \in 1..(Len(ledger) + Len(Slice(c))) :
            ledger'[j] = IF j <= Len(ledger) THEN ledger[j] ELSE Slice(c)[j - Len(ledger)]
  BY <1>0, <1>2, ConcatProperties
<1>4. ASSUME NotThrottled, Once
      PROVE  \E m \in 0..Len(f) : /\ ledger' = SubSeq(f, 1, m) /\ (m = Len(f) \/ m = (call.i + 1) * s)
                                  /\ m <= (call.i + 1) * s
  <2>1. c = call.i + 1 /\ ledger = SubSeq(f, 1, call.i * s) /\ call.i \in Nat
    BY <1>0, <1>4, Fields DEF ChunkInv, Progress, Active
  <2>2. call.i = c - 1
    BY <2>1
  <2>3. ledger' = SubSeq(f, 1, e)
    BY <1>1, <2>1, <2>2 DEF Holds
  <2>4. e \in 0..Len(f) /\ (e = Len(f) \/ e = (call.i + 1) * s) /\ e <= (call.i + 1) * s
    BY <1>0, <1>1, <2>1 DEF Holds
  <2> QED
    BY <2>3, <2>4
<1>5. ASSUME ~ tx.regenerate
      PROVE  /\ IsInjective(ledger')
             /\ Sourced(ledger', tx, used, {})
  <2>0. IsInjective(ledger) /\ tx.ids[c] \in used /\ Sources /\ IsInjective(f)
    BY <1>5 DEF ChunkInv, Twice, Shape
  <2>1. ASSUME NEW j \in 1..Len(ledger'), j > Len(ledger)
        PROVE  /\ (c - 1) * s + (j - Len(ledger)) \in Part(tx, c) \cap DOMAIN f
               /\ ledger'[j] = f[(c - 1) * s + (j - Len(ledger))]
    <3> DEFINE k == j - Len(ledger)
    <3>1. j \in Nat /\ k \in 1..Len(Slice(c)) /\ ledger'[j] = Slice(c)[k]
      BY <1>0, <1>2, <1>3, <2>1
    <3> HIDE DEF k
    <3>2. /\ (c - 1) * s + k \in ((c - 1) * s + 1)..(c * s)
          /\ (c - 1) * s + k \in 1..Len(f)
          /\ Slice(c)[k] = f[(c - 1) * s + k]
      <4>1. Len(f) \in Nat /\ s \in Nat \ {0} /\ c \in Nat \ {0}
        BY <1>0
      <4>2. Placed(f, s, c, Slice(c))
        BY <1>1, <4>1, Positions
      <4> QED
        BY <3>1, <4>2 DEF Placed
    <3>5. (c - 1) * s + k \in Part(tx, c) \cap DOMAIN f
      BY <1>0, <3>2 DEF Part
    <3> QED
      BY <3>1, <3>2, <3>5 DEF k
  <2>2. ASSUME NEW j \in 1..Len(ledger'), j <= Len(ledger)
        PROVE  /\ j \in 1..Len(ledger) /\ ledger'[j] = ledger[j]
               /\ \E d \in 1..Len(tx.ids) : /\ tx.ids[d] \in used /\ d # c
                                            /\ \E p \in Part(tx, d) \cap DOMAIN f : ledger[j] = f[p]
    <3>1. j \in 1..Len(ledger) /\ ledger'[j] = ledger[j]
      BY <1>0, <1>2, <1>3, <2>2
    <3> QED
      <4>1. Sourced(ledger, tx, used, {c})
        BY <2>0 DEF Sources
      <4> QED
        BY <3>1, <4>1 DEF Sourced
  <2>3. ASSUME NEW j \in 1..Len(ledger')
        PROVE  \E d \in 1..Len(tx.ids) : /\ tx.ids[d] \in used
                                         /\ \E p \in Part(tx, d) \cap DOMAIN f : ledger'[j] = f[p]
    <3>1. CASE j <= Len(ledger)
      BY <2>2, <3>1
    <3>2. CASE j > Len(ledger)
      BY <1>0, <2>0, <2>1, <3>2
    <3> QED
      BY <1>0, <3>1, <3>2
  <2>4. ASSUME NEW j \in 1..Len(ledger'), NEW k \in 1..Len(ledger'), j <= Len(ledger), k > Len(ledger)
        PROVE  ledger'[j] # ledger'[k]
    <3>1. PICK d \in 1..Len(tx.ids) : /\ d # c
                                      /\ \E p \in Part(tx, d) \cap DOMAIN f : ledger[j] = f[p]
      BY <2>2, <2>4
    <3>2. PICK p \in Part(tx, d) \cap DOMAIN f : ledger'[j] = f[p]
      BY <2>2, <2>4, <3>1
    <3> DEFINE r == (c - 1) * s + (k - Len(ledger))
    <3>3. r \in Part(tx, c) \cap DOMAIN f /\ ledger'[k] = f[r]
      BY <2>1, <2>4
    <3> HIDE DEF r
    <3>4. p # r
      <4>1. d \in Nat \ {0} /\ c \in Nat \ {0} /\ s \in Nat /\ d # c
        <5>1. d \in Nat \ {0} /\ d # c
          BY <1>0, <3>1
        <5>2. c \in Nat \ {0} /\ s \in Nat
          BY <1>0
        <5> QED
          BY <5>1, <5>2
      <4>2. p \in ((d - 1) * s + 1)..(d * s) /\ r \in ((c - 1) * s + 1)..(c * s)
        BY <3>2, <3>3 DEF Part
      <4> QED
        BY <4>1, <4>2, Apart
    <3> QED
      BY <2>0, <3>2, <3>3, <3>4 DEF IsInjective
  <2>5. ASSUME NEW j \in 1..Len(ledger'), NEW k \in 1..Len(ledger'), ledger'[j] = ledger'[k]
        PROVE  j = k
    <3>0. j \in Nat /\ k \in Nat
      OBVIOUS
    <3>1. CASE j <= Len(ledger) /\ k <= Len(ledger)
      <4>1. j \in 1..Len(ledger) /\ k \in 1..Len(ledger) /\ ledger[j] = ledger[k]
        BY <2>2, <2>5, <3>1
      <4>2. DOMAIN ledger = 1..Len(ledger)
        BY <1>0
      <4> QED
        BY <2>0, <4>1, <4>2 DEF IsInjective
    <3>2. CASE j > Len(ledger) /\ k > Len(ledger)
      <4>1. (c - 1) * s + (j - Len(ledger)) = (c - 1) * s + (k - Len(ledger))
        BY <2>0, <2>1, <2>5, <3>2 DEF IsInjective
      <4>2. (c - 1) * s \in Nat
        BY <1>1 DEF Holds
      <4> QED
        BY <1>0, <3>0, <4>1, <4>2
    <3> QED
      BY <1>0, <2>4, <2>5, <3>0, <3>1, <3>2
  <2>6. DOMAIN ledger' = 1..Len(ledger')
    BY <1>3
  <2> QED
    BY <2>3, <2>5, <2>6 DEF IsInjective, Sourced
<1> QED
  BY <1>3, <1>4, <1>5

\* In a first execution the responses are those of the chunks, in order.
LEMMA ListedInOrder ==
  ASSUME ChunkInv, NotThrottled, Once, call.pc \in Receipt
  PROVE  \A k \in 1..Len(Listed) : Listed[k] = k
<1>1. Len(Listed) = Len(list) /\ list \in Seq(Nat) /\ call.chunk = call.i + 1 /\ \A k \in 1..Len(list) : list[k] = k
  BY ListedIsList DEF ChunkInv, Shape, Progress, Active
<1> QED
  BY <1>1 DEF Listed

\* What has reached consensus before the chunk that is submitted is a beginning.
LEMMA Beginning ==
  ASSUME ChunkInv, NotThrottled, Once, call.pc \in Active
  PROVE  /\ call.i * tx.chunkSize \in 0..Len(tx.contents)
         /\ ledger = SubSeq(tx.contents, 1, call.i * tx.chunkSize)
<1>1. Shape /\ call.i < Len(tx.ids) /\ ledger = SubSeq(tx.contents, 1, call.i * tx.chunkSize)
      /\ Len(tx.ids) = ChunkCount
  BY DEF ChunkInv, Shape, Progress
<1>2. /\ call.i \in Nat /\ tx.chunkSize \in Nat /\ Len(tx.contents) \in Nat /\ ChunkCount \in Nat
      /\ \A c \in 1..ChunkCount : (c - 1) * tx.chunkSize < Len(tx.contents)
  BY <1>1, Fields
<1>3. call.i + 1 \in 1..ChunkCount /\ (call.i + 1) - 1 = call.i
  BY <1>1, <1>2
<1>4. call.i * tx.chunkSize < Len(tx.contents) /\ call.i * tx.chunkSize \in Nat
  BY <1>2, <1>3
<1> QED
  BY <1>1, <1>2, <1>4

\* Returning an error leaves what has reached consensus.
LEMMA EndsKeep ==
  ASSUME ChunkInv, call.pc \in Active, Ends("error")
  PROVE  ChunkInv'
<1>0. Shape /\ IDs /\ Progress /\ Twice
  BY DEF ChunkInv
<1>1. /\ tx' = tx /\ made' = made /\ used' = used /\ throttles' = throttles
      /\ call'.pc = "returned" /\ call'.i = call.i /\ call'.chunk = call.chunk /\ call'.run = call.run
      /\ call' \in [pc : Active \cup {"frozen?", "returned"}, i : Nat, chunk : Nat, run : Nat \ {0}]
      /\ result' = "error"
  BY <1>0 DEF Ends, Shape
<1>2. "returned" \notin Active \cup Receipt \cup Sending \cup {"frozen?", "execute"}
  BY DEF Active, Receipt, Sending
<1>3. ledger' = ledger \/ (call.pc \in Receipt /\ ledger' = ledger \o Slice(call.chunk))
  BY DEF Ends
<1>4. list' \in Seq(Nat) /\ ledger' \in Seq(Nat)
  BY <1>0, <1>1, <1>3, ListedIsList, WithChunk DEF Ends, Shape
<1>5. Shape'
  <2>1. ChunkCount' = ChunkCount
    BY <1>1 DEF ChunkCount
  <2> QED
    BY <1>0, <1>1, <1>2, <1>4, <2>1 DEF Shape, Receipt, Active
<1>6. IDs'
  BY <1>0, <1>1 DEF IDs
<1>7. Progress'
  <2> SUFFICES ASSUME NotThrottled', Once'
               PROVE  /\ \A k \in 1..Len(list') : list'[k] = k
                      /\ \E m \in 0..Len(tx.contents) : ledger' = SubSeq(tx.contents, 1, m)
    BY <1>1, <1>2 DEF Progress
  <2>1. NotThrottled /\ Once
    BY <1>1 DEF NotThrottled, Once, Size
  <2>2. \A k \in 1..Len(list') : list'[k] = k
    BY <1>0, <2>1, ListedInOrder DEF Ends, Progress
  <2>3. \E m \in 0..Len(tx.contents) : ledger' = SubSeq(tx.contents, 1, m)
    <3>1. CASE ledger' = ledger
      BY <2>1, <3>1, Beginning
    <3>2. CASE ~ (ledger' = ledger)
      BY <1>1, <1>3, <2>1, <3>2, WithChunk
    <3> QED
      BY <3>1, <3>2
  <2> QED
    BY <2>2, <2>3
<1>8. Twice'
  <2> SUFFICES ASSUME ~ tx.regenerate
               PROVE  IsInjective(ledger') /\ Sources'
    BY <1>1, <1>2 DEF Twice
  <2>1. CASE ledger' = ledger
    <3>1. IsInjective(ledger') /\ Sourced(ledger', tx, used, {})
      BY <1>0, <2>1 DEF Twice, Sources, Sourced
    <3> QED
      BY <1>1, <1>2, <3>1 DEF Sources
  <2>2. CASE ~ (ledger' = ledger)
    <3>1. IsInjective(ledger') /\ Sourced(ledger', tx, used, {})
      BY <1>1, <1>3, <2>2, WithChunk
    <3> QED
      BY <1>1, <1>2, <3>1 DEF Sources
  <2> QED
    BY <2>1, <2>2
<1> QED
  BY <1>5, <1>6, <1>7, <1>8 DEF ChunkInv

\* A submission is accepted.
Accepts ==
  /\ call.pc \in Sending
  /\ Accepted(IF call.pc = "execute" THEN "receipt" ELSE "receipt again")
  /\ list' = IF call.pc = "execute" THEN Append(list, tx.index + 1) ELSE list
  /\ UNCHANGED <<result, made, ledger, throttles>>

\* A submission is accepted: mapResponse advances the index and the chunk waits for its receipt.
LEMMA AcceptsKeep ==
  ASSUME ChunkInv, Accepts
  PROVE  ChunkInv'
<1>0. /\ Shape /\ IDs /\ Progress /\ Twice
      /\ call.pc \in Sending /\ call.pc \in Active /\ call.pc \notin Receipt /\ tx.ids # << >>
      /\ list' = IF call.pc = "execute" THEN Append(list, tx.index + 1) ELSE list
      /\ result' = result /\ made' = made /\ ledger' = ledger /\ throttles' = throttles
      /\ result = "none"
  BY DEF ChunkInv, Accepts, Active, Sending, Receipt, Shape
<1>1. /\ tx.ids \in Seq(Nat) /\ tx.index \in Nat /\ call.i \in Nat /\ call.chunk \in Nat /\ Len(tx.ids) \in Nat
      /\ tx.index < Len(tx.ids) /\ tx.index + 1 \in Nat /\ list \in Seq(Nat) /\ Len(list) \in Nat
  <2>1. tx.ids \in Seq(Nat) /\ tx.index \in Nat /\ call.i \in Nat /\ call.chunk \in Nat /\ Len(tx.ids) \in Nat
    BY <1>0, Fields
  <2>2. tx.index < Len(tx.ids) /\ list \in Seq(Nat)
    BY <1>0 DEF Shape
  <2> QED
    BY <2>1, <2>2
<1> DEFINE n == (tx.index + 1) % Len(tx.ids)
<1>2. n \in Nat /\ n < Len(tx.ids) /\ (tx.index + 1 < Len(tx.ids) => n = tx.index + 1)
  BY <1>1, Remainder
<1>3. /\ tx.ids[tx.index + 1] \notin used
      /\ used' = used \cup {tx.ids[tx.index + 1]}
      /\ tx' = [tx EXCEPT !.index = n]
      /\ call' = [call EXCEPT !.pc = IF call.pc = "execute" THEN "receipt" ELSE "receipt again",
                              !.chunk = tx.index + 1]
  BY DEF Accepts, Accepted, Advanced
<1> HIDE DEF n
<1>4. /\ tx' \in Transactions /\ tx'.ids = tx.ids /\ tx'.contents = tx.contents /\ tx'.chunkSize = tx.chunkSize
      /\ tx'.index = n /\ tx'.regenerate = tx.regenerate
  BY <1>0, <1>2, <1>3 DEF Shape, Transactions
<1>5. /\ call'.pc = (IF call.pc = "execute" THEN "receipt" ELSE "receipt again")
      /\ call'.pc \in Receipt /\ call'.i = call.i /\ call'.chunk = tx.index + 1 /\ call'.run = call.run
      /\ call' \in [pc : Active \cup {"frozen?", "returned"}, i : Nat, chunk : Nat, run : Nat \ {0}]
  BY <1>0, <1>1, <1>3 DEF Shape, Receipt, Active
<1>6. /\ list' \in Seq(Nat) /\ Len(list') = (IF call.pc = "execute" THEN Len(list) + 1 ELSE Len(list))
      /\ call.pc = "execute" => \A k \in 1..(Len(list) + 1) :
                                  list'[k] = IF k <= Len(list) THEN list[k] ELSE tx.index + 1
  BY <1>0, <1>1
<1>7. Shape'
  <2>1. ChunkCount' = ChunkCount
    BY <1>4 DEF ChunkCount
  <2>2. call'.pc \notin {"frozen?", "returned"}
    BY <1>5 DEF Receipt
  <2>3. tx.index + 1 \in 1..Len(tx.ids)
    BY <1>1
  <2> QED
    BY <1>0, <1>2, <1>4, <1>5, <1>6, <2>1, <2>2, <2>3 DEF Shape
<1>8. IDs'
  BY <1>0, <1>4 DEF IDs
<1>9. Progress'
  <2> SUFFICES ASSUME NotThrottled', Once'
               PROVE  /\ call.i < Len(tx.ids) /\ ledger = SubSeq(tx.contents, 1, call.i * tx.chunkSize)
                      /\ tx.index + 1 = call.i + 1 /\ (call.i + 1 < Len(tx.ids) => n = call.i + 1)
                      /\ Len(list') = call.i + 1
                      /\ \A k \in 1..Len(list') : list'[k] = k
    <3>1. call'.pc \notin Sending \cup {"execute", "returned"} /\ call'.pc \in Active \ {"execute"}
      BY <1>5 DEF Receipt, Sending, Active
    <3> QED
      BY <1>0, <1>4, <1>5, <3>1 DEF Progress
  <2>1. NotThrottled /\ Once
    BY <1>0, <1>4, <1>5 DEF NotThrottled, Once, Size
  <2>2. /\ call.i < Len(tx.ids) /\ ledger = SubSeq(tx.contents, 1, call.i * tx.chunkSize)
        /\ tx.index = call.i /\ \A k \in 1..Len(list) : list[k] = k
        /\ Len(list) = IF call.pc = "execute" THEN call.i ELSE call.i + 1
    BY <1>0, <2>1 DEF Progress, Active, Sending
  <2>3. Len(list') = call.i + 1
    BY <1>6, <2>2
  <2>4. \A k \in 1..Len(list') : list'[k] = k
    <3>1. CASE call.pc = "execute"
      <4>1. ASSUME NEW k \in 1..Len(list') PROVE list'[k] = k
        <5>1. /\ Len(list) = call.i /\ tx.index = call.i /\ \A m \in 1..Len(list) : list[m] = m
          BY <2>2, <3>1
        <5>2. k \in 1..(Len(list) + 1)
          BY <1>6, <3>1
        <5>3. list'[k] = IF k <= Len(list) THEN list[k] ELSE tx.index + 1
          BY <1>6, <3>1, <5>2
        <5> QED
          BY <1>1, <5>1, <5>2, <5>3
      <4> QED
        BY <4>1
    <3>2. CASE ~ (call.pc = "execute")
      <4>1. list' = list
        BY <1>0, <3>2
      <4> QED
        BY <2>2, <4>1
    <3> QED
      BY <3>1, <3>2
  <2> QED
    BY <1>1, <1>2, <2>2, <2>3, <2>4
<1>10. Twice'
  <2> SUFFICES ASSUME ~ tx.regenerate
               PROVE  /\ IsInjective(ledger) /\ tx.ids[tx.index + 1] \in used'
                      /\ Sourced(ledger, tx', used', {tx.index + 1})
    BY <1>0, <1>4, <1>5 DEF Twice, Sources
  <2>1. IsInjective(ledger) /\ Sourced(ledger, tx, used, {})
    BY <1>0 DEF Twice, Sources
  <2>2. ASSUME NEW j \in 1..Len(ledger)
        PROVE  \E c \in 1..Len(tx.ids) :
                 /\ tx.ids[c] \in used' /\ c \notin {tx.index + 1}
                 /\ \E p \in Part(tx, c) \cap DOMAIN tx.contents : ledger[j] = tx.contents[p]
    BY <1>3, <2>1 DEF Sourced
  <2>3. \A c : Part(tx', c) = Part(tx, c)
    BY <1>4 DEF Part
  <2>4. Sourced(ledger, tx', used', {tx.index + 1})
    BY <1>4, <2>2, <2>3 DEF Sourced
  <2> QED
    BY <1>3, <2>1, <2>4
<1> QED
  BY <1>7, <1>8, <1>9, <1>10 DEF ChunkInv

\* The ID at the index is replaced by one that was never made.
LEMMA FreshIDs ==
  ASSUME Shape, IDs, tx.ids # << >>, tx' = [tx EXCEPT !.ids = Fresh(@)], made' = made + 1
  PROVE  /\ tx' \in Transactions /\ Len(tx'.ids) = Len(tx.ids) /\ tx'.ids # << >>
         /\ tx'.contents = tx.contents /\ tx'.chunkSize = tx.chunkSize
         /\ tx'.index = tx.index /\ tx'.regenerate = tx.regenerate
         /\ made' \in Nat /\ IDs'
<1> DEFINE ids == [tx.ids EXCEPT ![tx.index + 1] = made + 1]
<1>1. /\ tx.ids \in Seq(Nat) /\ tx.index \in Nat /\ Len(tx.ids) \in Nat
      /\ tx.index + 1 \in 1..Len(tx.ids) /\ made \in Nat /\ made + 1 \in Nat
  <2>1. tx.ids \in Seq(Nat) /\ tx.index \in Nat /\ Len(tx.ids) \in Nat
    BY Fields
  <2>2. tx.index < Len(tx.ids) /\ made \in Nat
    BY DEF Shape
  <2> QED
    BY <2>1, <2>2
<1>2. /\ ids \in Seq(Nat) /\ Len(ids) = Len(tx.ids)
      /\ \A k \in 1..Len(tx.ids) : ids[k] = IF k = tx.index + 1 THEN made + 1 ELSE tx.ids[k]
  BY <1>1
<1>3. ids # << >>
  BY <1>1, <1>2
<1> HIDE DEF ids
<1>4. tx' = [tx EXCEPT !.ids = ids]
  BY DEF ids, Fresh
<1>5. /\ tx' \in Transactions /\ tx'.ids = ids /\ tx'.contents = tx.contents /\ tx'.chunkSize = tx.chunkSize
      /\ tx'.index = tx.index /\ tx'.regenerate = tx.regenerate
  BY <1>2, <1>4 DEF Shape, Transactions
<1>6. ASSUME NEW k \in 1..Len(tx.ids) PROVE tx.ids[k] # made + 1 /\ tx.ids[k] <= made + 1
  <2>1. tx.ids[k] \in Nat /\ tx.ids[k] <= made
    BY <1>1 DEF IDs
  <2> QED
    BY <1>1, <2>1
<1>7. ASSUME NEW k \in 1..Len(ids) PROVE ids[k] <= made'
  <2>1. k \in 1..Len(tx.ids)
    BY <1>2
  <2>2. CASE k = tx.index + 1
    <3>1. ids[k] = made + 1
      BY <1>2, <2>1, <2>2
    <3> QED
      BY <1>1, <3>1
  <2>3. CASE ~ (k = tx.index + 1)
    <3>1. ids[k] = tx.ids[k]
      BY <1>2, <2>1, <2>3
    <3> QED
      BY <1>6, <2>1, <3>1
  <2> QED
    BY <2>2, <2>3
<1>8. IsInjective(ids)
  <2>1. DOMAIN ids = 1..Len(tx.ids) /\ DOMAIN tx.ids = 1..Len(tx.ids)
    BY <1>1, <1>2
  <2>2. ASSUME NEW a \in 1..Len(tx.ids), NEW b \in 1..Len(tx.ids), ids[a] = ids[b]
        PROVE  a = b
    <3>0. /\ ids[a] = IF a = tx.index + 1 THEN made + 1 ELSE tx.ids[a]
          /\ ids[b] = IF b = tx.index + 1 THEN made + 1 ELSE tx.ids[b]
          /\ tx.ids[a] # made + 1 /\ tx.ids[b] # made + 1
      BY <1>2, <1>6
    <3>1. CASE a = tx.index + 1
      BY <2>2, <3>0, <3>1
    <3>2. CASE b = tx.index + 1
      BY <2>2, <3>0, <3>2
    <3>3. CASE a # tx.index + 1 /\ b # tx.index + 1
      BY <2>1, <2>2, <3>0, <3>3 DEF IDs, IsInjective
    <3> QED
      BY <3>1, <3>2, <3>3
  <2> QED
    BY <2>1, <2>2 DEF IsInjective
<1>9. IDs'
  BY <1>5, <1>7, <1>8 DEF IDs
<1> QED
  BY <1>1, <1>2, <1>3, <1>5, <1>9

\* An expired ID is replaced by a fresh one.
LEMMA ExpiredKeeps ==
  ASSUME ChunkInv, Expired
  PROVE  ChunkInv'
<1>0. /\ Shape /\ IDs /\ Progress /\ call.pc \in Sending /\ tx.regenerate = TRUE
      /\ tx' = [tx EXCEPT !.ids = Fresh(@)] /\ made' = made + 1
      /\ call' = call /\ list' = list /\ result' = result /\ used' = used
      /\ ledger' = ledger /\ throttles' = throttles
  BY Fields DEF ChunkInv, Expired, Sending
<1>1. tx.ids # << >> /\ call.pc \in Active
  BY <1>0 DEF Shape, Active
<1>2. /\ tx' \in Transactions /\ Len(tx'.ids) = Len(tx.ids) /\ tx'.ids # << >>
      /\ tx'.contents = tx.contents /\ tx'.chunkSize = tx.chunkSize
      /\ tx'.index = tx.index /\ tx'.regenerate = tx.regenerate
      /\ made' \in Nat /\ IDs'
  BY <1>0, <1>1, FreshIDs
<1>3. ChunkCount' = ChunkCount
  BY <1>2 DEF ChunkCount
<1>4. Shape'
  BY <1>0, <1>1, <1>2, <1>3 DEF Shape, Sending, Receipt, Active
<1>5. Progress'
  <2>1. NotThrottled' = NotThrottled /\ Once' = Once
    BY <1>0, <1>2 DEF NotThrottled, Once, Size
  <2> QED
    BY <1>0, <1>2, <2>1 DEF Progress
<1>6. Twice'
  BY <1>0, <1>2 DEF Twice
<1> QED
  BY <1>2, <1>4, <1>5, <1>6 DEF ChunkInv

\* A throttled receipt: what is submitted again is the chunk at the index.
LEMMA ThrottledKeeps ==
  ASSUME ChunkInv, Throttled
  PROVE  ChunkInv'
<1>0. /\ Shape /\ IDs /\ Progress /\ Twice /\ call.pc \in Receipt /\ call.pc \in Active
      /\ throttles' = throttles + 1 /\ throttles' \in Nat /\ throttles' # 0
      /\ call' = [call EXCEPT !.pc = "resubmit"]
      /\ list' = list /\ result' = result /\ used' = used /\ ledger' = ledger
  <2>1. Shape /\ IDs /\ Progress /\ Twice /\ throttles \in Nat
    BY DEF ChunkInv, Shape
  <2>2. /\ call.pc \in Receipt /\ throttles' = throttles + 1
        /\ call' = [call EXCEPT !.pc = "resubmit"]
        /\ list' = list /\ result' = result /\ used' = used /\ ledger' = ledger
    BY DEF Throttled, Waiting, Receipt
  <2>3. throttles' \in Nat /\ throttles' # 0
    BY <2>1, <2>2
  <2> QED
    BY <2>1, <2>2, <2>3 DEF Active
<1>1. tx.ids # << >> /\ result = "none" /\ tx.index < Len(tx.ids)
  BY <1>0 DEF Shape, Active, Receipt
<1>2. /\ tx' \in Transactions /\ Len(tx'.ids) = Len(tx.ids) /\ tx'.ids # << >>
      /\ tx'.contents = tx.contents /\ tx'.chunkSize = tx.chunkSize
      /\ tx'.index = tx.index /\ tx'.regenerate = tx.regenerate
      /\ made' \in Nat /\ IDs'
  <2>1. CASE tx.regenerate
    BY <1>0, <1>1, <2>1, FreshIDs DEF Throttled
  <2>2. CASE ~ tx.regenerate
    <3>1. tx' = tx /\ made' = made
      BY <2>2 DEF Throttled
    <3> QED
      BY <1>0, <1>1, <3>1 DEF Shape, IDs
  <2> QED
    BY <2>1, <2>2
<1>3. ChunkCount' = ChunkCount
  BY <1>2 DEF ChunkCount
<1>4. /\ call'.pc = "resubmit" /\ call'.i = call.i /\ call'.chunk = call.chunk /\ call'.run = call.run
      /\ call' \in [pc : Active \cup {"frozen?", "returned"}, i : Nat, chunk : Nat, run : Nat \ {0}]
  BY <1>0 DEF Shape, Active, Sending
<1>5. "resubmit" \notin Receipt \cup {"execute", "frozen?", "returned"} /\ "resubmit" \in Sending
  BY DEF Receipt, Sending
<1>6. Shape'
  BY <1>0, <1>1, <1>2, <1>3, <1>4, <1>5 DEF Shape
<1>7. Progress'
  <2> SUFFICES ASSUME NotThrottled', Once'
               PROVE  /\ call.i < Len(tx.ids) /\ ledger = SubSeq(tx.contents, 1, call.i * tx.chunkSize)
                      /\ tx.index = call.i /\ Len(list) = call.i + 1
                      /\ \A k \in 1..Len(list) : list[k] = k
    BY <1>0, <1>1, <1>2, <1>4, <1>5 DEF Progress, Active
  <2>1. Len(tx.ids) <= 1 /\ NotThrottled /\ Once
    BY <1>0, <1>2, <1>4 DEF NotThrottled, Once, Size
  <2>2. /\ call.i < Len(tx.ids) /\ ledger = SubSeq(tx.contents, 1, call.i * tx.chunkSize)
        /\ Len(list) = call.i + 1 /\ \A k \in 1..Len(list) : list[k] = k
    BY <1>0, <2>1 DEF Progress, Active, Receipt
  <2>3. call.i \in Nat /\ tx.index \in Nat /\ Len(tx.ids) \in Nat
    BY <1>0, Fields
  <2>4. tx.index = call.i
    BY <1>1, <2>1, <2>2, <2>3
  <2> QED
    BY <2>2, <2>4
<1>8. Twice'
  <2> SUFFICES ASSUME ~ tx.regenerate
               PROVE  IsInjective(ledger) /\ Sourced(ledger, tx, used, {})
    <3>1. ~ tx.regenerate => tx' = tx
      BY DEF Throttled
    <3> QED
      BY <1>0, <1>2, <1>4, <1>5, <3>1 DEF Twice, Sources
  <2>1. IsInjective(ledger) /\ Sourced(ledger, tx, used, {call.chunk})
    BY <1>0 DEF Twice, Sources
  <2> QED
    BY <2>1 DEF Sourced
<1> QED
  BY <1>2, <1>6, <1>7, <1>8 DEF ChunkInv

\* A chunk reaches consensus, and executeAll goes on to the next one or returns.
LEMMA SuccessKeeps ==
  ASSUME ChunkInv, Success
  PROVE  ChunkInv'
<1>0. /\ Shape /\ IDs /\ Progress /\ Twice /\ call.pc \in Receipt /\ call.pc \in Active
      /\ tx' = tx /\ made' = made /\ used' = used /\ throttles' = throttles
      /\ ledger' = ledger \o Slice(call.chunk) /\ list' = Listed
  BY DEF ChunkInv, Success, Waiting, Receipt, Active
<1>1. tx.ids # << >> /\ result = "none" /\ Len(tx.ids) = ChunkCount
  BY <1>0 DEF Shape, Active, Receipt
<1>2. /\ call.i \in Nat /\ call.i + 1 \in Nat /\ tx.chunkSize \in Nat \ {0} /\ Len(tx.contents) \in Nat
      /\ Len(tx.ids) \in Nat /\ tx.contents \in Seq(Nat)
      /\ Len(tx.ids) * tx.chunkSize >= Len(tx.contents)
      /\ \A c \in 1..Len(tx.ids) : (c - 1) * tx.chunkSize < Len(tx.contents)
  BY <1>0, <1>1, Fields
<1>3. list' \in Seq(Nat) /\ Len(list') = Len(list) /\ ledger' \in Seq(Nat)
  BY <1>0, ListedIsList, WithChunk
<1> DEFINE more == call.i + 1 < Len(tx.ids)
<1>4. /\ more => call' = [call EXCEPT !.pc = "execute", !.i = call.i + 1] /\ result' = result
      /\ ~ more => call' = [call EXCEPT !.pc = "returned"] /\ result' = "ok"
  BY DEF Success, Size, Return
<1>5. /\ call'.pc = (IF more THEN "execute" ELSE "returned") /\ call'.chunk = call.chunk /\ call'.run = call.run
      /\ call'.i = (IF more THEN call.i + 1 ELSE call.i)
      /\ call' \in [pc : Active \cup {"frozen?", "returned"}, i : Nat, chunk : Nat, run : Nat \ {0}]
  <2>1. CASE more
    BY <1>0, <1>2, <1>4, <2>1 DEF Shape, Active, Sending
  <2>2. CASE ~ more
    BY <1>0, <1>2, <1>4, <2>2 DEF Shape
  <2> QED
    BY <2>1, <2>2
<1>6. call'.pc \notin Receipt \cup {"frozen?", "resubmit"}
  BY <1>5 DEF Receipt
<1>7. Shape'
  <2>1. ChunkCount' = ChunkCount
    BY <1>0 DEF ChunkCount
  <2>2. call'.pc # "returned" => result' = "none"
    BY <1>1, <1>4, <1>5
  <2> QED
    BY <1>0, <1>1, <1>3, <1>5, <1>6, <2>1, <2>2 DEF Shape
<1>8. IDs'
  BY <1>0 DEF IDs
<1>9. Progress'
  <2> SUFFICES ASSUME NotThrottled', Once'
               PROVE  /\ more => /\ call.i + 1 < Len(tx.ids)
                                 /\ ledger' = SubSeq(tx.contents, 1, (call.i + 1) * tx.chunkSize)
                                 /\ tx.index = call.i + 1
                                 /\ Len(list') = call.i + 1
                      /\ ~ more => ledger' = tx.contents
                      /\ \A k \in 1..Len(list') : list'[k] = k
                      /\ \E m \in 0..Len(tx.contents) : ledger' = SubSeq(tx.contents, 1, m)
    <3>1. result' = "ok" => ~ more
      BY <1>1, <1>4
    <3>2. call'.pc \in Active => call'.pc = "execute"
      BY <1>5 DEF Active, Receipt, Sending
    <3>3. CASE more
      <4>1. call'.pc = "execute" /\ call'.i = call.i + 1 /\ result' # "ok"
        BY <1>5, <3>1, <3>3
      <4>2. "execute" \notin Receipt \cup {"returned"} /\ "execute" \notin Active \ {"execute"}
        BY DEF Receipt
      <4> QED
        BY <1>0, <3>3, <4>1, <4>2 DEF Progress
    <3>4. CASE ~ more
      <4>1. call'.pc = "returned"
        BY <1>5, <3>4
      <4>2. "returned" \notin Active \cup Receipt \cup Sending \cup {"execute"}
        BY DEF Active, Receipt, Sending
      <4> QED
        BY <1>0, <3>4, <4>1, <4>2 DEF Progress
    <3> QED
      BY <3>3, <3>4
  <2>1. NotThrottled /\ Once
    BY <1>0, <1>5 DEF NotThrottled, Once, Size
  <2>2. /\ call.i < Len(tx.ids) /\ Len(list) = call.i + 1 /\ (more => tx.index = call.i + 1)
    BY <1>0, <2>1 DEF Progress, Active, Receipt
  <2>3. \A k \in 1..Len(list') : list'[k] = k
    BY <1>0, <2>1, ListedInOrder
  <2>4. PICK e \in 0..Len(tx.contents) :
          /\ ledger' = SubSeq(tx.contents, 1, e)
          /\ e = Len(tx.contents) \/ e = (call.i + 1) * tx.chunkSize
          /\ e <= (call.i + 1) * tx.chunkSize
    BY <1>0, <2>1, WithChunk
  <2> DEFINE b == (call.i + 1) * tx.chunkSize
  <2>5. b \in Nat /\ e \in Nat
    BY <1>2
  <2>6. ASSUME more PROVE e = b
    <3>1. call.i + 2 \in 1..Len(tx.ids) /\ (call.i + 2) - 1 = call.i + 1
      BY <1>2, <2>6
    <3>2. ((call.i + 2) - 1) * tx.chunkSize < Len(tx.contents)
      BY <1>2, <3>1
    <3>3. b < Len(tx.contents)
      BY <3>1, <3>2
    <3> HIDE DEF b
    <3> QED
      BY <1>2, <2>4, <2>5, <3>3 DEF b
  <2>7. ASSUME ~ more PROVE ledger' = tx.contents
    <3>1. call.i + 1 = Len(tx.ids)
      BY <1>2, <2>2, <2>7
    <3>2. b >= Len(tx.contents)
      BY <1>2, <3>1
    <3>3. e = Len(tx.contents)
      BY <1>2, <2>4, <2>5, <3>2
    <3> QED
      BY <1>2, <2>4, <3>3
  <2> QED
    BY <2>2, <2>3, <2>4, <2>6, <2>7, <1>3
<1>10. Twice'
  <2> SUFFICES ASSUME ~ tx.regenerate
               PROVE  IsInjective(ledger') /\ Sourced(ledger', tx, used, {})
    BY <1>0, <1>6 DEF Twice, Sources
  <2> QED
    BY <1>0, WithChunk
<1> QED
  BY <1>7, <1>8, <1>9, <1>10 DEF ChunkInv

\* Freezing gives every chunk an ID of its own.
LEMMA FreezeKeeps ==
  ASSUME ChunkInv, FreezeWith
  PROVE  ChunkInv'
<1>0. /\ Shape /\ IDs /\ Progress /\ Twice /\ call.pc = "frozen?" /\ tx.ids = << >> /\ tx.index = 0
      /\ call.i = 0 /\ list = << >> /\ ledger = << >> /\ result = "none" /\ made \in Nat
      /\ list' = list /\ used' = used /\ ledger' = ledger /\ throttles' = throttles
  BY DEF ChunkInv, FreezeWith, Shape
<1>1. ChunkCount \in Nat /\ tx.contents \in Seq(Nat) /\ Len(tx.contents) \in Nat
  BY <1>0, Fields
<1>2. ASSUME NEW seq, seq = << >> PROVE Len(seq) = 0 /\ seq \in Seq(Nat) /\ DOMAIN seq = {} /\ IsInjective(seq)
  BY <1>2 DEF IsInjective
<1>3. SubSeq(tx.contents, 1, 0) = << >> /\ 0 * tx.chunkSize = 0
  <2>1. tx.chunkSize \in Nat
    BY <1>0, Fields
  <2> QED
    BY <1>1, <2>1
<1> DEFINE ids == [c \in 1..ChunkCount |-> made + c]
<1>4. /\ ids \in Seq(Nat) /\ Len(ids) = ChunkCount /\ DOMAIN ids = 1..ChunkCount
      /\ \A c \in 1..ChunkCount : ids[c] = made + c
  BY <1>0, <1>1
<1> HIDE DEF ids
<1>5. ChunkCount = 0 => ids = << >>
  BY <1>4
<1>6. ids = << >> => ChunkCount = 0
  BY <1>2, <1>4
<1>7. /\ tx' \in Transactions /\ tx'.index = 0 /\ tx'.contents = tx.contents /\ tx'.chunkSize = tx.chunkSize
      /\ tx'.regenerate = tx.regenerate /\ tx'.ids \in {tx.ids, ids} /\ made' \in Nat
      /\ tx'.ids = ids => made' = made + ChunkCount \/ ids = << >>
  <2>1. CASE ChunkCount > MaxChunks
    BY <1>0, <2>1 DEF FreezeWith, Shape
  <2>2. CASE ~ (ChunkCount > MaxChunks)
    <3>1. tx' = [tx EXCEPT !.ids = ids] /\ made' = made + ChunkCount
      BY <2>2 DEF FreezeWith, ChunkIDs, ids
    <3>2. made + ChunkCount \in Nat
      BY <1>0, <1>1
    <3> QED
      BY <1>0, <1>4, <3>1, <3>2 DEF Shape, Transactions
  <2> QED
    BY <2>1, <2>2
<1>8. /\ call' \in [pc : Active \cup {"frozen?", "returned"}, i : Nat, chunk : Nat, run : Nat \ {0}]
      /\ call'.i = 0 /\ call'.run = call.run
      /\ \/ call'.pc = "execute" /\ result' = "none" /\ tx'.ids = ids /\ ids # << >>
         \/ call'.pc = "returned" /\ result' # "ok"
  <2>1. CASE ChunkCount > MaxChunks
    BY <1>0, <2>1 DEF FreezeWith, Return, Shape
  <2>2. CASE ~ (ChunkCount > MaxChunks)
    <3>1. tx'.ids = ids
      BY <1>0, <2>2 DEF FreezeWith, ChunkIDs, ids, Shape, Transactions
    <3>2. CASE ChunkCount > 0
      <4>1. call' = [call EXCEPT !.pc = "execute"] /\ result' = result
        BY <2>2, <3>2 DEF FreezeWith
      <4>2. ids # << >>
        BY <1>1, <1>6, <3>2
      <4> QED
        BY <1>0, <3>1, <4>1, <4>2 DEF Shape, Active, Sending
    <3>3. CASE ~ (ChunkCount > 0)
      BY <1>0, <2>2, <3>3 DEF FreezeWith, Return, Shape
    <3> QED
      BY <3>2, <3>3
  <2> QED
    BY <2>1, <2>2
<1>9. call'.pc \in {"execute", "returned"} /\ call'.pc \notin Receipt
  BY <1>8 DEF Receipt
<1>10. Shape'
  <2>1. ChunkCount' = ChunkCount
    BY <1>7 DEF ChunkCount
  <2>2. tx'.ids = << >> \/ Len(tx'.ids) = ChunkCount
    BY <1>0, <1>4, <1>7
  <2>3. tx'.ids = << >> \/ 0 < Len(tx'.ids)
    BY <1>0, <1>1, <1>4, <1>5, <1>7
  <2>4. call'.pc \in Active => tx'.ids # << >>
    BY <1>8 DEF Active, Receipt, Sending
  <2> QED
    BY <1>0, <1>7, <1>8, <1>9, <2>1, <2>2, <2>3, <2>4 DEF Shape
<1>11. IDs'
  <2>1. CASE tx'.ids = << >>
    BY <1>2, <2>1 DEF IDs
  <2>2. CASE tx'.ids # << >>
    <3>1. tx'.ids = ids /\ made' = made + ChunkCount
      BY <1>0, <1>7, <2>2
    <3>2. IsInjective(ids)
      BY <1>0, <1>1, <1>4 DEF IsInjective
    <3>3. \A k \in 1..Len(ids) : ids[k] <= made + ChunkCount
      BY <1>0, <1>1, <1>4
    <3> QED
      BY <3>1, <3>2, <3>3 DEF IDs
  <2> QED
    BY <2>1, <2>2
<1>12. Progress'
  <2>1. call'.pc = "execute" => 0 < Len(tx'.ids)
    BY <1>1, <1>4, <1>5, <1>8
  <2>2. Len(list') = 0 /\ (\A k \in 1..Len(list') : list'[k] = k) /\ 0 \in 0..Len(tx.contents)
    BY <1>0, <1>1, <1>2
  <2>3. call'.pc \in Active => call'.pc = "execute"
    BY <1>9 DEF Active, Receipt, Sending
  <2>4. result' # "ok"
    BY <1>8
  <2> QED
    BY <1>0, <1>3, <1>7, <1>8, <1>9, <2>1, <2>2, <2>3, <2>4 DEF Progress
<1>13. Twice'
  <2>1. IsInjective(ledger') /\ Len(ledger') = 0
    BY <1>0, <1>2
  <2> QED
    BY <1>9, <2>1 DEF Twice, Sources, Sourced
<1> QED
  BY <1>10, <1>11, <1>12, <1>13 DEF ChunkInv

\* Another execution begins where the index was left, with the IDs it has.
LEMMA AgainKeeps ==
  ASSUME ChunkInv, ExecuteAgain
  PROVE  ChunkInv'
<1>0. /\ Shape /\ IDs /\ Progress /\ Twice /\ call.pc = "returned" /\ tx.ids # << >>
      /\ call' = [pc |-> "execute", i |-> 0, chunk |-> 0, run |-> call.run + 1]
      /\ list' = << >> /\ result' = "none"
      /\ tx' = tx /\ made' = made /\ used' = used /\ ledger' = ledger /\ throttles' = throttles
  BY DEF ChunkInv, ExecuteAgain
<1>1. call.run \in Nat \ {0} /\ call.run + 1 \in Nat \ {0} /\ call.run + 1 # 1
  <2>1. call.run \in Nat \ {0}
    BY <1>0, Fields
  <2> QED
    BY <2>1
<1>2. "returned" \notin Receipt /\ "execute" \notin Receipt \cup {"frozen?", "returned"} /\ "execute" \in Active
  BY DEF Receipt, Active, Sending
<1>3. Shape'
  <2>1. ChunkCount' = ChunkCount
    BY <1>0 DEF ChunkCount
  <2> QED
    BY <1>0, <1>1, <1>2, <2>1 DEF Shape
<1>4. IDs'
  BY <1>0 DEF IDs
<1>5. Progress'
  BY <1>0, <1>1 DEF Progress, Once
<1>6. Twice'
  BY <1>0, <1>2 DEF Twice, Sources
<1> QED
  BY <1>3, <1>4, <1>5, <1>6 DEF ChunkInv

\* A step that changes nothing.
LEMMA StutterKeeps ==
  ASSUME ChunkInv, UNCHANGED vars
  PROVE  ChunkInv'
<1>1. Shape' /\ IDs'
  BY DEF ChunkInv, vars, Shape, IDs, ChunkCount
<1>2. Progress' /\ Twice'
  BY DEF ChunkInv, vars, Progress, NotThrottled, Once, Size, Twice, Sources
<1> QED
  BY <1>1, <1>2 DEF ChunkInv

\* Each step of an execution keeps the invariant.
LEMMA StepKeeps ==
  ASSUME ChunkInv, Next
  PROVE  ChunkInv'
<1>1. CASE FreezeWith
  BY <1>1, FreezeKeeps
<1>2. CASE ExecuteAgain
  BY <1>2, AgainKeeps
<1>3. CASE Submit \/ Resubmit
  <2>1. Accepts
    BY <1>3 DEF Submit, Resubmit, Accepts, Sending
  <2> QED
    BY <2>1, AcceptsKeep
<1>4. CASE Expired
  BY <1>4, ExpiredKeeps
<1>5. CASE Refuse \/ Failed \/ NoReceipt
  <2>1. call.pc \in Active /\ Ends("error")
    BY <1>5 DEF Refuse, Failed, NoReceipt, Return, Ends, Waiting, Receipt, Sending, Active
  <2> QED
    BY <2>1, EndsKeep
<1>6. CASE Success
  BY <1>6, SuccessKeeps
<1>7. CASE Throttled
  BY <1>7, ThrottledKeeps
<1>8. CASE End
  BY <1>8, StutterKeeps DEF End
<1> QED
  BY <1>1, <1>2, <1>3, <1>4, <1>5, <1>6, <1>7, <1>8 DEF Next

\* The invariant says what the properties say.
LEMMA BeginningIsPrefix ==
  ASSUME NEW f \in Seq(Nat), NEW m \in 0..Len(f)
  PROVE  IsPrefix(SubSeq(f, 1, m), f)
<1> DEFINE g == SubSeq(f, 1, m)
<1>1. g \in Seq(Nat) /\ Len(g) = m /\ \A k \in 1..m : g[k] = f[k]
  OBVIOUS
<1>2. SubSeq(g, 1, m) = g
  <2>1. /\ SubSeq(g, 1, m) \in Seq(Nat) /\ Len(SubSeq(g, 1, m)) = m
        /\ \A k \in 1..m : SubSeq(g, 1, m)[k] = g[k]
    BY <1>1
  <2> HIDE DEF g
  <2> QED
    BY <1>1, <2>1, SeqEqual
<1> QED
  BY <1>1, <1>2 DEF IsPrefix

\* The properties follow from the invariant.
LEMMA Kept ==
  ASSUME ChunkInv
  PROVE  ContentsInOrder /\ OkMeansComplete /\ NothingTwice
<1>0. Shape /\ IDs /\ Progress /\ Twice
  BY DEF ChunkInv
<1>1. tx.contents \in Seq(Nat) /\ call.pc \in Active \cup {"frozen?", "returned"} /\ Len(tx.contents) \in Nat
  BY <1>0, Fields
<1>2. ASSUME NotThrottled, Once PROVE IsPrefix(ledger, tx.contents)
  <2>1. \E m \in 0..Len(tx.contents) : ledger = SubSeq(tx.contents, 1, m)
    <3>1. CASE call.pc \in Active
      BY <1>2, <3>1, Beginning
    <3>2. CASE call.pc = "frozen?"
      BY <1>0, <1>1, <3>2 DEF Shape
    <3>3. CASE call.pc = "returned"
      BY <1>0, <1>2, <3>3 DEF Progress
    <3> QED
      BY <1>1, <3>1, <3>2, <3>3
  <2> QED
    BY <1>1, <2>1, BeginningIsPrefix
<1>3. OkMeansComplete
  <2>1. list \in Seq(Nat) /\ DOMAIN list = 1..Len(list)
    BY <1>0 DEF Shape
  <2> QED
    BY <1>0, <2>1 DEF OkMeansComplete, Progress
<1>4. NothingTwice
  BY <1>0 DEF NothingTwice, Twice, IDs
<1> QED
  BY <1>2, <1>3, <1>4 DEF ContentsInOrder

\* The invariant holds at first.
LEMMA InitInv == Init => ChunkInv
<1> SUFFICES ASSUME Init PROVE ChunkInv
  OBVIOUS
<1>1. PICK kind \in Kinds, flag \in Regenerate, n \in Lengths, s \in ChunkSizes :
        tx = [kind |-> kind, regenerate |-> flag, contents |-> [k \in 1..n |-> k],
              chunkSize |-> s, ids |-> << >>, index |-> 0]
  BY DEF Init
<1>2. n \in Nat /\ s \in Nat \ {0} /\ flag \in BOOLEAN /\ << >> \in Seq(Nat)
  BY LengthAssumption, BoundAssumption, EmptySeq
<1> DEFINE f == [k \in 1..n |-> k]
<1>3. f \in Seq(Nat) /\ IsInjective(f)
  BY <1>2 DEF IsInjective
<1> HIDE DEF f
<1>4. tx \in Transactions /\ tx.contents = f /\ tx.ids = << >> /\ tx.index = 0
  BY <1>1, <1>2, <1>3 DEF Transactions, f
<1> QED
  BY <1>3, <1>4, FreshInv DEF Init, FreshStart

\* The parts of an execution that the theorems rest on hold at all times.
THEOREM ChunksAreKept == Spec => []ChunkInv
<1>1. ChunkInv /\ [Next]_vars => ChunkInv'
  BY StepKeeps, StutterKeeps
<1> QED
  BY <1>1, InitInv, PTL DEF Spec

\* For contents of any length cut into chunks of any size: what has reached
\* consensus is a beginning of the contents at every moment of an execution that
\* was not throttled, wherever it fails.
THEOREM ChunksInOrder == Spec => []ContentsInOrder
<1>1. ChunkInv => ContentsInOrder
  BY Kept
<1> QED
  BY <1>1, ChunksAreKept, PTL

\* When Execute returns no error, all chunks have reached consensus and the
\* responses are theirs, in order.
THEOREM OkIsComplete == Spec => []OkMeansComplete
<1>1. ChunkInv => OkMeansComplete
  BY Kept
<1> QED
  BY <1>1, ChunksAreKept, PTL

\* However often a frozen transaction is executed, nothing reaches consensus twice
\* when its IDs are not regenerated, and the chunks never share an ID.
THEOREM NothingIsRepeated == Spec => []NothingTwice
<1>1. ChunkInv => NothingTwice
  BY Kept
<1> QED
  BY <1>1, ChunksAreKept, PTL
=============================================================================
