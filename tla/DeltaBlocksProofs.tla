--------------------------- MODULE DeltaBlocksProofs ---------------------------
(***************************************************************************)
(* Proofs about DeltaBlocks, for files of any length, deltas of any number  *)
(* of blocks and any number of versions: merging ends without an error, and *)
(* a merged delta patches like the two that it was made of.                 *)
(***************************************************************************)
EXTENDS DeltaBlocks, SequenceTheorems, WellFoundedInduction, TLAPS

Byte == 0..255
Bytes == Seq(Byte)
Ctrl == [add : Bytes, insert : Bytes, seek : Int]
Block == [old : Int, new : Nat, add : Bytes, insert : Bytes]

\* Where the first i blocks end in the new file.
EndOf(blocks, i) == IF i = 0 THEN 0 ELSE blocks[i].new + Size(blocks[i])

\* The blocks cover the first n bytes of the new file, one after the other.
Tiles(blocks, n) ==
  /\ blocks \in Seq(Block)
  /\ \A i \in 1..Len(blocks) : Size(blocks[i]) > 0 /\ blocks[i].new = EndOf(blocks, i - 1)
  /\ EndOf(blocks, Len(blocks)) = n

\* What a block says of the new file is so.
IsTrue(b, old, new) ==
  /\ b.new + Size(b) <= Len(new)
  /\ \A j \in 1..Len(b.add) : new[b.new + j] = (b.add[j] + ByteAt(old, b.old + j - 1)) % 256
  /\ \A j \in 1..Len(b.insert) : new[b.new + Len(b.add) + j] = b.insert[j]

\* It begins in the old file of n bytes, and adds to bytes of it only.
Fits(b, n) == b.old \in 0..n - 1 /\ b.old + Len(b.add) <= n

Leads(blocks, old, new) ==
  /\ Tiles(blocks, Len(new))
  /\ \A i \in 1..Len(blocks) : IsTrue(blocks[i], old, new) /\ Fits(blocks[i], Len(old))

\* The inductive invariant: each delta leads from its version to the next one, and
\* merges went through.
DeltaInv ==
  /\ files \in Seq(Bytes) /\ deltas \in Seq(Seq(Ctrl))
  /\ Len(files) = Len(deltas) + 1
  /\ \A i \in 1..Len(files) : files[i] # <<>>
  /\ \A i \in 1..Len(deltas) : /\ Leads(Read(deltas[i]), files[i], files[i + 1])
                               /\ Patch(files[i], deltas[i]) = files[i + 1]
  /\ spent \in Nat /\ made \in Nat
  /\ MergesGoThrough
------------------------------------------------------------------------------
(* Inductions *)

\* A set of natural numbers that is not empty has a least element.
LEMMA LeastNatural ==
  ASSUME NEW T, T \subseteq Nat, T # {}
  PROVE  \E m \in T : \A n \in T : m <= n
<1> DEFINE R == OpToRel(<, Nat)
<1>1. \A x, y \in T : <<y, x>> \in R <=> y < x
  BY DEF OpToRel
<1>2. \E x \in T : \A y \in T : ~ (<<y, x>> \in R)
  BY NatLessThanWellFounded, WFMin, Zenon
<1> HIDE DEF R
<1>3. \E x \in T : \A y \in T : ~(y < x)
  BY <1>1, <1>2
<1> QED
  BY ONLY <1>3, T \subseteq Nat

\* What holds of 0, and of n + 1 when it holds of n, holds of every number.
LEMMA SetInduction ==
  ASSUME NEW S, 0 \in S, \A n \in Nat : n \in S => n + 1 \in S
  PROVE  Nat \subseteq S
<1> SUFFICES ASSUME Nat \ S # {} PROVE FALSE
  OBVIOUS
<1>1. PICK m \in Nat \ S : \A n \in Nat \ S : m <= n
  BY LeastNatural
<1>2. m # 0 /\ m - 1 \in Nat /\ m - 1 \in S
  BY <1>1
<1> QED
  BY <1>1, <1>2

\* A function that is given by its first value and by a step from each value to the
\* next one, in which the number of the step may count.
Iterates(f, first, G, n) ==
  f[0] = first /\ \A k \in 1..n : f[k] = G[<<k, f[k - 1]>>]

\* There is one, in any set D that the step does not leave.
LEMMA Iteration ==
  ASSUME NEW D, NEW first \in D, NEW n \in Nat, NEW G \in [(1..n) \X D -> D]
  PROVE  \E f : f \in [0..n -> D] /\ Iterates(f, first, G, n)
<1> DEFINE S == {m \in Nat : m <= n => \E f : f \in [0..m -> D] /\ Iterates(f, first, G, m)}
<1>1. 0 \in S
  <2> DEFINE f == [k \in 0..0 |-> first]
  <2>1. f \in [0..0 -> D] /\ f[0] = first
    OBVIOUS
  <2>2. \A k \in 1..0 : FALSE
    OBVIOUS
  <2> HIDE DEF f
  <2> QED
    BY <2>1, <2>2 DEF Iterates
<1>2. ASSUME NEW m \in Nat, m \in S PROVE m + 1 \in S
  <2> SUFFICES ASSUME m + 1 <= n
               PROVE  \E g : g \in [0..m + 1 -> D] /\ Iterates(g, first, G, m + 1)
    OBVIOUS
  <2>1. PICK f : f \in [0..m -> D] /\ Iterates(f, first, G, m)
    BY <1>2
  <2>2. f[0] = first /\ \A k \in 1..m : f[k] = G[<<k, f[k - 1]>>]
    BY <2>1 DEF Iterates
  <2> DEFINE g == [k \in 0..m + 1 |-> IF k = m + 1 THEN G[<<m + 1, f[m]>>] ELSE f[k]]
  <2>3. G[<<m + 1, f[m]>>] \in D
    BY <2>1
  <2>4. g \in [0..m + 1 -> D] /\ g[0] = first
    BY <2>1, <2>2, <2>3
  <2>5. ASSUME NEW k \in 1..m + 1 PROVE g[k] = G[<<k, g[k - 1]>>]
    BY <2>2
  <2> HIDE DEF g
  <2> QED
    BY <2>4, <2>5 DEF Iterates
<1>3. n \in S
  <2> HIDE DEF S
  <2> QED
    BY <1>1, <1>2, SetInduction
<1> QED
  BY <1>3

\* What no step leaves holds of every value.
LEMMA LoopStays ==
  ASSUME NEW W, NEW D, NEW n \in Nat, W[0] \in D,
         \A k \in 1..n : W[k - 1] \in D => W[k] \in D
  PROVE  \A k \in 0..n : W[k] \in D
<1> DEFINE T == {k \in Nat : k <= n => W[k] \in D}
<1>1. 0 \in T
  OBVIOUS
<1>2. ASSUME NEW k \in Nat, k \in T PROVE k + 1 \in T
  <2> SUFFICES ASSUME k + 1 <= n PROVE W[k + 1] \in D
    OBVIOUS
  <2>1. k + 1 \in 1..n /\ (k + 1) - 1 = k /\ W[k] \in D
    BY <1>2
  <2> QED
    BY <2>1
<1>3. Nat \subseteq T
  <2> HIDE DEF T
  <2> QED
    BY <1>1, <1>2, SetInduction
<1> QED
  BY <1>3
------------------------------------------------------------------------------
(* Reading and patching *)

\* Adding bytes makes bytes, one for each.
LEMMA Sum8Is ==
  ASSUME NEW s \in Bytes, NEW t, \A i \in 1..Len(s) : t[i] \in Byte
  PROVE  /\ Sum8(s, t) \in Bytes /\ Len(Sum8(s, t)) = Len(s)
         /\ \A i \in 1..Len(s) : Sum8(s, t)[i] = (s[i] + t[i]) % 256
<1>1. DOMAIN s = 1..Len(s) /\ Len(s) \in Nat /\ \A i \in 1..Len(s) : s[i] \in Byte
  BY DEF Bytes
<1>2. ASSUME NEW i \in 1..Len(s) PROVE (s[i] + t[i]) % 256 \in Byte
  <2>1. \A x, y \in 0..255 : (x + y) % 256 \in 0..255
    OBVIOUS
  <2>2. s[i] \in 0..255 /\ t[i] \in 0..255
    BY <1>1 DEF Byte
  <2> QED
    BY <2>1, <2>2 DEF Byte
<1>3. Sum8(s, t) = [i \in 1..Len(s) |-> (s[i] + t[i]) % 256]
  BY <1>1 DEF Sum8
<1>4. Sum8(s, t) \in [1..Len(s) -> Byte]
  BY <1>2, <1>3
<1>5. Sum8(s, t) \in Seq(Byte) /\ Len(Sum8(s, t)) = Len(s)
  BY <1>1, <1>4
<1> QED
  BY <1>3, <1>5 DEF Bytes

\* A position holds a byte, also outside of the file.
LEMMA ByteIsByte ==
  ASSUME NEW file \in Bytes, NEW i \in Int
  PROVE  /\ ByteAt(file, i) \in Byte
         /\ 0 <= i /\ i < Len(file) => ByteAt(file, i) = file[i + 1]
<1>1. DOMAIN file = 1..Len(file) /\ Len(file) \in Nat /\ \A k \in 1..Len(file) : file[k] \in Byte
  BY DEF Bytes
<1>2. CASE i + 1 \in 1..Len(file)
  BY <1>1, <1>2 DEF ByteAt
<1>3. CASE i + 1 \notin 1..Len(file)
  <2>1. ByteAt(file, i) = 0
    BY <1>1, <1>3 DEF ByteAt
  <2>2. ~(0 <= i /\ i < Len(file))
    BY <1>1, <1>3
  <2> QED
    BY <2>1, <2>2 DEF Byte
<1> QED
  BY <1>2, <1>3

\* The size of a block or of a control.
LEMMA SizeIs ==
  ASSUME NEW b, b.add \in Bytes, b.insert \in Bytes
  PROVE  /\ Len(b.add) \in Nat /\ Len(b.insert) \in Nat /\ Size(b) \in Nat
         /\ Size(b) = Len(b.add) + Len(b.insert)
<1>1. Len(b.add) \in Nat /\ Len(b.insert) \in Nat
  BY DEF Bytes
<1>2. Size(b) = Len(b.add) + Len(b.insert)
  BY DEF Size
<1>3. \A x, y \in Nat : x + y \in Nat
  OBVIOUS
<1> QED
  BY <1>1, <1>2, <1>3

ReadState == [old : Int, new : Nat, blocks : Seq(Block)]
PatchState == [old : Int, file : Bytes]

\* A control is read to a state of readContent's locals.
LEMMA ReadControlType ==
  ASSUME NEW r \in ReadState, NEW c \in Ctrl
  PROVE  ReadControl(r, c) \in ReadState
<1> DEFINE b == [old |-> r.old, new |-> r.new, add |-> c.add, insert |-> c.insert]
<1>1. r.old \in Int /\ r.new \in Nat /\ r.blocks \in Seq(Block)
  BY DEF ReadState
<1>2. c.add \in Bytes /\ c.insert \in Bytes /\ c.seek \in Int
  BY DEF Ctrl
<1>3. b \in Block
  BY <1>1, <1>2 DEF Block
<1>4. Len(c.add) \in Nat /\ Size(c) \in Nat
  BY <1>2, SizeIs
<1> HIDE DEF b
<1>5. Append(r.blocks, b) \in Seq(Block)
  BY <1>1, <1>3, AppendProperties
<1>6. r.old + Len(c.add) + c.seek \in Int /\ r.new + Size(c) \in Nat
  BY <1>1, <1>2, <1>4
<1>7. (IF Size(c) = 0 THEN r.blocks ELSE Append(r.blocks, b)) \in Seq(Block)
  BY <1>1, <1>5
<1>8. ReadControl(r, c) = [old |-> r.old + Len(c.add) + c.seek, new |-> r.new + Size(c),
                           blocks |-> IF Size(c) = 0 THEN r.blocks ELSE Append(r.blocks, b)]
  BY DEF ReadControl, b
<1> QED
  BY <1>6, <1>7, <1>8 DEF ReadState

\* Read is a loop over the controls.
LEMMA ReadRuns ==
  ASSUME NEW delta \in Seq(Ctrl)
  PROVE  \E R \in [0..Len(delta) -> ReadState] :
           /\ R[0] = [old |-> 0, new |-> 0, blocks |-> <<>>]
           /\ \A k \in 1..Len(delta) : R[k] = ReadControl(R[k - 1], delta[k])
           /\ Read(delta) = R[Len(delta)].blocks
<1> DEFINE n == Len(delta)
           D == ReadState
           first == [old |-> 0, new |-> 0, blocks |-> <<>>]
           F(k, x) == ReadControl(x, delta[k])
           G == [a \in (1..n) \X D |-> F(a[1], a[2])]
           W == CHOOSE w : w = [k \in 0..n |-> IF k = 0 THEN first ELSE F(k, w[k - 1])]
<1>1. Read(delta) = W[n].blocks
  BY DEF Read
<1>2. n \in Nat /\ \A k \in 1..n : delta[k] \in Ctrl
  OBVIOUS
<1>3. first \in D /\ \A k \in 1..n, x \in D : F(k, x) \in D
  <2>1. <<>> \in Seq(Block)
    OBVIOUS
  <2>2. first \in D
    BY <2>1 DEF ReadState
  <2> QED
    BY <1>2, <2>2, ReadControlType
<1> HIDE DEF n, D, first, F, W
<1>4. G \in [(1..n) \X D -> D] /\ \A k \in 1..n, x \in D : G[<<k, x>>] = F(k, x)
  BY <1>3
<1> HIDE DEF G
<1>5. PICK f : f \in [0..n -> D] /\ Iterates(f, first, G, n)
  BY <1>2, <1>3, <1>4, Iteration
<1>6. f[0] = first /\ \A k \in 1..n : f[k] = F(k, f[k - 1])
  <2>1. f \in [0..n -> D] /\ f[0] = first /\ \A k \in 1..n : f[k] = G[<<k, f[k - 1]>>]
    BY <1>5 DEF Iterates
  <2>2. \A k \in 1..n : f[k - 1] \in D
    BY <1>2, <2>1
  <2> QED
    BY <1>4, <2>1, <2>2
<1>7. f = [k \in 0..n |-> IF k = 0 THEN first ELSE F(k, f[k - 1])]
  BY <1>2, <1>5, <1>6
<1>8. W = [k \in 0..n |-> IF k = 0 THEN first ELSE F(k, W[k - 1])]
  BY <1>7 DEF W
<1>9. W[0] = first /\ \A k \in 1..n : W[k] = F(k, W[k - 1])
  BY <1>2, <1>8
<1>10. \A k \in 0..n : W[k] \in D
  BY <1>2, <1>3, <1>9, LoopStays
<1>11. W \in [0..n -> D]
  BY <1>8, <1>10
<1> QED
  BY <1>1, <1>9, <1>11 DEF n, D, first, F

\* What a control appends to the patched file.
LEMMA PatchControlIs ==
  ASSUME NEW file \in Bytes, NEW r \in PatchState, NEW c \in Ctrl
  PROVE  LET q == PatchControl(file, r, c) IN
         /\ q \in PatchState /\ q.old = r.old + Len(c.add) + c.seek
         /\ Len(q.file) = Len(r.file) + Size(c)
         /\ \A j \in 1..Len(r.file) : q.file[j] = r.file[j]
         /\ \A j \in 1..Len(c.add) :
              q.file[Len(r.file) + j] = (c.add[j] + ByteAt(file, r.old + j - 1)) % 256
         /\ \A j \in 1..Len(c.insert) : q.file[Len(r.file) + Len(c.add) + j] = c.insert[j]
<1> DEFINE a == Len(c.add)
           t == [j \in DOMAIN c.add |-> ByteAt(file, r.old + j - 1)]
           s == Sum8(c.add, t)
           m == Len(r.file)
           head == r.file \o s
           whole == head \o c.insert
           q == PatchControl(file, r, c)
<1>1. r.old \in Int /\ r.file \in Bytes /\ m \in Nat
  BY DEF PatchState, Bytes
<1>2. /\ c.add \in Bytes /\ c.insert \in Bytes /\ c.seek \in Int /\ a \in Nat
      /\ Len(c.insert) \in Nat /\ Size(c) = a + Len(c.insert)
  BY SizeIs DEF Ctrl
<1>3. q.old = r.old + a + c.seek /\ q.file = whole /\ q = [old |-> q.old, file |-> q.file]
  BY DEF PatchControl
<1>4. \A j \in 1..a : t[j] = ByteAt(file, r.old + j - 1) /\ t[j] \in Byte
  <2>1. DOMAIN c.add = 1..a
    BY <1>2 DEF Bytes
  <2>2. \A j \in 1..a : t[j] = ByteAt(file, r.old + j - 1)
    BY <2>1
  <2>3. \A j \in 1..a : r.old + j - 1 \in Int
    BY <1>1, <1>2
  <2> QED
    BY <2>2, <2>3, ByteIsByte
<1> HIDE DEF t, q
<1>5. s \in Bytes /\ Len(s) = a /\ \A j \in 1..a : s[j] = (c.add[j] + t[j]) % 256
  BY <1>2, <1>4, Sum8Is
<1> HIDE DEF s
<1>6. /\ head \in Bytes /\ Len(head) = m + a
      /\ \A j \in 1..m + a : head[j] = IF j <= m THEN r.file[j] ELSE s[j - m]
  <2>1. r.file \in Seq(Byte) /\ s \in Seq(Byte)
    BY <1>1, <1>5 DEF Bytes
  <2>2. /\ head \in Seq(Byte) /\ Len(head) = m + Len(s)
        /\ \A j \in 1..m + Len(s) : head[j] = IF j <= m THEN r.file[j] ELSE s[j - m]
    BY <2>1, ConcatProperties
  <2> HIDE DEF head, m, a
  <2> QED
    BY <1>5, <2>2 DEF Bytes
<1> HIDE DEF head
<1>7. /\ whole \in Bytes /\ Len(whole) = (m + a) + Len(c.insert)
      /\ \A j \in 1..(m + a) + Len(c.insert) :
           whole[j] = IF j <= m + a THEN head[j] ELSE c.insert[j - (m + a)]
  <2>1. head \in Seq(Byte) /\ c.insert \in Seq(Byte)
    BY <1>2, <1>6 DEF Bytes
  <2>2. /\ whole \in Seq(Byte) /\ Len(whole) = Len(head) + Len(c.insert)
        /\ \A j \in 1..Len(head) + Len(c.insert) :
             whole[j] = IF j <= Len(head) THEN head[j] ELSE c.insert[j - Len(head)]
    BY <2>1, ConcatProperties
  <2> HIDE DEF whole, m, a
  <2> QED
    BY <1>6, <2>2 DEF Bytes
<1> HIDE DEF whole, m, a
<1>8. Len(whole) = m + Size(c)
  <2>1. Len(whole) = (m + a) + Len(c.insert)
    BY <1>7
  <2>2. \A v, w, z \in Nat : (v + w) + z = v + (w + z)
    OBVIOUS
  <2>3. (m + a) + Len(c.insert) = m + (a + Len(c.insert))
    BY <1>1, <1>2, <2>2
  <2>4. Size(c) = a + Len(c.insert)
    BY <1>2
  <2> QED
    BY ONLY <2>1, <2>3, <2>4
<1>9. q \in PatchState
  BY <1>1, <1>2, <1>3, <1>7 DEF PatchState
<1>10. ASSUME NEW j \in 1..m PROVE whole[j] = r.file[j]
  <2>1. \A x, y, z \in Nat : \A i \in 1..x : i \in 1..x + y /\ i \in 1..(x + y) + z /\ i <= x + y /\ i <= x
    OBVIOUS
  <2>2. j \in 1..m + a /\ j \in 1..(m + a) + Len(c.insert) /\ j <= m + a /\ j <= m
    BY ONLY <1>1, <1>2, <2>1, j \in 1..m
  <2>3. whole[j] = head[j]
    BY ONLY <1>7, <2>2
  <2>4. head[j] = r.file[j]
    BY ONLY <1>6, <2>2
  <2> QED
    BY ONLY <2>3, <2>4
<1>11. ASSUME NEW j \in 1..a PROVE whole[m + j] = (c.add[j] + ByteAt(file, r.old + j - 1)) % 256
  <2>1. \A x, y, z \in Nat : \A i \in 1..y : /\ x + i \in 1..x + y /\ x + i \in 1..(x + y) + z
                                         /\ ~(x + i <= x) /\ (x + i) - x = i /\ x + i <= x + y
    OBVIOUS
  <2>2. whole[m + j] = s[j]
    <3>1. /\ m + j \in 1..m + a /\ m + j \in 1..(m + a) + Len(c.insert)
          /\ ~(m + j <= m) /\ (m + j) - m = j /\ m + j <= m + a
      BY <1>1, <1>2, <2>1
    <3> QED
      BY <1>6, <1>7, <3>1
  <2> QED
    BY <1>4, <1>5, <2>2
<1>12. ASSUME NEW j \in 1..Len(c.insert) PROVE whole[m + a + j] = c.insert[j]
  <2>1. /\ m + a + j \in 1..(m + a) + Len(c.insert) /\ ~(m + a + j <= m + a)
        /\ (m + a + j) - (m + a) = j
    BY <1>1, <1>2
  <2> QED
    BY <1>7, <2>1
<1> QED
  BY <1>3, <1>8, <1>9, <1>10, <1>11, <1>12 DEF q, m, a

\* Patch is a loop over the controls.
LEMMA PatchRuns ==
  ASSUME NEW file \in Bytes, NEW delta \in Seq(Ctrl)
  PROVE  \E R \in [0..Len(delta) -> PatchState] :
           /\ R[0] = [old |-> 0, file |-> <<>>]
           /\ \A k \in 1..Len(delta) : R[k] = PatchControl(file, R[k - 1], delta[k])
           /\ Patch(file, delta) = R[Len(delta)].file
<1> DEFINE n == Len(delta)
           D == PatchState
           first == [old |-> 0, file |-> <<>>]
           F(k, x) == PatchControl(file, x, delta[k])
           G == [a \in (1..n) \X D |-> F(a[1], a[2])]
           W == CHOOSE w : w = [k \in 0..n |-> IF k = 0 THEN first ELSE F(k, w[k - 1])]
<1>1. Patch(file, delta) = W[n].file
  BY DEF Patch
<1>2. n \in Nat /\ \A k \in 1..n : delta[k] \in Ctrl
  OBVIOUS
<1>3. first \in D /\ \A k \in 1..n, x \in D : F(k, x) \in D
  <2>1. <<>> \in Seq(Byte)
    OBVIOUS
  <2>2. first \in D
    BY <2>1 DEF PatchState, Bytes
  <2> QED
    BY <1>2, <2>2, PatchControlIs
<1> HIDE DEF n, D, first, F, W
<1>4. G \in [(1..n) \X D -> D] /\ \A k \in 1..n, x \in D : G[<<k, x>>] = F(k, x)
  BY <1>3
<1> HIDE DEF G
<1>5. PICK f : f \in [0..n -> D] /\ Iterates(f, first, G, n)
  BY <1>2, <1>3, <1>4, Iteration
<1>6. f[0] = first /\ \A k \in 1..n : f[k] = F(k, f[k - 1])
  <2>1. f \in [0..n -> D] /\ f[0] = first /\ \A k \in 1..n : f[k] = G[<<k, f[k - 1]>>]
    BY <1>5 DEF Iterates
  <2>2. \A k \in 1..n : f[k - 1] \in D
    BY <1>2, <2>1
  <2> QED
    BY <1>4, <2>1, <2>2
<1>7. f = [k \in 0..n |-> IF k = 0 THEN first ELSE F(k, f[k - 1])]
  BY <1>2, <1>5, <1>6
<1>8. W = [k \in 0..n |-> IF k = 0 THEN first ELSE F(k, W[k - 1])]
  BY <1>7 DEF W
<1>9. W[0] = first /\ \A k \in 1..n : W[k] = F(k, W[k - 1])
  BY <1>2, <1>8
<1>10. \A k \in 0..n : W[k] \in D
  BY <1>2, <1>3, <1>9, LoopStays
<1>11. W \in [0..n -> D]
  BY <1>8, <1>10
<1> QED
  BY <1>1, <1>9, <1>11 DEF n, D, first, F
------------------------------------------------------------------------------
(* What a delta's blocks say is what patching with it makes *)

\* What holds of 0, and of k when it holds of k - 1, holds of every number up to n.
LEMMA UpTo ==
  ASSUME NEW n \in Nat, NEW T, 0 \in T, \A k \in 1..n : k - 1 \in T => k \in T
  PROVE  \A k \in 0..n : k \in T
<1> DEFINE S == {k \in Nat : k <= n => k \in T}
<1>1. 0 \in S
  OBVIOUS
<1>2. ASSUME NEW k \in Nat, k \in S PROVE k + 1 \in S
  <2> SUFFICES ASSUME k + 1 <= n PROVE k + 1 \in T
    OBVIOUS
  <2>1. k + 1 \in 1..n /\ (k + 1) - 1 = k /\ k \in T
    BY <1>2
  <2> QED
    BY <2>1
<1>3. Nat \subseteq S
  <2> HIDE DEF S
  <2> QED
    BY <1>1, <1>2, SetInduction
<1> QED
  BY <1>3

\* The parts of a block.
LEMMA BlockIs ==
  ASSUME NEW b \in Block
  PROVE  /\ b.old \in Int /\ b.new \in Nat /\ b.add \in Bytes /\ b.insert \in Bytes
         /\ Len(b.add) \in Nat /\ Len(b.insert) \in Nat /\ Size(b) \in Nat
         /\ Size(b) = Len(b.add) + Len(b.insert)
<1>1. b.old \in Int /\ b.new \in Nat /\ b.add \in Bytes /\ b.insert \in Bytes
  BY DEF Block
<1> QED
  BY <1>1, SizeIs

\* The parts of the blocks in a sequence.
LEMMA BlocksAre ==
  ASSUME NEW blocks \in Seq(Block)
  PROVE  \A i \in 1..Len(blocks) :
           /\ blocks[i] \in Block /\ blocks[i].old \in Int /\ blocks[i].new \in Nat
           /\ blocks[i].add \in Bytes /\ blocks[i].insert \in Bytes
           /\ Len(blocks[i].add) \in Nat /\ Len(blocks[i].insert) \in Nat
           /\ Size(blocks[i]) \in Nat
           /\ Size(blocks[i]) = Len(blocks[i].add) + Len(blocks[i].insert)
<1> TAKE i \in 1..Len(blocks)
<1> DEFINE b == blocks[i]
<1>1. b \in Block
  OBVIOUS
<1> HIDE DEF b
<1>2. /\ b.old \in Int /\ b.new \in Nat /\ b.add \in Bytes /\ b.insert \in Bytes
      /\ Len(b.add) \in Nat /\ Len(b.insert) \in Nat /\ Size(b) \in Nat
      /\ Size(b) = Len(b.add) + Len(b.insert)
  BY <1>1, BlockIs
<1> QED
  BY <1>1, <1>2 DEF b

\* One more block covers one more piece.
LEMMA OneMoreTile ==
  ASSUME NEW blocks, NEW n \in Nat, Tiles(blocks, n), NEW b \in Block, b.new = n, Size(b) > 0
  PROVE  LET more == Append(blocks, b) IN
         /\ Tiles(more, n + Size(b)) /\ Len(more) = Len(blocks) + 1 /\ more[Len(blocks) + 1] = b
         /\ \A i \in 1..Len(blocks) : more[i] = blocks[i]
<1> DEFINE more == Append(blocks, b)
           m == Len(blocks)
<1>1. blocks \in Seq(Block) /\ m \in Nat
  BY DEF Tiles
<1>2. /\ more \in Seq(Block) /\ Len(more) = m + 1 /\ more[m + 1] = b
      /\ \A i \in 1..m : more[i] = blocks[i]
  BY <1>1, AppendProperties
<1>3. /\ \A i \in 1..m : Size(blocks[i]) > 0 /\ blocks[i].new = EndOf(blocks, i - 1)
      /\ EndOf(blocks, m) = n
  BY DEF Tiles
<1> HIDE DEF more, m
<1>4. \A i \in 0..m : EndOf(more, i) = EndOf(blocks, i)
  BY <1>1, <1>2 DEF EndOf
<1>5. ASSUME NEW i \in 1..m + 1 PROVE Size(more[i]) > 0 /\ more[i].new = EndOf(more, i - 1)
  <2>1. CASE i = m + 1
    <3>1. i - 1 = m /\ m \in 0..m
      BY <1>1, <2>1
    <3> QED
      BY <1>2, <1>3, <1>4, <2>1, <3>1
  <2>2. CASE i # m + 1
    <3>1. i \in 1..m /\ i - 1 \in 0..m
      BY <1>1, <2>2
    <3> QED
      BY <1>2, <1>3, <1>4, <3>1
  <2> QED
    BY <2>1, <2>2
<1>6. EndOf(more, m + 1) = n + Size(b)
  <2>1. m + 1 # 0
    BY <1>1
  <2> QED
    BY <1>2, <2>1 DEF EndOf
<1>7. Tiles(more, n + Size(b))
  BY <1>2, <1>5, <1>6 DEF Tiles
<1> QED
  BY <1>2, <1>7 DEF more, m

\* What a block says of a file is also so of one that goes on.
LEMMA TrueOfMore ==
  ASSUME NEW b \in Block, NEW old, NEW g \in Bytes, NEW h \in Bytes, IsTrue(b, old, g),
         Len(g) <= Len(h), \A j \in 1..Len(g) : h[j] = g[j]
  PROVE  IsTrue(b, old, h)
<1> DEFINE a == Len(b.add)
           c == Len(b.insert)
           m == Len(g)
<1>1. b.new \in Nat /\ a \in Nat /\ c \in Nat /\ Size(b) = a + c
  BY BlockIs
<1>2. m \in Nat /\ Len(h) \in Nat
  BY DEF Bytes
<1>3. /\ b.new + Size(b) <= m
      /\ \A j \in 1..a : g[b.new + j] = (b.add[j] + ByteAt(old, b.old + j - 1)) % 256
      /\ \A j \in 1..c : g[b.new + a + j] = b.insert[j]
  BY DEF IsTrue
<1> HIDE DEF a, c, m
<1>4. b.new + Size(b) <= Len(h)
  BY <1>1, <1>2, <1>3 DEF m
<1>5. \A j \in 1..a : b.new + j \in 1..m
  BY <1>1, <1>2, <1>3
<1>6. \A j \in 1..c : b.new + a + j \in 1..m
  BY <1>1, <1>2, <1>3
<1> QED
  BY <1>3, <1>4, <1>5, <1>6 DEF IsTrue, a, c, m

\* The locals of readContent and of Patch after the same controls.
Says(file, r, p) ==
  /\ r.old = p.old /\ r.new = Len(p.file) /\ Tiles(r.blocks, r.new)
  /\ \A i \in 1..Len(r.blocks) : IsTrue(r.blocks[i], file, p.file)

\* One more control.
LEMMA SaysStays ==
  ASSUME NEW file \in Bytes, NEW r \in ReadState, NEW p \in PatchState, NEW c \in Ctrl,
         Says(file, r, p)
  PROVE  Says(file, ReadControl(r, c), PatchControl(file, p, c))
<1> DEFINE s == ReadControl(r, c)
           q == PatchControl(file, p, c)
           b == [old |-> r.old, new |-> r.new, add |-> c.add, insert |-> c.insert]
<1>1. r.old \in Int /\ r.new \in Nat /\ r.blocks \in Seq(Block) /\ Len(r.blocks) \in Nat
  BY DEF ReadState
<1>2. /\ c.add \in Bytes /\ c.insert \in Bytes /\ c.seek \in Int /\ Len(c.add) \in Nat
      /\ Len(c.insert) \in Nat /\ Size(c) \in Nat /\ Size(c) = Len(c.add) + Len(c.insert)
  BY SizeIs DEF Ctrl
<1>3. /\ q \in PatchState /\ q.old = p.old + Len(c.add) + c.seek
      /\ Len(q.file) = Len(p.file) + Size(c)
      /\ \A j \in 1..Len(p.file) : q.file[j] = p.file[j]
      /\ \A j \in 1..Len(c.add) :
           q.file[Len(p.file) + j] = (c.add[j] + ByteAt(file, p.old + j - 1)) % 256
      /\ \A j \in 1..Len(c.insert) : q.file[Len(p.file) + Len(c.add) + j] = c.insert[j]
  BY PatchControlIs
<1>4. /\ s.old = r.old + Len(c.add) + c.seek /\ s.new = r.new + Size(c)
      /\ s.blocks = IF Size(c) = 0 THEN r.blocks ELSE Append(r.blocks, b)
  BY DEF ReadControl
<1>5. /\ r.old = p.old /\ r.new = Len(p.file) /\ Tiles(r.blocks, r.new)
      /\ \A i \in 1..Len(r.blocks) : IsTrue(r.blocks[i], file, p.file)
  BY DEF Says
<1>6. p.file \in Bytes /\ q.file \in Bytes /\ Len(p.file) \in Nat
  BY <1>3 DEF PatchState, Bytes
<1>7. b \in Block /\ b.old = r.old /\ b.new = r.new /\ b.add = c.add /\ b.insert = c.insert
      /\ Size(b) = Size(c)
  BY <1>1, <1>2 DEF Block, Size
<1> HIDE DEF s, q, b
<1>8. s.old = q.old /\ s.new = Len(q.file)
  BY <1>3, <1>4, <1>5
<1>9. \A i \in 1..Len(r.blocks) : IsTrue(r.blocks[i], file, q.file)
  <2>1. Len(p.file) <= Len(q.file)
    <3>1. Len(q.file) = Len(p.file) + Size(c)
      BY <1>3
    <3>2. \A x, y \in Nat : x <= x + y
      OBVIOUS
    <3> QED
      BY <1>2, <1>6, <3>1, <3>2
  <2>2. \A i \in 1..Len(r.blocks) : r.blocks[i] \in Block
    BY <1>1
  <2> QED
    BY <1>3, <1>5, <1>6, <2>1, <2>2, TrueOfMore
<1>10. CASE Size(c) = 0
  <2>1. s.blocks = r.blocks /\ s.new = r.new
    BY <1>1, <1>4, <1>10
  <2> QED
    BY <1>5, <1>8, <1>9, <2>1 DEF Says, s, q
<1>11. CASE Size(c) # 0
  <2> DEFINE m == Len(r.blocks)
  <2>1. s.blocks = Append(r.blocks, b) /\ Size(b) > 0
    <3>1. s.blocks = Append(r.blocks, b)
      BY <1>4, <1>11
    <3>2. \A x \in Nat : x # 0 => x > 0
      OBVIOUS
    <3> QED
      BY <1>2, <1>7, <1>11, <3>1, <3>2
  <2>2. /\ Tiles(s.blocks, r.new + Size(b)) /\ Len(s.blocks) = m + 1 /\ s.blocks[m + 1] = b
        /\ \A i \in 1..m : s.blocks[i] = r.blocks[i]
    BY <1>1, <1>5, <1>7, <2>1, OneMoreTile
  <2>3. Tiles(s.blocks, s.new)
    BY <1>4, <1>7, <2>2
  <2>4. IsTrue(b, file, q.file)
    <3>1. b.new + Size(b) = Len(q.file)
      BY <1>3, <1>5, <1>7
    <3>2. \A x, y \in Nat : x + y <= x + y
      OBVIOUS
    <3>3. b.new + Size(b) <= Len(q.file)
      BY <1>2, <1>1, <1>7, <3>1, <3>2
    <3>4. b.old = p.old /\ b.new = Len(p.file)
      BY <1>5, <1>7
    <3>5. \A j \in 1..Len(b.add) :
            q.file[b.new + j] = (b.add[j] + ByteAt(file, b.old + j - 1)) % 256
      BY <1>3, <1>7, <3>4
    <3>6. \A j \in 1..Len(b.insert) : q.file[b.new + Len(b.add) + j] = b.insert[j]
      BY <1>3, <1>7, <3>4
    <3> QED
      BY <3>3, <3>5, <3>6 DEF IsTrue
  <2>5. \A i \in 1..m + 1 : i = m + 1 \/ i \in 1..m
    BY <1>1
  <2>6. \A i \in 1..Len(s.blocks) : IsTrue(s.blocks[i], file, q.file)
    BY <1>9, <2>2, <2>4, <2>5
  <2> QED
    BY <1>8, <2>3, <2>6 DEF Says, s, q
<1> QED
  BY <1>10, <1>11

\* What the blocks of a delta say is so of the patched file, all of which they cover.
LEMMA ReadSays ==
  ASSUME NEW file \in Bytes, NEW delta \in Seq(Ctrl)
  PROVE  LET p == Patch(file, delta) IN
         /\ p \in Bytes /\ Tiles(Read(delta), Len(p))
         /\ \A i \in 1..Len(Read(delta)) : IsTrue(Read(delta)[i], file, p)
<1> DEFINE n == Len(delta)
<1>1. PICK R \in [0..n -> ReadState] :
        /\ R[0] = [old |-> 0, new |-> 0, blocks |-> <<>>]
        /\ \A k \in 1..n : R[k] = ReadControl(R[k - 1], delta[k])
        /\ Read(delta) = R[n].blocks
  BY ReadRuns
<1>2. PICK P \in [0..n -> PatchState] :
        /\ P[0] = [old |-> 0, file |-> <<>>]
        /\ \A k \in 1..n : P[k] = PatchControl(file, P[k - 1], delta[k])
        /\ Patch(file, delta) = P[n].file
  BY PatchRuns
<1>3. n \in Nat /\ \A k \in 1..n : delta[k] \in Ctrl
  OBVIOUS
<1> HIDE DEF n
<1> DEFINE T == {k \in 0..n : Says(file, R[k], P[k])}
<1>4. 0 \in T
  <2>1. /\ R[0].old = 0 /\ R[0].new = 0 /\ R[0].blocks = <<>>
        /\ P[0].old = 0 /\ P[0].file = <<>>
    BY <1>1, <1>2
  <2>2. Tiles(<<>>, 0)
    BY DEF Tiles, EndOf
  <2>3. Says(file, R[0], P[0])
    BY <2>1, <2>2 DEF Says
  <2> QED
    BY <1>3, <2>3
<1>5. ASSUME NEW k \in 1..n, k - 1 \in T PROVE k \in T
  <2>1. k - 1 \in 0..n /\ k \in 0..n /\ Says(file, R[k - 1], P[k - 1])
    BY <1>5
  <2>2. Says(file, ReadControl(R[k - 1], delta[k]), PatchControl(file, P[k - 1], delta[k]))
    BY <1>3, <2>1, SaysStays
  <2> QED
    BY <1>1, <1>2, <2>1, <2>2
<1>6. n \in T
  <2> HIDE DEF T
  <2>1. \A k \in 0..n : k \in T
    BY <1>3, <1>4, <1>5, UpTo
  <2> QED
    BY <1>3, <2>1
<1>7. Says(file, R[n], P[n]) /\ P[n] \in PatchState
  BY <1>6
<1> QED
  BY <1>1, <1>2, <1>7 DEF Says, PatchState
------------------------------------------------------------------------------
(* What is written reads back *)

\* The controls that are written of blocks: a seek to the first one, if it does not
\* begin where the old file does, and one for each block.
LEMMA WriteIs ==
  ASSUME NEW blocks \in Seq(Block)
  PROVE  LET lead == IF blocks # <<>> /\ blocks[1].old # 0 THEN 1 ELSE 0 IN
         /\ Write(blocks) \in Seq(Ctrl) /\ Len(Write(blocks)) = lead + Len(blocks)
         /\ lead = 1 => Write(blocks)[1] = Control(<<>>, <<>>, blocks[1].old)
         /\ \A i \in 1..Len(blocks) :
              Write(blocks)[lead + i] =
                Control(blocks[i].add, blocks[i].insert,
                        IF i = Len(blocks) THEN 0
                        ELSE blocks[i + 1].old - blocks[i].old - Len(blocks[i].add))
<1> DEFINE m == Len(blocks)
           seek(i) == IF i = m THEN 0 ELSE blocks[i + 1].old - blocks[i].old - Len(blocks[i].add)
           c(i) == Control(blocks[i].add, blocks[i].insert, seek(i))
           body == [i \in DOMAIN blocks |-> c(i)]
           head == IF blocks # <<>> /\ blocks[1].old # 0
                   THEN <<Control(<<>>, <<>>, blocks[1].old)>> ELSE <<>>
           lead == IF blocks # <<>> /\ blocks[1].old # 0 THEN 1 ELSE 0
<1>1. Write(blocks) = head \o body
  BY DEF Write
<1>2. /\ m \in Nat /\ DOMAIN blocks = 1..m /\ \A i \in 1..m : blocks[i] \in Block
      /\ blocks # <<>> => 1 \in 1..m
  BY EmptySeq
<1>3. ASSUME NEW i \in 1..m PROVE c(i) \in Ctrl
  <2>1. /\ blocks[i].add \in Bytes /\ blocks[i].insert \in Bytes /\ blocks[i].old \in Int
        /\ Len(blocks[i].add) \in Nat
    BY BlocksAre
  <2>2. i # m => blocks[i + 1].old \in Int
    <3>1. \A x \in Nat : \A j \in 1..x : j # x => j + 1 \in 1..x
      OBVIOUS
    <3>2. m \in Nat
      BY <1>2
    <3>3. i # m => i + 1 \in 1..m
      BY <3>1, <3>2
    <3> QED
      BY <3>3, BlocksAre
  <2>3. seek(i) \in Int
    <3>1. \A x, y \in Int : \A z \in Nat : x - y - z \in Int
      OBVIOUS
    <3> QED
      BY <2>1, <2>2, <3>1
  <2> HIDE DEF seek
  <2> QED
    BY <2>1, <2>3 DEF Control, Ctrl
<1> HIDE DEF c
<1>4. body \in Seq(Ctrl) /\ Len(body) = m /\ \A i \in 1..m : body[i] = c(i)
  <2>1. body = [i \in 1..m |-> c(i)] /\ body \in [1..m -> Ctrl]
    BY <1>2, <1>3
  <2> QED
    BY <1>2, <2>1
<1>5. head \in Seq(Ctrl) /\ Len(head) = lead /\ lead \in {0, 1}
      /\ (lead = 1 => head[1] = Control(<<>>, <<>>, blocks[1].old))
  <2>1. CASE blocks # <<>> /\ blocks[1].old # 0
    <3> HIDE DEF head, body
    <3>0. 1 \in 1..m /\ <<>> \in Bytes
      BY <1>2, <2>1 DEF Bytes
    <3>1. blocks[1].old \in Int /\ <<>> \in Bytes
      BY <3>0, BlocksAre
    <3> USE DEF head
    <3>2. Control(<<>>, <<>>, blocks[1].old) \in Ctrl
      BY <3>1 DEF Control, Ctrl
    <3> QED
      BY <2>1, <3>2
  <2>2. CASE ~(blocks # <<>> /\ blocks[1].old # 0)
    BY <2>2
  <2> QED
    BY <2>1, <2>2
<1> HIDE DEF body, head
<1>6. /\ Write(blocks) \in Seq(Ctrl) /\ Len(Write(blocks)) = Len(head) + Len(body)
      /\ \A i \in 1..Len(head) + Len(body) :
           Write(blocks)[i] = IF i <= Len(head) THEN head[i] ELSE body[i - Len(head)]
  <2>1. head \in Seq(Ctrl) /\ body \in Seq(Ctrl)
    BY <1>4, <1>5
  <2> QED
    BY ONLY <1>1, <2>1, ConcatProperties
<1> HIDE DEF lead, m
<1>7. lead = 1 => Write(blocks)[1] = Control(<<>>, <<>>, blocks[1].old)
  BY <1>2, <1>4, <1>5, <1>6
<1>8. ASSUME NEW i \in 1..m PROVE Write(blocks)[lead + i] = c(i)
  <2>1. lead + i \in 1..lead + m /\ ~(lead + i <= lead) /\ (lead + i) - lead = i
    BY <1>2, <1>5
  <2> QED
    BY <1>4, <1>5, <1>6, <2>1
<1> QED
  BY <1>4, <1>5, <1>6, <1>7, <1>8 DEF m, lead, c

\* Reading the controls that were written of blocks gives the blocks.
LEMMA RoundTrip ==
  ASSUME NEW blocks, NEW n, Tiles(blocks, n)
  PROVE  Write(blocks) \in Seq(Ctrl) /\ Read(Write(blocks)) = blocks
<1> DEFINE m == Len(blocks)
           delta == Write(blocks)
           lead == IF blocks # <<>> /\ blocks[1].old # 0 THEN 1 ELSE 0
           seek(i) == IF i = m THEN 0 ELSE blocks[i + 1].old - blocks[i].old - Len(blocks[i].add)
           c(i) == Control(blocks[i].add, blocks[i].insert, seek(i))
<1>1. /\ blocks \in Seq(Block) /\ m \in Nat /\ \A i \in 1..m : blocks[i] \in Block
      /\ \A i \in 1..m : Size(blocks[i]) > 0 /\ blocks[i].new = EndOf(blocks, i - 1)
  BY DEF Tiles
<1>2. /\ delta \in Seq(Ctrl) /\ Len(delta) = lead + m
      /\ lead = 1 => delta[1] = Control(<<>>, <<>>, blocks[1].old)
      /\ \A i \in 1..m : delta[lead + i] = c(i)
  BY <1>1, WriteIs
<1>3. PICK R \in [0..Len(delta) -> ReadState] :
        /\ R[0] = [old |-> 0, new |-> 0, blocks |-> <<>>]
        /\ \A k \in 1..Len(delta) : R[k] = ReadControl(R[k - 1], delta[k])
        /\ Read(delta) = R[Len(delta)].blocks
  BY <1>2, ReadRuns
<1> DEFINE Good(i) == /\ R[lead + i].new = EndOf(blocks, i)
                      /\ i < m => R[lead + i].old = blocks[i + 1].old
                      /\ Len(R[lead + i].blocks) = i
                      /\ \A j \in 1..i : R[lead + i].blocks[j] = blocks[j]
<1>4. lead \in {0, 1} /\ (lead = 1 => m >= 1)
  BY <1>1, EmptySeq
<1>5. Good(0)
  <2>1. EndOf(blocks, 0) = 0 /\ \A j \in 1..0 : FALSE
    BY DEF EndOf
  <2>2. CASE lead = 0
    <3>1. 0 < m => blocks[0 + 1].old = 0
      BY <1>1, <2>2
    <3>2. lead + 0 = 0
      BY <2>2
    <3> HIDE DEF m, lead
    <3> QED
      BY <1>3, <2>1, <3>1, <3>2
  <2>3. CASE lead = 1
    <3>1. lead + 0 = 1 /\ 1 \in 1..Len(delta)
      BY <1>1, <1>2, <2>3
    <3>2. R[1] = ReadControl(R[0], Control(<<>>, <<>>, blocks[1].old))
      BY <1>2, <1>3, <2>3, <3>1
    <3>3. blocks[1].old \in Int
      <4>1. 1 \in 1..m
        BY <1>1, <1>4, <2>3
      <4> QED
        BY <1>1, <4>1, BlocksAre
    <3>4. R[1].new = 0 /\ R[1].blocks = <<>> /\ R[1].old = blocks[1].old
      BY <1>3, <3>2, <3>3 DEF ReadControl, Control, Size
    <3> HIDE DEF m, lead
    <3> QED
      BY <2>1, <3>1, <3>4
  <2> QED
    BY <1>4, <2>2, <2>3
<1> HIDE DEF delta, lead, m
<1>6. ASSUME NEW i \in 1..m, Good(i - 1) PROVE Good(i)
  <2> DEFINE b == blocks[i]
             r == R[lead + (i - 1)]
             s == R[lead + i]
             x == [old |-> r.old, new |-> r.new, add |-> b.add, insert |-> b.insert]
  <2>1. /\ lead + i \in 1..Len(delta) /\ (lead + i) - 1 = lead + (i - 1)
        /\ lead + (i - 1) \in 0..Len(delta) /\ i - 1 < m /\ (i - 1) + 1 = i
    BY <1>1, <1>2, <1>4
  <2>2. s = ReadControl(r, c(i)) /\ r \in ReadState
    BY <1>2, <1>3, <2>1
  <2>3. b \in Block /\ Size(b) > 0 /\ b.new = EndOf(blocks, i - 1)
    BY <1>1
  <2>4. r.new = b.new /\ r.old = b.old /\ Len(r.blocks) = i - 1
        /\ \A j \in 1..i - 1 : r.blocks[j] = blocks[j]
    BY <1>6, <2>1, <2>3
  <2>5. x = b
    BY <2>3, <2>4 DEF Block
  <2>6. c(i).add = b.add /\ c(i).insert = b.insert /\ c(i).seek = seek(i) /\ Size(c(i)) = Size(b)
    BY DEF Control, Size
  <2> HIDE DEF c
  <2>7. /\ s.old = r.old + Len(c(i).add) + c(i).seek /\ s.new = r.new + Size(c(i))
        /\ s.blocks = IF Size(c(i)) = 0 THEN r.blocks
                      ELSE Append(r.blocks, [old |-> r.old, new |-> r.new, add |-> c(i).add,
                                             insert |-> c(i).insert])
    BY <2>2 DEF ReadControl
  <2>8. s.old = b.old + Len(b.add) + seek(i) /\ s.new = b.new + Size(b)
    BY <2>4, <2>6, <2>7
  <2>9. s.blocks = Append(r.blocks, b)
    <3>1. Size(c(i)) # 0
      BY <2>3, <2>6
    <3> QED
      BY <2>5, <2>6, <2>7, <3>1
  <2>10. r.blocks \in Seq(Block)
    BY <2>2 DEF ReadState
  <2> HIDE DEF r, s, x
  <2>11. Len(s.blocks) = i /\ \A j \in 1..i : s.blocks[j] = blocks[j]
    <3>1. /\ Len(s.blocks) = (i - 1) + 1 /\ s.blocks[(i - 1) + 1] = b
          /\ \A j \in 1..i - 1 : s.blocks[j] = r.blocks[j]
      BY <2>3, <2>4, <2>9, <2>10, AppendProperties
    <3>2. \A j \in 1..i : j = i \/ j \in 1..i - 1
      OBVIOUS
    <3> QED
      BY <2>1, <2>4, <3>1, <3>2
  <2>12. s.new = EndOf(blocks, i)
    BY <2>8 DEF EndOf
  <2>13. i < m => s.old = blocks[i + 1].old
    <3> SUFFICES ASSUME i < m PROVE s.old = blocks[i + 1].old
      OBVIOUS
    <3>1. i + 1 \in 1..m /\ i # m
      BY <1>1
    <3>2. seek(i) = blocks[i + 1].old - b.old - Len(b.add)
      BY <3>1
    <3>3. b.old \in Int /\ Len(b.add) \in Nat /\ blocks[i + 1].old \in Int
      BY <1>1, <3>1, BlocksAre DEF m
    <3>4. \A u, w \in Int : \A v \in Nat : u + v + (w - u - v) = w
      OBVIOUS
    <3> HIDE DEF seek
    <3> QED
      BY <2>8, <3>2, <3>3, <3>4
  <2> QED
    BY <2>11, <2>12, <2>13 DEF s
<1>7. Good(m)
  <2> DEFINE T == {i \in 0..m : Good(i)}
  <2>1. 0 \in T
    BY <1>1, <1>5
  <2>2. ASSUME NEW i \in 1..m, i - 1 \in T PROVE i \in T
    <3>1. Good(i - 1) /\ i \in 0..m
      BY <2>2
    <3> HIDE DEF Good
    <3>2. Good(i)
      BY <1>6, <3>1
    <3> QED
      BY <3>1, <3>2
  <2>3. m \in 0..m
    BY <1>1
  <2> HIDE DEF T
  <2>4. m \in T
    BY <1>1, <2>1, <2>2, <2>3, UpTo
  <2> QED
    BY <2>4 DEF T
<1>8. Read(delta) \in Seq(Block) /\ Len(Read(delta)) = m
      /\ \A j \in 1..m : Read(delta)[j] = blocks[j]
  <2>1. lead + m \in 0..Len(delta)
    BY <1>1, <1>2, <1>4
  <2>2. R[lead + m].blocks \in Seq(Block)
    BY <1>3, <2>1 DEF ReadState
  <2> QED
    BY <1>2, <1>3, <1>7, <2>2
<1>9. Read(delta) = blocks
  BY <1>1, <1>8, SeqEqual DEF m
<1> QED
  BY <1>2, <1>9 DEF delta
------------------------------------------------------------------------------
(* Finding a block *)

\* Blocks end in their order.
LEMMA TilesOrder ==
  ASSUME NEW blocks, NEW n, Tiles(blocks, n)
  PROVE  /\ \A j \in 0..Len(blocks) : EndOf(blocks, j) \in Nat
         /\ \A j \in 0..Len(blocks) : \A i \in 0..j : EndOf(blocks, i) <= EndOf(blocks, j)
<1> DEFINE m == Len(blocks)
           E(i) == EndOf(blocks, i)
<1>1. blocks \in Seq(Block) /\ m \in Nat /\ \A i \in 1..m : blocks[i].new = E(i - 1)
  BY DEF Tiles
<1>2. E(0) = 0 /\ \A i \in 1..m : E(i) = E(i - 1) + Size(blocks[i])
  <2>1. \A i \in 1..m : i # 0
    OBVIOUS
  <2> QED
    BY <1>1, <2>1 DEF EndOf
<1>3. \A i \in 1..m : Size(blocks[i]) \in Nat
  BY <1>1, BlocksAre
<1> HIDE DEF m, E
<1> DEFINE T == {j \in 0..m : E(j) \in Nat /\ \A i \in 0..j : E(i) \in Nat /\ E(i) <= E(j)}
<1>4. 0 \in T
  <2>1. \A i \in 0..0 : i = 0
    OBVIOUS
  <2> QED
    BY <1>1, <1>2, <2>1
<1>5. ASSUME NEW j \in 1..m, j - 1 \in T PROVE j \in T
  <2>1. j \in 0..m /\ E(j - 1) \in Nat /\ \A i \in 0..j - 1 : E(i) \in Nat /\ E(i) <= E(j - 1)
    BY <1>5
  <2>2. \A i \in 0..j : i = j \/ i \in 0..j - 1
    OBVIOUS
  <2>3. E(j) = E(j - 1) + Size(blocks[j]) /\ Size(blocks[j]) \in Nat
    BY <1>2, <1>3
  <2>4. \A x, y \in Nat : x + y \in Nat /\ x <= x + y
    OBVIOUS
  <2>5. E(j) \in Nat /\ E(j - 1) <= E(j)
    BY <2>1, <2>3, <2>4
  <2>6. ASSUME NEW i \in 0..j PROVE E(i) \in Nat /\ E(i) <= E(j)
    <3>1. CASE i = j
      BY <2>5, <3>1
    <3>2. CASE i \in 0..j - 1
      <4>1. E(i) \in Nat /\ E(i) <= E(j - 1)
        BY <2>1, <3>2
      <4> QED
        BY <2>1, <2>5, <4>1
    <3> QED
      BY <2>2, <3>1, <3>2
  <2> QED
    BY <2>1, <2>5, <2>6
<1>6. \A j \in 0..m : j \in T
  <2> HIDE DEF T
  <2> QED
    BY <1>1, <1>4, <1>5, UpTo
<1> QED
  BY <1>6 DEF m, E

\* Each position is in some block.
LEMMA SomeHolds ==
  ASSUME NEW blocks, NEW n, Tiles(blocks, n), NEW pos \in Nat, pos < n
  PROVE  \E w \in 1..Len(blocks) : Holds(blocks[w], pos)
<1> DEFINE m == Len(blocks)
           T == {i \in 0..m : pos < EndOf(blocks, i) => \E w \in 1..m : Holds(blocks[w], pos)}
<1>1. /\ blocks \in Seq(Block) /\ m \in Nat /\ EndOf(blocks, m) = n
      /\ \A i \in 1..m : blocks[i].new = EndOf(blocks, i - 1)
  BY DEF Tiles
<1>2. 0 \in T
  BY <1>1 DEF EndOf
<1>3. ASSUME NEW i \in 1..m, i - 1 \in T PROVE i \in T
  <2>1. i \in 0..m /\ i - 1 \in 0..m
    BY <1>1
  <2>2. CASE pos < EndOf(blocks, i - 1)
    BY <1>3, <2>1, <2>2
  <2>3. CASE ~(pos < EndOf(blocks, i - 1))
    <3> SUFFICES ASSUME pos < EndOf(blocks, i) PROVE Holds(blocks[i], pos)
      BY <2>1
    <3>1. EndOf(blocks, i - 1) \in Nat
      BY <2>1, TilesOrder
    <3>2. blocks[i].new <= pos
      BY <1>1, <2>3, <3>1
    <3>3. i # 0
      OBVIOUS
    <3>4. EndOf(blocks, i) = blocks[i].new + Size(blocks[i])
      BY <3>3 DEF EndOf
    <3> QED
      BY <3>2, <3>4 DEF Holds
  <2> QED
    BY <2>2, <2>3
<1>4. m \in T
  <2>1. m \in 0..m
    BY <1>1
  <2> HIDE DEF T, m
  <2> QED
    BY <1>1, <1>2, <1>3, <2>1, UpTo
<1>5. pos < EndOf(blocks, m)
  BY <1>1
<1> QED
  BY <1>4, <1>5

\* One step of the bisection keeps the block that is looked for, w, in the range, and
\* makes the range smaller as long as it was not met.
LEMMA NarrowedKeeps ==
  ASSUME NEW blocks, NEW n, Tiles(blocks, n), NEW pos \in Nat,
         NEW w \in 1..Len(blocks), Holds(blocks[w], pos),
         NEW low \in Nat, NEW high \in Nat, low <= w - 1, w - 1 < high, high <= Len(blocks)
  PROVE  LET r == <<low, high>>
             s == Narrowed(pos, blocks, r) IN
         /\ Middle(r) \in 1..Len(blocks)
         /\ Holds(blocks[Middle(r)], pos) => s = r
         /\ ~Holds(blocks[Middle(r)], pos) =>
              \E a, b \in Nat : /\ s = <<a, b>> /\ a <= w - 1 /\ w - 1 < b
                                /\ b <= Len(blocks) /\ b - a < high - low
<1> DEFINE m == Len(blocks)
           r == <<low, high>>
           s == Narrowed(pos, blocks, r)
           c == (low + high) \div 2
           E(i) == EndOf(blocks, i)
<1>1. blocks \in Seq(Block) /\ m \in Nat /\ \A i \in 1..m : blocks[i].new = E(i - 1)
  BY DEF Tiles
<1>2. Middle(r) = c + 1
  BY DEF Middle
<1>3. c \in Nat /\ low <= c /\ c < high /\ (low + 1 < high => low < c)
  <2>1. \A x, y \in Nat : x < y => /\ (x + y) \div 2 \in Nat /\ x <= (x + y) \div 2
                                   /\ (x + y) \div 2 < y
                                   /\ (x + 1 < y => x < (x + y) \div 2)
    OBVIOUS
  <2>2. low < high
    BY <1>1
  <2> QED
    BY <2>1, <2>2
<1> HIDE DEF c, m
<1>4. c + 1 \in 1..m
  BY <1>1, <1>3 DEF m
<1>5. s = IF Holds(blocks[c + 1], pos) \/ low = high THEN r
          ELSE IF pos < blocks[c + 1].new THEN <<low, c>> ELSE <<c, high>>
  <2>1. ~(c + 1 > m) /\ (c + 1) - 1 = c
    BY <1>1, <1>3, <1>4
  <2> QED
    BY <1>2, <2>1 DEF Narrowed, m
<1>6. low # high
  BY <1>1, <1>3
<1> HIDE DEF s, r
<1>7. ASSUME ~Holds(blocks[c + 1], pos)
      PROVE  \E a, b \in Nat : /\ s = <<a, b>> /\ a <= w - 1 /\ w - 1 < b
                               /\ b <= m /\ b - a < high - low
  <2>1. /\ \A i \in 1..m : E(i) = blocks[i].new + Size(blocks[i])
        /\ \A i \in 0..m : E(i) \in Nat
        /\ \A j \in 0..m : \A i \in 0..j : E(i) <= E(j)
    <3>1. \A i \in 1..m : i # 0
      OBVIOUS
    <3> QED
      BY <3>1, TilesOrder DEF EndOf, m
  <2>2. w \in 1..m /\ blocks[w].new <= pos /\ pos < E(w)
    BY <2>1 DEF Holds, m
  <2>3. blocks[w].new = E(w - 1) /\ blocks[c + 1].new = E(c)
    <3>1. (c + 1) - 1 = c
      BY <1>3
    <3> QED
      BY <1>1, <1>4, <2>2, <3>1
  <2>4. w # c + 1
    BY <1>7
  <2>5. c \in 0..m /\ w - 1 \in 0..m /\ w \in 0..m /\ c + 1 \in 0..m
    BY <1>1, <1>3, <1>4, <2>2
  <2>6. E(c) \in Nat /\ E(c + 1) \in Nat /\ E(w) \in Nat /\ E(w - 1) \in Nat
    BY <2>1, <2>5
  <2>7. CASE pos < blocks[c + 1].new
    <3>1. w - 1 < c
      <4> SUFFICES ASSUME c < w PROVE FALSE
        BY <2>2, <1>3
      <4>1. c \in 0..w - 1
        BY <1>3, <2>2
      <4>2. E(c) <= E(w - 1)
        BY <2>1, <2>5, <4>1
      <4> QED
        BY <2>2, <2>3, <2>6, <2>7, <4>2
    <3>2. s = <<low, c>>
      BY <1>5, <1>6, <1>7, <2>7
    <3>3. c <= m /\ c - low < high - low
      BY <1>1, <1>3, <1>4
    <3> QED
      BY <1>3, <3>1, <3>2, <3>3
  <2>8. CASE ~(pos < blocks[c + 1].new)
    <3>1. E(c + 1) <= pos
      <4>1. E(c + 1) = blocks[c + 1].new + Size(blocks[c + 1])
        BY <1>4, <2>1
      <4>2. blocks[c + 1].new <= pos
        BY <2>3, <2>6, <2>8
      <4> QED
        BY <1>7, <2>6, <4>1, <4>2 DEF Holds
    <3>2. c < w - 1
      <4> SUFFICES ASSUME w <= c + 1 PROVE FALSE
        BY <2>2, <1>3
      <4>1. w \in 0..c + 1
        BY <1>3, <2>2
      <4>2. E(w) <= E(c + 1)
        BY <2>1, <2>5, <4>1
      <4> QED
        BY <2>2, <2>6, <3>1, <4>2
    <3>3. s = <<c, high>>
      BY <1>5, <1>6, <1>7, <2>8
    <3>4. low < c
      BY <1>3, <2>2, <3>2
    <3>5. high <= m /\ high - c < high - low /\ c <= w - 1
      BY <1>3, <2>2, <3>2, <3>4 DEF m
    <3> QED
      BY <1>3, <3>3, <3>5
  <2> QED
    BY <2>7, <2>8
<1> QED
  BY <1>2, <1>4, <1>5, <1>7 DEF m, s, r

\* The bisection finds the block that a position is in.
LEMMA GetBlockFinds ==
  ASSUME NEW blocks, NEW size, Tiles(blocks, size), NEW pos \in Nat, pos < size
  PROVE  GetBlock(pos, blocks) \in 1..Len(blocks) /\ Holds(blocks[GetBlock(pos, blocks)], pos)
<1> DEFINE m == Len(blocks)
           n == 2 * m
           D == Nat \X Nat
           first == <<0, m>>
           F(k, x) == Narrowed(pos, blocks, x)
           G == [a \in (1..n) \X D |-> F(a[1], a[2])]
           W == CHOOSE w : w = [k \in 0..n |-> IF k = 0 THEN first ELSE F(k, w[k - 1])]
<1>1. GetBlock(pos, blocks) = IF Middle(W[n]) > m THEN -1
                              ELSE IF Holds(blocks[Middle(W[n])], pos) THEN Middle(W[n])
                              ELSE IF W[n][1] = W[n][2] THEN 0 ELSE -1
  BY DEF GetBlock
<1>2. m \in Nat /\ n \in Nat
  BY DEF Tiles
<1>3. first \in D /\ \A k \in 1..n, x \in D : F(k, x) \in D
  <2>1. ASSUME NEW x \in D PROVE Narrowed(pos, blocks, x) \in D
    <3>1. x[1] \in Nat /\ x[2] \in Nat
      OBVIOUS
    <3>2. \A y, z \in Nat : ((y + z) \div 2 + 1) - 1 \in Nat
      OBVIOUS
    <3>3. Middle(x) - 1 \in Nat
      BY <3>1, <3>2 DEF Middle
    <3> QED
      BY <3>1, <3>3 DEF Narrowed
  <2> QED
    BY <1>2, <2>1
<1>4. PICK w \in 1..m : Holds(blocks[w], pos)
  BY SomeHolds
<1> HIDE DEF n, D, first, F, W
<1>5. G \in [(1..n) \X D -> D] /\ \A k \in 1..n, x \in D : G[<<k, x>>] = F(k, x)
  BY <1>3
<1> HIDE DEF G
<1>6. PICK f : f \in [0..n -> D] /\ Iterates(f, first, G, n)
  BY <1>2, <1>3, <1>5, Iteration
<1>7. f[0] = first /\ \A k \in 1..n : f[k] = F(k, f[k - 1])
  <2>1. f \in [0..n -> D] /\ f[0] = first /\ \A k \in 1..n : f[k] = G[<<k, f[k - 1]>>]
    BY <1>6 DEF Iterates
  <2>2. \A k \in 1..n : f[k - 1] \in D
    BY <1>2, <2>1
  <2> QED
    BY <1>5, <2>1, <2>2
<1>8. f = [k \in 0..n |-> IF k = 0 THEN first ELSE F(k, f[k - 1])]
  BY <1>2, <1>6, <1>7
<1>9. W = [k \in 0..n |-> IF k = 0 THEN first ELSE F(k, W[k - 1])]
  BY <1>8 DEF W
<1>10. W[0] = <<0, m>> /\ \A k \in 1..n : W[k] = Narrowed(pos, blocks, W[k - 1])
  <2>1. W[0] = first
    BY <1>2, <1>9
  <2>2. \A k \in 1..n : W[k] = F(k, W[k - 1])
    BY <1>2, <1>9
  <2> QED
    BY <2>1, <2>2 DEF first, F
<1> DEFINE Good(k) == \E a, b \in Nat : /\ W[k] = <<a, b>> /\ a <= w - 1 /\ w - 1 < b /\ b <= m
                                        /\ Holds(blocks[Middle(W[k])], pos) \/ b - a <= m - k
           T == {k \in 0..n : Good(k)}
<1>11. 0 \in T
  <2>1. W[0] = <<0, m>> /\ 0 \in Nat /\ m \in Nat /\ 0 <= w - 1 /\ w - 1 < m /\ m <= m
        /\ m - 0 <= m - 0 /\ 0 \in 0..n
    BY <1>2, <1>10
  <2> QED
    BY <2>1
<1>12. ASSUME NEW k \in 1..n, k - 1 \in T PROVE k \in T
  <2>1. PICK a, b \in Nat : /\ W[k - 1] = <<a, b>> /\ a <= w - 1 /\ w - 1 < b /\ b <= m
                            /\ Holds(blocks[Middle(W[k - 1])], pos) \/ b - a <= m - (k - 1)
    BY <1>12
  <2> DEFINE r == <<a, b>>
             s == Narrowed(pos, blocks, r)
  <2>2. /\ Holds(blocks[Middle(r)], pos) => s = r
        /\ ~Holds(blocks[Middle(r)], pos) =>
             \E c, d \in Nat : s = <<c, d>> /\ c <= w - 1 /\ w - 1 < d /\ d <= m /\ d - c < b - a
    <3>1. a <= w - 1 /\ w - 1 < b /\ b <= m
      BY <2>1
    <3> QED
      BY <1>4, <3>1, NarrowedKeeps
  <2>3. W[k - 1] = r /\ W[k] = s
    BY <1>10, <2>1
  <2> HIDE DEF s
  <2>4. CASE Holds(blocks[Middle(r)], pos)
    <3>1. W[k] = <<a, b>> /\ Holds(blocks[Middle(W[k])], pos)
      BY <2>2, <2>3, <2>4
    <3>2. a <= w - 1 /\ w - 1 < b /\ b <= m /\ k \in 0..n
      BY <2>1
    <3>3. Good(k)
      BY <3>1, <3>2
    <3> HIDE DEF Good
    <3> QED
      BY <3>2, <3>3
  <2>5. CASE ~Holds(blocks[Middle(r)], pos)
    <3>1. PICK c, d \in Nat : s = <<c, d>> /\ c <= w - 1 /\ w - 1 < d /\ d <= m /\ d - c < b - a
      BY <2>2, <2>5
    <3>2. d - c <= m - k
      <4>1. b - a <= m - (k - 1)
        BY <2>1, <2>3, <2>5
      <4> HIDE DEF r
      <4> QED
        BY <1>2, <3>1, <4>1
    <3> HIDE DEF r
    <3> QED
      BY <2>3, <3>1, <3>2
  <2> QED
    BY <2>4, <2>5
<1>13. n \in T
  <2>1. n \in 0..n
    BY <1>2
  <2> HIDE DEF T
  <2> QED
    BY <1>2, <1>11, <1>12, <2>1, UpTo
<1>14. PICK a, b \in Nat : /\ W[n] = <<a, b>> /\ a <= w - 1 /\ w - 1 < b /\ b <= m
                           /\ Holds(blocks[Middle(W[n])], pos) \/ b - a <= m - n
  BY <1>13
<1>15. Holds(blocks[Middle(W[n])], pos)
  <2>1. ~(b - a <= m - n)
    BY <1>2, <1>14 DEF n
  <2> QED
    BY <1>14, <2>1
<1>16. Middle(W[n]) \in 1..m
  <2>1. a <= w - 1 /\ w - 1 < b /\ b <= m
    BY <1>14
  <2>2. Middle(<<a, b>>) \in 1..m
    BY <1>4, <2>1, NarrowedKeeps
  <2> QED
    BY <1>14, <2>2
<1>17. ~(Middle(W[n]) > m)
  BY <1>2, <1>16
<1> QED
  BY <1>1, <1>15, <1>16, <1>17
------------------------------------------------------------------------------
(* The block that is being made *)

\* A block that ends at pos, and of which what Leads asks for is so already.
Made(b, old, new, pos) ==
  b \in Block /\ b.new + Size(b) = pos /\ IsTrue(b, old, new) /\ Fits(b, Len(old))

\* The new file goes on with these bytes at pos.
GoesOn(new, pos, bytes) ==
  pos + Len(bytes) <= Len(new) /\ \A j \in 1..Len(bytes) : new[pos + j] = bytes[j]

\* At pos it has the bytes of the old file, beginning with the one after from, with
\* these added.
AddsOn(new, pos, old, from, sum) ==
  \A j \in 1..Len(sum) : new[pos + j] = (sum[j] + ByteAt(old, from + j - 1)) % 256

\* A block without bytes is.
LEMMA EmptyMade ==
  ASSUME NEW b \in Block, NEW old \in Bytes, NEW new \in Bytes,
         b.add = <<>>, b.insert = <<>>, b.old \in 0..Len(old) - 1, b.new <= Len(new)
  PROVE  Made(b, old, new, b.new) /\ Size(b) = 0
<1>1. b.new \in Nat /\ Len(new) \in Nat /\ Len(old) \in Nat
  BY DEF Block, Bytes
<1>2. Len(b.add) = 0 /\ Len(b.insert) = 0 /\ Size(b) = 0
  BY DEF Size
<1>3. b.new + Size(b) = b.new /\ b.old + Len(b.add) <= Len(old)
  BY <1>1, <1>2
<1>4. Fits(b, Len(old))
  BY <1>3 DEF Fits
<1>5. IsTrue(b, old, new)
  <2>1. \A j \in 1..0 : FALSE
    OBVIOUS
  <2> QED
    BY <1>2, <1>3, <2>1 DEF IsTrue
<1> QED
  BY <1>2, <1>3, <1>4, <1>5 DEF Made

\* Inserted bytes that are those of the new file may be appended to it.
LEMMA InsertGrows ==
  ASSUME NEW b, NEW old \in Bytes, NEW new \in Bytes, NEW pos \in Nat, Made(b, old, new, pos),
         NEW bytes \in Bytes, GoesOn(new, pos, bytes),
         NEW q \in Block, q.old = b.old, q.new = b.new, q.add = b.add, q.insert = b.insert \o bytes,
         NEW end, end = pos + Len(bytes)
  PROVE  Made(q, old, new, end) /\ Size(q) = Size(b) + Len(bytes)
<1> DEFINE y == b.insert \o bytes
           a == Len(b.add)
           c == Len(b.insert)
           e == Len(bytes)
<1>1. /\ b \in Block /\ b.new + Size(b) = pos /\ IsTrue(b, old, new) /\ Fits(b, Len(old))
  BY DEF Made
<1>2. /\ b.old \in Int /\ b.new \in Nat /\ b.add \in Bytes /\ b.insert \in Bytes
      /\ a \in Nat /\ c \in Nat /\ Size(b) = a + c
  BY <1>1, BlockIs
<1>3. /\ e \in Nat /\ Len(new) \in Nat /\ pos + e <= Len(new)
      /\ \A j \in 1..e : new[pos + j] = bytes[j]
  BY DEF Bytes, GoesOn
<1>4. /\ y \in Bytes /\ Len(y) = c + e
      /\ \A j \in 1..c + e : y[j] = IF j <= c THEN b.insert[j] ELSE bytes[j - c]
  <2>1. b.insert \in Seq(Byte) /\ bytes \in Seq(Byte)
    BY <1>2 DEF Bytes
  <2> QED
    BY ONLY <2>1, ConcatProperties DEF Bytes
<1>5. q \in Block /\ q.old = b.old /\ q.new = b.new /\ q.add = b.add /\ q.insert = y
  OBVIOUS
<1> HIDE DEF y, a, c, e
<1>6. Size(q) = a + (c + e) /\ Len(q.add) = a /\ Len(q.insert) = c + e
  BY <1>4, <1>5 DEF Size, a
<1>7. q.new + Size(q) = pos + e /\ Size(q) = Size(b) + e
  <2>1. /\ q.new = b.new /\ Size(q) = a + (c + e) /\ Size(b) = a + c /\ b.new + Size(b) = pos
        /\ b.new \in Nat /\ a \in Nat /\ c \in Nat /\ e \in Nat
    BY <1>1, <1>2, <1>3, <1>5, <1>6
  <2> QED
    BY ONLY <2>1
<1>8. /\ \A j \in 1..a : new[b.new + j] = (b.add[j] + ByteAt(old, b.old + j - 1)) % 256
      /\ \A j \in 1..c : new[b.new + a + j] = b.insert[j]
  BY <1>1 DEF IsTrue, a, c
<1>9. ASSUME NEW j \in 1..c + e PROVE new[q.new + a + j] = y[j]
  <2>1. CASE j <= c
    <3>1. j \in 1..c
      BY <1>2, <2>1
    <3>2. y[j] = b.insert[j] /\ new[b.new + a + j] = b.insert[j]
      BY <1>4, <1>8, <2>1, <3>1
    <3> QED
      BY <1>5, <3>2
  <2>2. CASE ~(j <= c)
    <3>1. j - c \in 1..e /\ pos + (j - c) = b.new + a + j
      <4>1. /\ pos = b.new + (a + c) /\ j \in 1..c + e /\ ~(j <= c)
            /\ b.new \in Nat /\ a \in Nat /\ c \in Nat /\ e \in Nat
        BY <1>1, <1>2, <1>3, <2>2
      <4> QED
        BY ONLY <4>1
    <3>2. new[pos + (j - c)] = bytes[j - c]
      BY <1>3, <3>1
    <3> QED
      BY <1>4, <1>5, <2>2, <3>1, <3>2
  <2> QED
    BY <2>1, <2>2
<1>10. IsTrue(q, old, new)
  <2>1. q.new + Size(q) <= Len(new)
    BY <1>3, <1>7
  <2> QED
    BY <1>5, <1>6, <1>8, <1>9, <2>1 DEF IsTrue
<1>11. Fits(q, Len(old))
  BY <1>1, <1>5 DEF Fits
<1> QED
  BY <1>5, <1>7, <1>10, <1>11 DEF Made, e

\* A block that only adds such bytes is made.
LEMMA AddMade ==
  ASSUME NEW b \in Block, NEW old \in Bytes, NEW new \in Bytes, b.insert = <<>>,
         b.old \in Nat, b.old + Len(b.add) <= Len(old), b.old < Len(old),
         b.new + Len(b.add) <= Len(new),
         AddsOn(new, b.new, old, b.old, b.add), NEW end, end = b.new + Len(b.add)
  PROVE  Made(b, old, new, end) /\ Size(b) = Len(b.add)
<1>1. /\ Len(b.add) \in Nat /\ Len(old) \in Nat /\ Len(b.insert) = 0
      /\ \A j \in 1..Len(b.add) :
           new[b.new + j] = (b.add[j] + ByteAt(old, b.old + j - 1)) % 256
  BY DEF Block, Bytes, AddsOn
<1>2. Size(b) = Len(b.add)
  BY <1>1 DEF Size
<1>3. IsTrue(b, old, new)
  <2>1. \A j \in 1..0 : FALSE
    OBVIOUS
  <2> QED
    BY <1>1, <1>2, <2>1 DEF IsTrue
<1>4. b.old \in 0..Len(old) - 1
  BY <1>1
<1>5. Fits(b, Len(old))
  BY <1>4 DEF Fits
<1> QED
  BY <1>2, <1>3, <1>5 DEF Made
------------------------------------------------------------------------------
(* The bytes that go into it *)

\* n bytes after the first ones.
Part(s, from, n) == SubSeq(s, from + 1, from + n)

\* A part of a sequence of bytes.
LEMMA PartIs ==
  ASSUME NEW s \in Bytes, NEW from \in Nat, NEW n \in Nat, from + n <= Len(s)
  PROVE  LET t == Part(s, from, n) IN
         t \in Bytes /\ Len(t) = n /\ \A j \in 1..n : t[j] = s[from + j] /\ t[j] \in Byte
<1> DEFINE t == SubSeq(s, from + 1, from + n)
<1>1. Len(s) \in Nat /\ \A i \in 1..Len(s) : s[i] \in Byte
  BY DEF Bytes
<1>2. \A i \in from + 1..from + n : s[i] \in Byte
  BY <1>1
<1>3. from + 1 \in Int /\ from + n \in Int
  OBVIOUS
<1>4. /\ t \in Seq(Byte)
      /\ Len(t) = IF from + 1 <= from + n THEN (from + n) - (from + 1) + 1 ELSE 0
      /\ \A i \in 1..(from + n) - (from + 1) + 1 : t[i] = s[(from + 1) + i - 1]
  BY ONLY <1>2, <1>3, SubSeqProperties
<1> HIDE DEF t
<1>5. Len(t) = n
  BY <1>4
<1>6. ASSUME NEW j \in 1..n PROVE t[j] = s[from + j]
  <2>1. j \in 1..(from + n) - (from + 1) + 1 /\ (from + 1) + j - 1 = from + j
    OBVIOUS
  <2> QED
    BY <1>4, <2>1
<1>7. \A j \in 1..n : t[j] \in Byte
  BY <1>4, <1>5
<1> QED
  BY <1>4, <1>5, <1>6, <1>7 DEF t, Bytes, Part

\* n bytes of what u inserts, from byte cur of u on, which is pos in the new file.
OfInsert(u, old, new, cur, from, n, bytes, pos) ==
  /\ u \in Block /\ new \in Bytes /\ IsTrue(u, old, new)
  /\ cur \in Nat /\ from \in Nat /\ n \in Nat /\ pos = u.new + cur
  /\ cur = Len(u.add) + from /\ from + n <= Len(u.insert)
  /\ bytes = Part(u.insert, from, n)

\* Bytes of a block that inserts, as they are.
LEMMA UpperInserts ==
  ASSUME NEW u, NEW old, NEW new, NEW cur, NEW from, NEW n, NEW bytes, NEW pos,
         OfInsert(u, old, new, cur, from, n, bytes, pos)
  PROVE  bytes \in Bytes /\ Len(bytes) = n /\ GoesOn(new, pos, bytes)
<1> USE DEF OfInsert
<1> DEFINE a == Len(u.add)
           c == Len(u.insert)
<1>1. u.new \in Nat /\ u.insert \in Bytes /\ a \in Nat /\ c \in Nat /\ Size(u) = a + c
  BY BlockIs
<1>2. u.new + Size(u) <= Len(new) /\ \A j \in 1..c : new[u.new + a + j] = u.insert[j]
  BY DEF IsTrue
<1>3. cur = a + from /\ from + n <= c /\ Len(new) \in Nat
  BY DEF Bytes
<1>4. bytes \in Bytes /\ Len(bytes) = n /\ \A j \in 1..n : bytes[j] = u.insert[from + j]
  <2>1. /\ u.insert \in Bytes /\ from \in Nat /\ n \in Nat /\ from + n <= Len(u.insert)
        /\ bytes = Part(u.insert, from, n)
    BY <1>1
  <2> QED
    BY ONLY <2>1, PartIs
<1> HIDE DEF a, c
<1>5. ASSUME NEW j \in 1..n PROVE new[pos + j] = bytes[j]
  <2>1. from + j \in 1..c /\ u.new + a + (from + j) = pos + j
    BY ONLY <1>1, <1>3, pos = u.new + cur, from \in Nat, n \in Nat, j \in 1..n
  <2> QED
    BY <1>2, <1>4, <2>1
<1>6. pos + n <= Len(new)
  <2>1. /\ u.new + (a + c) <= Len(new) /\ pos = u.new + (a + from) /\ from + n <= c
        /\ u.new \in Nat /\ a \in Nat /\ c \in Nat /\ Len(new) \in Nat /\ n \in Nat /\ from \in Nat
    BY <1>1, <1>2, <1>3
  <2> QED
    BY ONLY <2>1
<1> QED
  BY <1>4, <1>5, <1>6 DEF GoesOn

\* Bytes are added in any order.
LEMMA SumsCommute == \A x, y \in 0..255 : (x + y) % 256 = (y + x) % 256
OBVIOUS

\* n bytes that u adds to what l inserts.
OntoInsert(u, l, f, g, h, cur, from, n, bytes, pos) ==
  /\ u \in Block /\ l \in Block /\ g \in Bytes /\ h \in Bytes
  /\ IsTrue(u, g, h) /\ IsTrue(l, f, g) /\ u.old \in Nat
  /\ cur \in Nat /\ n \in Nat /\ from \in Nat /\ pos = u.new + cur
  /\ u.old + cur = l.new + (Len(l.add) + from)
  /\ cur + n <= Len(u.add) /\ from + n <= Len(l.insert)
  /\ bytes = Sum8(Part(l.insert, from, n), Part(u.add, cur, n))

\* Bytes added to inserted ones: l inserts them in the file in between, u adds to them.
LEMMA AddsToInserted ==
  ASSUME NEW u, NEW l, NEW f, NEW g, NEW h, NEW cur, NEW from, NEW n, NEW bytes, NEW pos,
         OntoInsert(u, l, f, g, h, cur, from, n, bytes, pos)
  PROVE  bytes \in Bytes /\ Len(bytes) = n /\ GoesOn(h, pos, bytes)
<1> USE DEF OntoInsert
<1> DEFINE a == Len(l.add)
           c == Len(u.add)
           s == Part(l.insert, from, n)
           t == Part(u.add, cur, n)
<1>1. /\ l.new \in Nat /\ l.insert \in Bytes /\ a \in Nat /\ Len(l.insert) \in Nat
      /\ Size(l) = a + Len(l.insert)
  BY BlockIs
<1>2. u.new \in Nat /\ u.add \in Bytes /\ Len(u.add) \in Nat
  BY BlockIs
<1>3. /\ \A j \in 1..Len(l.insert) : g[l.new + a + j] = l.insert[j]
      /\ l.new + Size(l) <= Len(g)
  BY DEF IsTrue
<1>4. \A j \in 1..Len(u.add) : h[u.new + j] = (u.add[j] + ByteAt(g, u.old + j - 1)) % 256
  BY DEF IsTrue
<1>5. Len(g) \in Nat /\ Len(h) \in Nat /\ u.old + cur = l.new + (a + from)
  BY DEF Bytes
<1>6. s \in Bytes /\ Len(s) = n /\ \A j \in 1..n : s[j] = l.insert[from + j] /\ s[j] \in Byte
  BY <1>1, PartIs
<1>7. t \in Bytes /\ Len(t) = n /\ \A j \in 1..n : t[j] = u.add[cur + j] /\ t[j] \in Byte
  BY <1>2, PartIs
<1> HIDE DEF s, t, a, c
<1>8. bytes \in Bytes /\ Len(bytes) = n /\ \A j \in 1..n : bytes[j] = (s[j] + t[j]) % 256
  <2>1. s \in Bytes /\ Len(s) = n /\ \A j \in 1..n : t[j] \in Byte
    BY <1>6, <1>7
  <2>2. \A j \in 1..Len(s) : t[j] \in Byte
    BY <2>1
  <2>3. bytes = Sum8(s, t)
    BY DEF s, t
  <2> QED
    BY ONLY <2>1, <2>2, <2>3, Sum8Is
<1>9. ASSUME NEW j \in 1..n PROVE h[pos + j] = bytes[j]
  <2>1. cur + j \in 1..Len(u.add) /\ u.new + (cur + j) = pos + j
    BY <1>2
  <2>2. from + j \in 1..Len(l.insert)
    BY <1>1
  <2>3. u.old + (cur + j) - 1 \in Int /\ 0 <= u.old + (cur + j) - 1
    OBVIOUS
  <2>4. (u.old + (cur + j) - 1) + 1 = l.new + a + (from + j)
    <3>1. /\ u.old + cur = l.new + (a + from) /\ l.new \in Nat /\ a \in Nat /\ u.old \in Nat
          /\ cur \in Nat /\ from \in Nat /\ n \in Nat /\ j \in 1..n
      BY <1>1, <1>5
    <3> QED
      BY ONLY <3>1
  <2>5. u.old + (cur + j) - 1 < Len(g)
    <3>1. \A v, x, y, z, k \in Nat : \A i \in 1..z : \A p \in Int :
            x + (y + z) <= k /\ p + 1 = x + y + i => p < k
      OBVIOUS
    <3>2. l.new + (a + Len(l.insert)) <= Len(g)
      BY <1>1, <1>3
    <3> QED
      BY <1>1, <1>5, <2>2, <2>3, <2>4, <3>1, <3>2
  <2>6. h[u.new + (cur + j)] = (u.add[cur + j] + ByteAt(g, u.old + (cur + j) - 1)) % 256
    BY <1>4, <2>1
  <2>7. ByteAt(g, u.old + (cur + j) - 1) = g[(u.old + (cur + j) - 1) + 1]
    BY <2>3, <2>5, ByteIsByte
  <2>8. g[(u.old + (cur + j) - 1) + 1] = s[j]
    <3>1. g[l.new + a + (from + j)] = l.insert[from + j]
      BY <1>3, <2>2
    <3>2. s[j] = l.insert[from + j]
      BY <1>6
    <3> QED
      BY ONLY <2>4, <3>1, <3>2
  <2>9. t[j] = u.add[cur + j] /\ t[j] \in 0..255 /\ s[j] \in 0..255
    BY <1>6, <1>7 DEF Byte
  <2>10. h[pos + j] = (t[j] + s[j]) % 256
    BY <2>1, <2>6, <2>7, <2>8, <2>9
  <2>11. (t[j] + s[j]) % 256 = (s[j] + t[j]) % 256
    BY ONLY <2>9, SumsCommute
  <2> QED
    BY <1>8, <2>10, <2>11
<1>10. pos + n <= Len(h)
  <2>1. u.new + Size(u) <= Len(h) /\ Size(u) = c + Len(u.insert) /\ Len(u.insert) \in Nat
    BY BlockIs DEF IsTrue, c
  <2>2. /\ u.new + (c + Len(u.insert)) <= Len(h) /\ pos = u.new + cur /\ cur + n <= c
        /\ c \in Nat
    BY <1>2, <2>1 DEF c
  <2> QED
    BY ONLY <1>2, <1>5, <2>1, <2>2, cur \in Nat, n \in Nat
<1> QED
  BY <1>8, <1>9, <1>10 DEF GoesOn

\* n bytes that u adds to what l adds from byte pos of l on.
OntoAdd(u, l, f, g, h, cur, pos, n, sum, start, from) ==
  /\ u \in Block /\ l \in Block /\ f \in Bytes /\ g \in Bytes
  /\ IsTrue(u, g, h) /\ IsTrue(l, f, g) /\ u.old \in Nat
  /\ cur \in Nat /\ n \in Nat /\ pos \in Nat /\ u.old + cur = l.new + pos
  /\ cur + n <= Len(u.add) /\ pos + n <= Len(l.add)
  /\ sum = Sum8(Part(l.add, pos, n), Part(u.add, cur, n))
  /\ start = u.new + cur /\ from = l.old + pos

\* Bytes that both add: their sums, taken as bytes, are added to the oldest file.
LEMMA AddsTwice ==
  ASSUME NEW u, NEW l, NEW f, NEW g, NEW h, NEW cur, NEW pos, NEW n, NEW sum, NEW start,
         NEW from, OntoAdd(u, l, f, g, h, cur, pos, n, sum, start, from)
  PROVE  sum \in Bytes /\ Len(sum) = n /\ AddsOn(h, start, f, from, sum)
<1> USE DEF OntoAdd
<1> DEFINE s == Part(l.add, pos, n)
           t == Part(u.add, cur, n)
<1>1. /\ l.new \in Nat /\ l.old \in Int /\ l.add \in Bytes /\ Len(l.add) \in Nat
      /\ Len(l.insert) \in Nat /\ Size(l) = Len(l.add) + Len(l.insert)
  BY BlockIs
<1>2. u.new \in Nat /\ u.add \in Bytes /\ Len(u.add) \in Nat
  BY BlockIs
<1>3. /\ \A j \in 1..Len(l.add) : g[l.new + j] = (l.add[j] + ByteAt(f, l.old + j - 1)) % 256
      /\ l.new + Size(l) <= Len(g)
  BY DEF IsTrue
<1>4. \A j \in 1..Len(u.add) : h[u.new + j] = (u.add[j] + ByteAt(g, u.old + j - 1)) % 256
  BY DEF IsTrue
<1>5. Len(g) \in Nat
  BY DEF Bytes
<1>6. s \in Bytes /\ Len(s) = n /\ \A j \in 1..n : s[j] = l.add[pos + j] /\ s[j] \in Byte
  BY <1>1, PartIs
<1>7. t \in Bytes /\ Len(t) = n /\ \A j \in 1..n : t[j] = u.add[cur + j] /\ t[j] \in Byte
  BY <1>2, PartIs
<1> HIDE DEF s, t
<1>8. sum \in Bytes /\ Len(sum) = n /\ \A j \in 1..n : sum[j] = (s[j] + t[j]) % 256
  <2>1. sum = Sum8(s, t)
    BY DEF s, t
  <2>2. s \in Bytes /\ Len(s) = n /\ \A j \in 1..n : t[j] \in Byte
    BY <1>6, <1>7
  <2>3. \A j \in 1..Len(s) : t[j] \in Byte
    BY <2>2
  <2> QED
    BY ONLY <2>1, <2>2, <2>3, Sum8Is
<1>9. ASSUME NEW j \in 1..n
      PROVE  h[u.new + cur + j] = (sum[j] + ByteAt(f, l.old + pos + j - 1)) % 256
  <2> DEFINE x == ByteAt(f, l.old + (pos + j) - 1)
             at == u.old + (cur + j) - 1
  <2>1. cur + j \in 1..Len(u.add) /\ u.new + (cur + j) = u.new + cur + j
    BY ONLY <1>2, cur \in Nat, n \in Nat, cur + n <= Len(u.add), j \in 1..n
  <2>2. pos + j \in 1..Len(l.add)
    BY <1>1
  <2>3. at \in Int /\ 0 <= at
    OBVIOUS
  <2>4. at + 1 = l.new + (pos + j)
    <3>1. l.new \in Nat
      BY <1>1
    <3> QED
      BY ONLY <3>1, u.old \in Nat, u.old + cur = l.new + pos, cur \in Nat, pos \in Nat, j \in 1..n,
              n \in Nat
  <2>5. l.old + (pos + j) - 1 \in Int /\ l.old + (pos + j) - 1 = l.old + pos + j - 1
    <3>1. l.old \in Int
      BY <1>1
    <3> QED
      BY ONLY <3>1, pos \in Nat, n \in Nat, j \in 1..n
  <2>6. h[u.new + (cur + j)] = (u.add[cur + j] + ByteAt(g, at)) % 256
    BY <1>4, <2>1
  <2> HIDE DEF at
  <2>7. at < Len(g)
    <3>1. \A y, z, w, k \in Nat : \A i \in 1..z : \A p \in Int :
            y + (z + w) <= k /\ p + 1 = y + i => p < k
      OBVIOUS
    <3>2. l.new + (Len(l.add) + Len(l.insert)) <= Len(g)
      BY <1>1, <1>3
    <3> QED
      BY <1>1, <1>5, <2>2, <2>3, <2>4, <3>1, <3>2
  <2>8. ByteAt(g, at) = g[at + 1]
    BY <2>3, <2>7, ByteIsByte
  <2>9. g[at + 1] = (s[j] + x) % 256
    <3>1. g[l.new + (pos + j)] = (l.add[pos + j] + x) % 256
      BY <1>3, <2>2
    <3>2. s[j] = l.add[pos + j]
      BY <1>6
    <3> QED
      BY ONLY <2>4, <3>1, <3>2
  <2>10. x \in Byte
    BY <2>5, ByteIsByte
  <2>11. x = ByteAt(f, l.old + pos + j - 1)
    BY <2>5
  <2> DEFINE p == t[j]
             q == s[j]
             y == g[at + 1]
             z == sum[j]
  <2> HIDE DEF x
  <2>12. p = u.add[cur + j] /\ p \in 0..255 /\ q \in 0..255 /\ x \in 0..255
    BY <1>6, <1>7, <2>10 DEF Byte
  <2>13. y = (q + x) % 256 /\ z = (q + p) % 256
    BY <1>8, <2>9
  <2>14. h[u.new + cur + j] = (p + y) % 256
    BY <2>1, <2>6, <2>8, <2>12
  <2> HIDE DEF p, q, y, z
  <2>15. (p + y) % 256 = (z + x) % 256
    BY ONLY <2>12, <2>13
  <2> QED
    BY <2>11, <2>14, <2>15 DEF z
<1> QED
  BY <1>8, <1>9 DEF AddsOn
------------------------------------------------------------------------------
(* The locals of mergeBlocks *)

\* lower has n blocks, and no error was met.
MergeState(n) == [cur : Nat, at : 0..n, state : {0, 1, 2}, block : Block,
                  merged : Seq(Block), out : {"ok"}]

\* All that Leads asks of blocks but that they are all of a file.
AllLead(blocks, old, new) ==
  \A i \in 1..Len(blocks) : IsTrue(blocks[i], old, new) /\ Fits(blocks[i], Len(old))

\* The blocks that were made and the one that is being made lead to the first pos bytes
\* of the new file.
Covers(s, old, new, pos) ==
  /\ AllLead(s.merged, old, new)
  /\ s.state = 0 => /\ Tiles(s.merged, pos) /\ s.block.old = 0
                    /\ s.block.add = <<>> /\ s.block.insert = <<>>
  /\ s.state # 0 => Tiles(s.merged, s.block.new) /\ Size(s.block) > 0 /\ Made(s.block, old, new, pos)
  /\ s.state = 1 => s.block.insert = <<>>

\* Without bytes there is a block to begin with.
LEMMA NewBlockIs ==
  ASSUME NEW new \in Nat
  PROVE  /\ NewBlock(new) \in Block /\ NewBlock(new).old = 0 /\ NewBlock(new).new = new
         /\ NewBlock(new).add = <<>> /\ NewBlock(new).insert = <<>>
<1>1. <<>> \in Bytes
  BY DEF Bytes
<1> QED
  BY <1>1 DEF NewBlock, Block

\* One more block of those that were made.
LEMMA AllLeadMore ==
  ASSUME NEW blocks \in Seq(Block), NEW b \in Block, NEW old, NEW new,
         AllLead(blocks, old, new), IsTrue(b, old, new), Fits(b, Len(old))
  PROVE  AllLead(Append(blocks, b), old, new)
<1> DEFINE more == Append(blocks, b)
           m == Len(blocks)
<1>1. /\ m \in Nat /\ Len(more) = m + 1 /\ more[m + 1] = b
      /\ \A i \in 1..m : more[i] = blocks[i]
  BY AppendProperties
<1>2. \A i \in 1..m : IsTrue(blocks[i], old, new) /\ Fits(blocks[i], Len(old))
  BY DEF AllLead
<1> HIDE DEF more, m
<1>3. \A i \in 1..m + 1 : i = m + 1 \/ i \in 1..m
  BY <1>1
<1>4. \A i \in 1..m + 1 : IsTrue(more[i], old, new) /\ Fits(more[i], Len(old))
  BY <1>1, <1>2, <1>3
<1> QED
  BY <1>1, <1>4 DEF AllLead, more

\* A block is done.
LEMMA Flushed ==
  ASSUME NEW n \in Nat, NEW s \in MergeState(n), NEW old, NEW new, NEW pos \in Nat,
         Covers(s, old, new, pos), s.state # 0
  PROVE  LET t == Flush(s) IN
         /\ t \in MergeState(n) /\ Covers(t, old, new, pos)
         /\ t.state = 0 /\ t.cur = s.cur /\ t.at = s.at
<1> DEFINE b == s.block
           more == Append(s.merged, b)
           t == Flush(s)
<1>1. b \in Block /\ s.merged \in Seq(Block)
  BY DEF MergeState
<1>2. t = [s EXCEPT !.merged = more, !.block = NewBlock(0), !.state = 0]
  BY DEF Flush
<1>3. /\ AllLead(s.merged, old, new) /\ Tiles(s.merged, b.new) /\ Size(b) > 0
      /\ b.new + Size(b) = pos /\ IsTrue(b, old, new) /\ Fits(b, Len(old))
  BY DEF Covers, Made
<1>4. b.new \in Nat
  BY <1>1, BlockIs
<1> HIDE DEF t, b
<1>5. Tiles(more, pos)
  BY <1>1, <1>3, <1>4, OneMoreTile
<1>6. AllLead(more, old, new)
  BY <1>1, <1>3, AllLeadMore
<1>7. more \in Seq(Block)
  BY <1>5 DEF Tiles
<1> HIDE DEF more
<1>8. /\ NewBlock(0) \in Block /\ NewBlock(0).old = 0
      /\ NewBlock(0).add = <<>> /\ NewBlock(0).insert = <<>>
  BY NewBlockIs
<1>9. /\ t.cur = s.cur /\ t.at = s.at /\ t.state = 0 /\ t.block = NewBlock(0) /\ t.merged = more
  BY <1>2 DEF MergeState
<1>10. t \in MergeState(n)
  BY <1>2, <1>7, <1>8 DEF MergeState
<1>11. Covers(t, old, new, pos)
  BY <1>5, <1>6, <1>8, <1>9 DEF Covers
<1> QED
  BY <1>9, <1>10, <1>11 DEF t

\* The new file goes on with these bytes, up to end.
MayInsert(n, s, u, old, new, bytes, pos, end) ==
  /\ n \in Nat /\ s \in MergeState(n) /\ u \in Block
  /\ old \in Bytes /\ old # <<>> /\ new \in Bytes
  /\ pos \in Nat /\ pos = u.new + s.cur /\ Covers(s, old, new, pos)
  /\ bytes \in Bytes /\ Len(bytes) > 0 /\ GoesOn(new, pos, bytes) /\ end = pos + Len(bytes)

\* Bytes of the new file are appended to the block that is being made, or begin one.
LEMMA Inserted ==
  ASSUME NEW n, NEW s, NEW u, NEW old, NEW new, NEW bytes, NEW pos, NEW end,
         MayInsert(n, s, u, old, new, bytes, pos, end)
  PROVE  LET t == Insert(u, s, bytes) IN
         /\ t \in MergeState(n) /\ Covers(t, old, new, end)
         /\ t.state = 2 /\ t.cur = s.cur + Len(bytes) /\ t.at = s.at
<1> USE DEF MayInsert
<1> DEFINE b == IF s.state = 0 THEN [s.block EXCEPT !.new = u.new + s.cur] ELSE s.block
           q == [b EXCEPT !.insert = b.insert \o bytes]
           t == Insert(u, s, bytes)
<1>1. /\ s.cur \in Nat /\ s.at \in 0..n /\ s.state \in {0, 1, 2} /\ s.block \in Block
      /\ s.merged \in Seq(Block) /\ s.out = "ok"
  BY DEF MergeState
<1>2. /\ t.cur = s.cur + Len(bytes) /\ t.at = s.at /\ t.state = 2 /\ t.block = q
      /\ t.merged = s.merged
      /\ s.cur + Len(bytes) \in Nat /\ q \in Block => t \in MergeState(n)
  <2> DEFINE p == IF s.state = 0 THEN [s EXCEPT !.block.new = u.new + s.cur] ELSE s
  <2>1. /\ p.cur = s.cur /\ p.at = s.at /\ p.block = b /\ p.merged = s.merged
        /\ b \in Block => p \in MergeState(n)
    <3>1. CASE s.state = 0
      BY <3>1 DEF MergeState
    <3>2. CASE s.state # 0
      BY <3>2 DEF MergeState
    <3> QED
      BY <3>1, <3>2
  <2>2. t = [p EXCEPT !.block.insert = p.block.insert \o bytes, !.cur = p.cur + Len(bytes), !.state = 2]
    BY DEF Insert
  <2>3. b \in Block
    BY <1>1 DEF Block
  <2> HIDE DEF p, b, t
  <2>4. p \in MergeState(n)
    BY <2>1, <2>3
  <2>5. /\ t.cur = p.cur + Len(bytes) /\ t.at = p.at /\ t.state = 2 /\ t.merged = p.merged
        /\ t.block = [p.block EXCEPT !.insert = p.block.insert \o bytes]
    BY <2>2, <2>4 DEF MergeState
  <2>6. t = [p EXCEPT !.block = t.block, !.cur = t.cur, !.state = 2]
    BY <2>2, <2>4 DEF MergeState
  <2>7. t.cur \in Nat /\ t.block \in Block => t \in MergeState(n)
    BY <2>4, <2>6 DEF MergeState
  <2> QED
    BY <2>1, <2>5, <2>7
<1>3. Len(bytes) \in Nat /\ Len(old) \in Nat /\ Len(new) \in Nat /\ Len(old) # 0
  BY EmptySeq DEF Bytes
<1>4. /\ AllLead(s.merged, old, new) /\ Made(b, old, new, pos) /\ Tiles(s.merged, b.new)
      /\ Size(b) \in Nat /\ b \in Block
  <2>1. CASE s.state = 0
    <3>1. Tiles(s.merged, pos) /\ s.block.old = 0 /\ s.block.add = <<>> /\ s.block.insert = <<>>
      BY <2>1 DEF Covers
    <3>2. b = [s.block EXCEPT !.new = pos]
      BY <2>1
    <3> HIDE DEF b
    <3>3. b \in Block /\ b.new = pos /\ b.old = 0 /\ b.add = <<>> /\ b.insert = <<>>
      BY <1>1, <3>1, <3>2 DEF Block
    <3>4. 0 \in 0..Len(old) - 1 /\ pos <= Len(new)
      BY <1>3 DEF GoesOn
    <3>5. Made(b, old, new, b.new) /\ Size(b) = 0
      BY <3>3, <3>4, EmptyMade
    <3> QED
      BY <3>1, <3>3, <3>5 DEF Covers
  <2>2. CASE s.state # 0
    <3>1. Tiles(s.merged, s.block.new) /\ Made(s.block, old, new, pos)
      BY <2>2 DEF Covers
    <3> QED
      BY <1>1, <2>2, <3>1, BlockIs DEF Covers
  <2> QED
    BY <2>1, <2>2
<1> HIDE DEF b, t
<1>0. /\ q \in Block /\ q.old = b.old /\ q.new = b.new /\ q.add = b.add
      /\ q.insert = b.insert \o bytes
  <2>1. b.insert \in Seq(Byte) /\ bytes \in Seq(Byte)
    BY <1>4 DEF Block, Bytes
  <2>2. b.insert \o bytes \in Bytes
    BY ONLY <2>1, ConcatProperties DEF Bytes
  <2> QED
    BY <1>4, <2>2 DEF Block
<1> HIDE DEF q
<1>5. Made(q, old, new, end) /\ q.new = b.new /\ Size(q) = Size(b) + Len(bytes)
  <2>1. end = pos + Len(bytes)
    OBVIOUS
  <2>2. Made(b, old, new, pos)
    BY <1>4
  <2>4. q \in Block /\ q.old = b.old /\ q.new = b.new
    BY <1>0
  <2>5. q.add = b.add /\ q.insert = b.insert \o bytes
    BY <1>0
  <2>6. Made(q, old, new, end)
    BY ONLY <2>1, <2>2, <2>4, <2>5, old \in Bytes, new \in Bytes, pos \in Nat, bytes \in Bytes,
            GoesOn(new, pos, bytes), InsertGrows, Zenon
  <2>7. Size(q) = Size(b) + Len(bytes)
    BY <2>1, <2>2, <2>4, <2>5, InsertGrows
  <2> QED
    BY <2>4, <2>6, <2>7
<1>6. q \in Block
  BY <1>5 DEF Made
<1>7. Size(q) > 0
  BY <1>3, <1>4, <1>5
<1>8. /\ t.cur = s.cur + Len(bytes) /\ t.at = s.at /\ t.state = 2 /\ t.block = q
      /\ t.merged = s.merged
  BY <1>2
<1>9. t \in MergeState(n)
  <2>1. s.cur + Len(bytes) \in Nat
    BY <1>1, <1>3
  <2> QED
    BY <1>2, <1>6, <2>1
<1>10. Covers(t, old, new, end)
  <2>1. t.state # 0 /\ t.state # 1
    BY <1>8
  <2> QED
    BY <1>4, <1>5, <1>7, <1>8, <2>1 DEF Covers
<1> QED
  BY <1>8, <1>9, <1>10 DEF t

\* It goes on with k bytes of the old file to which sum is added.
MayAdd(n, s, u, l, old, new, begin, k, sum, from, pos, end) ==
  /\ n \in Nat /\ s \in MergeState(n) /\ u \in Block /\ l \in Block
  /\ old \in Bytes /\ new \in Bytes /\ pos \in Nat /\ pos = u.new + s.cur
  /\ Covers(s, old, new, pos) /\ s.state # 1 /\ begin \in Nat /\ k \in Nat /\ k > 0
  /\ l.old \in Nat /\ l.old + begin + k <= Len(old) /\ pos + k <= Len(new)
  /\ sum \in Bytes /\ Len(sum) = k
  /\ sum = Sum8(Part(l.add, begin, k), Part(u.add, s.cur, k))
  /\ from = l.old + begin /\ AddsOn(new, pos, old, from, sum) /\ end = pos + k

\* A block begins that adds bytes to bytes of the oldest file.
LEMMA AddAdded ==
  ASSUME NEW n, NEW s, NEW u, NEW l, NEW old, NEW new, NEW begin, NEW k, NEW sum, NEW from,
         NEW pos, NEW end, MayAdd(n, s, u, l, old, new, begin, k, sum, from, pos, end)
  PROVE  LET t == AddAdd(l, u, s, begin, k) IN
         /\ t \in MergeState(n) /\ Covers(t, old, new, end)
         /\ t.state = 1 /\ t.cur = s.cur + k /\ t.at = s.at
<1> USE DEF MayAdd
<1> DEFINE r == IF s.state = 2 THEN Flush(s) ELSE s
           p == IF r.state = 0
                THEN [r EXCEPT !.block.old = l.old + begin, !.block.new = u.new + s.cur] ELSE r
           t == AddAdd(l, u, s, begin, k)
           b == t.block
<1>1. /\ r \in MergeState(n) /\ Covers(r, old, new, pos) /\ r.state = 0 /\ r.cur = s.cur
      /\ r.at = s.at
  <2>1. CASE s.state = 2
    <3>1. s.state # 0
      BY <2>1
    <3>2. /\ Flush(s) \in MergeState(n) /\ Covers(Flush(s), old, new, pos)
          /\ Flush(s).state = 0 /\ Flush(s).cur = s.cur /\ Flush(s).at = s.at
      BY ONLY n \in Nat, s \in MergeState(n), pos \in Nat, Covers(s, old, new, pos), <3>1, Flushed
    <3> QED
      BY <2>1, <3>2
  <2>2. CASE s.state # 2
    <3>1. s.state = 0
      BY <2>2 DEF MergeState
    <3> QED
      BY <2>2, <3>1
  <2> QED
    BY <2>1, <2>2
<1>2. t = [p EXCEPT !.block.add = p.block.add \o sum, !.cur = p.cur + k, !.state = 1]
  <2>1. r.cur = s.cur
    BY <1>1
  <2> QED
    BY <2>1 DEF AddAdd, Part
<1> HIDE DEF r, t
<1>3. /\ r.cur \in Nat /\ r.at \in 0..n /\ r.block \in Block /\ r.merged \in Seq(Block)
      /\ r.out = "ok"
  BY <1>1 DEF MergeState
<1>4. /\ AllLead(r.merged, old, new) /\ Tiles(r.merged, pos)
      /\ r.block.add = <<>> /\ r.block.insert = <<>>
  BY <1>1 DEF Covers
<1>5. /\ p \in MergeState(n) /\ p.cur = s.cur /\ p.at = s.at /\ p.merged = r.merged
      /\ p.block \in Block /\ p.block.old = l.old + begin /\ p.block.new = pos
      /\ p.block.add = <<>> /\ p.block.insert = <<>>
  <2> DEFINE c == [r.block EXCEPT !.old = l.old + begin, !.new = pos]
  <2>1. l.old + begin \in Int
    OBVIOUS
  <2>2. /\ c \in Block /\ c.old = l.old + begin /\ c.new = pos /\ c.add = <<>>
        /\ c.insert = <<>>
    BY <1>3, <1>4, <2>1 DEF Block
  <2>3. p = [r EXCEPT !.block = c]
    BY <1>1, <1>3 DEF MergeState
  <2> HIDE DEF c, p
  <2>4. r \in MergeState(n) /\ c \in Block
    BY <1>1, <2>2
  <2>5. p.cur = r.cur /\ p.at = r.at /\ p.merged = r.merged /\ p.block = c
    BY <2>3, <2>4 DEF MergeState
  <2>6. p \in MergeState(n)
    BY <2>3, <2>4 DEF MergeState
  <2> QED
    BY <1>1, <2>2, <2>5, <2>6
<1> HIDE DEF p
<1>6. p.block.add \o sum = sum
  BY <1>5, ConcatEmptySeq DEF Bytes
<1>7. /\ t.cur = s.cur + k /\ t.at = s.at /\ t.state = 1 /\ t.merged = r.merged
      /\ t.block = [p.block EXCEPT !.add = sum]
      /\ t = [p EXCEPT !.block = t.block, !.cur = t.cur, !.state = 1]
  BY <1>2, <1>5, <1>6 DEF MergeState
<1>8. /\ b \in Block /\ b.old = l.old + begin /\ b.new = pos /\ b.add = sum /\ b.insert = <<>>
  BY <1>5, <1>7 DEF Block
<1> HIDE DEF b
<1>9. Made(b, old, new, end) /\ Size(b) = k
  <2>1. Len(old) \in Nat
    BY DEF Bytes
  <2>2. b.old \in Nat /\ b.old + Len(b.add) <= Len(old) /\ b.old < Len(old)
    <3>1. /\ b.old = l.old + begin /\ Len(b.add) = k /\ l.old \in Nat /\ begin \in Nat
          /\ k \in Nat /\ k > 0 /\ l.old + begin + k <= Len(old)
      BY <1>8
    <3> QED
      BY ONLY <2>1, <3>1
  <2>3. b.new + Len(b.add) <= Len(new) /\ end = b.new + Len(b.add) /\ Len(b.add) = k
    BY <1>8
  <2>4. AddsOn(new, b.new, old, b.old, b.add)
    BY <1>8
  <2> QED
    BY <1>8, <2>2, <2>3, <2>4, AddMade
<1>10. /\ t.cur = s.cur + k /\ t.at = s.at /\ t.state = 1 /\ t.block = b /\ t.merged = r.merged
  BY <1>7 DEF b
<1>11. t \in MergeState(n)
  <2>1. s.cur + k \in Nat
    <3>1. s.cur \in Nat
      BY DEF MergeState
    <3> QED
      BY ONLY <3>1, k \in Nat
  <2>2. t = [p EXCEPT !.block = b, !.cur = s.cur + k, !.state = 1]
    BY <1>7, <1>10
  <2> QED
    BY <1>5, <1>8, <2>1, <2>2 DEF MergeState
<1>12. Covers(t, old, new, end)
  <2>1. t.state # 0 /\ Tiles(t.merged, t.block.new) /\ Size(t.block) > 0
    BY <1>4, <1>8, <1>9, <1>10
  <2> QED
    BY <1>4, <1>8, <1>9, <1>10, <2>1 DEF Covers
<1> QED
  BY <1>10, <1>11, <1>12 DEF t
------------------------------------------------------------------------------
(* One upper block *)

\* What mergeBlocks is given: deltas from f to g and from g to h, and u is of the second.
Chain(lower, u, f, g, h) ==
  /\ f \in Bytes /\ g \in Bytes /\ h \in Bytes /\ f # <<>> /\ g # <<>>
  /\ Leads(lower, f, g) /\ u \in Block /\ IsTrue(u, g, h) /\ Fits(u, Len(g))

\* The invariant of the two loops.
MergeInv(lower, u, f, h, s) ==
  /\ s \in MergeState(Len(lower)) /\ s.cur <= Size(u) /\ Covers(s, f, h, u.new + s.cur)
  /\ s.at # 0 => LET l == lower[s.at] IN
                 /\ l.new <= u.old + s.cur /\ u.old + s.cur <= l.new + Size(l)
                 /\ s.state = 0 => Within(l, u, s)
                 /\ s.state = 1 => l.new + Len(l.add) <= u.old + s.cur \/ Len(u.add) <= s.cur
  /\ s.at = 0 /\ s.state = 0 => s.cur = 0

\* What the upper block and the lower blocks are.
LEMMA ChainIs ==
  ASSUME NEW lower, NEW u, NEW f, NEW g, NEW h, Chain(lower, u, f, g, h)
  PROVE  /\ lower \in Seq(Block) /\ Len(lower) \in Nat /\ Tiles(lower, Len(g))
         /\ LowerSize(lower) = Len(g)
         /\ Len(f) \in Nat /\ Len(g) \in Nat /\ Len(h) \in Nat /\ Len(g) # 0
         /\ u.old \in Nat /\ u.new \in Nat /\ u.old < Len(g) /\ u.old + Len(u.add) <= Len(g)
         /\ u.new + Size(u) <= Len(h)
         /\ Len(u.add) \in Nat /\ Len(u.insert) \in Nat /\ Size(u) = Len(u.add) + Len(u.insert)
         /\ Size(u) \in Nat
         /\ \A i \in 1..Len(lower) :
              /\ lower[i] \in Block /\ IsTrue(lower[i], f, g) /\ Fits(lower[i], Len(f))
              /\ Len(lower[i].add) \in Nat /\ lower[i].new \in Nat /\ lower[i].old \in Nat
              /\ Size(lower[i]) = Len(lower[i].add) + Len(lower[i].insert)
              /\ Size(lower[i]) \in Nat
<1>1. /\ f \in Bytes /\ g \in Bytes /\ h \in Bytes /\ g # <<>> /\ u \in Block /\ IsTrue(u, g, h)
      /\ Fits(u, Len(g))
  BY DEF Chain
<1>2. /\ Tiles(lower, Len(g))
      /\ \A i \in 1..Len(lower) : IsTrue(lower[i], f, g) /\ Fits(lower[i], Len(f))
  BY DEF Chain, Leads
<1>3. lower \in Seq(Block) /\ Len(lower) \in Nat /\ EndOf(lower, Len(lower)) = Len(g)
  BY <1>2 DEF Tiles
<1>4. Len(f) \in Nat /\ Len(g) \in Nat /\ Len(h) \in Nat /\ Len(g) # 0
  BY <1>1, EmptySeq DEF Bytes
<1>5. LowerSize(lower) = Len(g)
  <2>1. Len(lower) # 0
    BY <1>3, <1>4 DEF EndOf
  <2> QED
    BY <1>3, <2>1 DEF EndOf, LowerSize
<1>6. /\ u.old \in 0..Len(g) - 1 /\ u.old + Len(u.add) <= Len(g) /\ u.new + Size(u) <= Len(h)
  BY <1>1 DEF Fits, IsTrue
<1>7. /\ u.new \in Nat /\ Len(u.add) \in Nat /\ Len(u.insert) \in Nat
      /\ Size(u) = Len(u.add) + Len(u.insert) /\ Size(u) \in Nat
  BY <1>1, BlockIs
<1>8. ASSUME NEW i \in 1..Len(lower)
      PROVE  /\ lower[i] \in Block /\ Len(lower[i].add) \in Nat /\ lower[i].new \in Nat
             /\ lower[i].old \in Nat /\ Size(lower[i]) \in Nat
             /\ Size(lower[i]) = Len(lower[i].add) + Len(lower[i].insert)
  <2>1. /\ lower[i] \in Block /\ Len(lower[i].add) \in Nat /\ lower[i].new \in Nat
        /\ Size(lower[i]) = Len(lower[i].add) + Len(lower[i].insert) /\ Size(lower[i]) \in Nat
    BY <1>3, BlocksAre
  <2>2. lower[i].old \in 0..Len(f) - 1
    BY <1>2 DEF Fits
  <2>3. lower[i].old \in Nat
    BY <1>4, <2>2
  <2> QED
    BY <2>1, <2>3
<1>9. u.old \in Nat /\ u.old < Len(g)
  BY <1>4, <1>6
<1> QED
  BY <1>2, <1>3, <1>4, <1>5, <1>6, <1>7, <1>8, <1>9

\* The rest of a block that is past the end of the lower file.
LEMMA BeyondStays ==
  ASSUME NEW lower, NEW u, NEW f, NEW g, NEW h, Chain(lower, u, f, g, h), NEW s,
         MergeInv(lower, u, f, h, s), s.at = 0, s.cur < Size(u), u.old + s.cur >= Len(g)
  PROVE  /\ MergeInv(lower, u, f, h, Beyond(u, s))
         /\ Beyond(u, s).at = 0 /\ Beyond(u, s).cur = Size(u)
<1> DEFINE from == s.cur - Len(u.add)
           n == Size(u) - s.cur
           bytes == Part(u.insert, from, n)
           t == Beyond(u, s)
<1>1. /\ s \in MergeState(Len(lower)) /\ Covers(s, f, h, u.new + s.cur)
      /\ s.state = 0 => s.cur = 0
  BY DEF MergeInv
<1>2. s.cur \in Nat
  BY <1>1 DEF MergeState
<1>3. /\ Len(lower) \in Nat /\ Len(g) \in Nat /\ u.old \in Nat /\ u.new \in Nat
      /\ u.old < Len(g) /\ u.old + Len(u.add) <= Len(g) /\ Len(u.add) \in Nat
      /\ Len(u.insert) \in Nat /\ Size(u) = Len(u.add) + Len(u.insert) /\ Size(u) \in Nat
  BY ChainIs
<1>4. Len(u.add) <= s.cur /\ ~(s.cur < Len(u.add))
  BY <1>2, <1>3
<1>5. s.state # 0
  BY <1>1, <1>2, <1>3
<1>6. /\ n \in Nat /\ n > 0 /\ s.cur + n = Size(u) /\ from \in Nat /\ from + n = Len(u.insert)
      /\ s.cur = Len(u.add) + from /\ from + n <= Len(u.insert)
  <2>2. /\ s.cur \in Nat /\ Len(u.add) \in Nat /\ Len(u.insert) \in Nat /\ Size(u) \in Nat
        /\ Size(u) = Len(u.add) + Len(u.insert) /\ s.cur < Size(u) /\ Len(u.add) <= s.cur
    BY <1>2, <1>3, <1>4
  <2> DEFINE x == s.cur
             y == Len(u.add)
             z == Len(u.insert)
             k == Size(u)
  <2>3. x \in Nat /\ y \in Nat /\ z \in Nat /\ k \in Nat /\ k = y + z /\ x < k /\ y <= x
    BY <2>2
  <2> HIDE DEF x, y, z, k
  <2>4. /\ k - x \in Nat /\ k - x > 0 /\ x + (k - x) = k
        /\ x - y \in Nat /\ (x - y) + (k - x) = z
        /\ x = y + (x - y) /\ (x - y) + (k - x) <= z
    BY ONLY <2>3
  <2> QED
    BY ONLY <2>4 DEF x, y, z, k
<1>7. bytes = Rest(u.insert, from)
  BY <1>6 DEF Rest, Part
<1> HIDE DEF n, from
<1>8. bytes \in Bytes /\ Len(bytes) = n /\ GoesOn(h, u.new + s.cur, bytes)
  <2> DEFINE pos == u.new + s.cur
  <2>1. pos = u.new + s.cur /\ bytes = Part(u.insert, from, n)
    OBVIOUS
  <2>2. u \in Block /\ IsTrue(u, g, h) /\ h \in Bytes
    BY DEF Chain
  <2> HIDE DEF pos, bytes
  <2>3. bytes \in Bytes /\ Len(bytes) = n /\ GoesOn(h, pos, bytes)
    <3>1. OfInsert(u, g, h, s.cur, from, n, bytes, pos)
      BY <1>2, <1>6, <2>1, <2>2 DEF OfInsert
    <3> QED
      BY ONLY <3>1, UpperInserts
  <2> QED
    BY <2>3 DEF pos
<1> HIDE DEF bytes
<1>9. t = [s EXCEPT !.state = 2, !.cur = Size(u), !.block.insert = s.block.insert \o bytes]
  BY <1>4, <1>5, <1>7 DEF Beyond, from
<1>10. Insert(u, s, bytes) =
         [s EXCEPT !.block.insert = s.block.insert \o bytes, !.cur = s.cur + Len(bytes), !.state = 2]
  BY <1>5 DEF Insert
<1>11. t = Insert(u, s, bytes)
  <2>1. s.cur + Len(bytes) = Size(u)
    BY <1>6, <1>8
  <2> QED
    BY ONLY <1>1, <1>9, <1>10, <2>1 DEF MergeState
<1> HIDE DEF t
<1>12. /\ t \in MergeState(Len(lower)) /\ Covers(t, f, h, u.new + Size(u))
       /\ t.state = 2 /\ t.cur = s.cur + Len(bytes) /\ t.at = s.at
  <2> DEFINE pos == u.new + s.cur
             end == u.new + Size(u)
  <2>1. f \in Bytes /\ f # <<>> /\ h \in Bytes /\ u \in Block
    BY DEF Chain
  <2>2. pos \in Nat /\ Len(bytes) > 0 /\ pos = u.new + s.cur
    BY <1>2, <1>3, <1>6, <1>8
  <2>3. end = pos + Len(bytes)
    <3>1. \A x, y, z \in Nat : x + (y + z) = (x + y) + z
      OBVIOUS
    <3>2. s.cur + n = Size(u) /\ Len(bytes) = n
      BY <1>6, <1>8
    <3>3. u.new + (s.cur + n) = (u.new + s.cur) + n
      BY <1>2, <1>3, <1>6, <3>1
    <3> QED
      BY <3>2, <3>3
  <2>4. Covers(s, f, h, pos) /\ GoesOn(h, pos, bytes)
    BY <1>1, <1>8
  <2> HIDE DEF pos, end
  <2>5. /\ t \in MergeState(Len(lower)) /\ Covers(t, f, h, end)
        /\ t.state = 2 /\ t.cur = s.cur + Len(bytes) /\ t.at = s.at
    <3>1. s \in MergeState(Len(lower)) /\ Len(lower) \in Nat /\ bytes \in Bytes
      BY <1>1, <1>3, <1>8
    <3>2. MayInsert(Len(lower), s, u, f, h, bytes, pos, end)
      BY ONLY <2>1, <2>2, <2>3, <2>4, <3>1 DEF MayInsert
    <3> QED
      BY ONLY <1>11, <3>2, Inserted
  <2> QED
    BY <2>5 DEF end
<1>13. t.cur = Size(u) /\ t.at = 0
  BY <1>6, <1>8, <1>12
<1>14. MergeInv(lower, u, f, h, t)
  <2>1. t.state # 0 /\ t.state # 1 /\ t.cur <= Size(u)
    <3>1. Size(u) \in Nat
      BY <1>3
    <3>2. \A x \in Nat : x <= x
      OBVIOUS
    <3>3. t.cur <= Size(u)
      BY <1>13, <3>1, <3>2, Zenon
    <3>4. t.state # 0 /\ t.state # 1
      BY <1>12
    <3> QED
      BY <3>3, <3>4
  <2> QED
    BY <1>12, <1>13, <2>1 DEF MergeInv
<1> QED
  BY <1>13, <1>14 DEF t

\* The outer loop finds the next lower block, or takes all the rest.
LEMMA EnterStays ==
  ASSUME NEW lower, NEW u, NEW f, NEW g, NEW h, Chain(lower, u, f, g, h), NEW s,
         MergeInv(lower, u, f, h, s), s.at = 0, s.cur < Size(u)
  PROVE  LET t == Enter(lower, u, s) IN
         /\ MergeInv(lower, u, f, h, t)
         /\ t.at = 0 => t.cur = Size(u)
         /\ t.at # 0 => t.cur = s.cur /\ Within(lower[t.at], u, t)
<1> DEFINE t == Enter(lower, u, s)
           i == GetBlock(u.old + s.cur, lower)
           r == IF s.state = 1 THEN Flush(s) ELSE s
           n == Len(lower)
<1>1. s \in MergeState(n) /\ Covers(s, f, h, u.new + s.cur)
  BY DEF MergeInv
<1>2. s.cur \in Nat
  BY <1>1 DEF MergeState
<1>3. /\ n \in Nat /\ Len(g) \in Nat /\ u.old \in Nat /\ u.new \in Nat /\ Size(u) \in Nat
      /\ Tiles(lower, Len(g)) /\ LowerSize(lower) = Len(g)
  BY ChainIs
<1>4. CASE u.old + s.cur >= Len(g)
  <2>1. t = Beyond(u, s)
    BY <1>3, <1>4 DEF Enter
  <2> QED
    BY <1>4, <2>1, BeyondStays
<1>5. CASE ~(u.old + s.cur >= Len(g))
  <2>1. u.old + s.cur \in Nat /\ u.old + s.cur < Len(g)
    BY <1>2, <1>3, <1>5
  <2>2. i \in 1..n /\ Holds(lower[i], u.old + s.cur)
    BY <1>3, <2>1, GetBlockFinds
  <2>3. t = [r EXCEPT !.at = i]
    <3>1. i # -1 /\ i # 0
      BY <2>2
    <3> QED
      BY <1>3, <1>5, <3>1 DEF Enter
  <2> HIDE DEF t, i
  <2>4. /\ r \in MergeState(n) /\ Covers(r, f, h, u.new + s.cur) /\ r.cur = s.cur
        /\ r.state # 1
    <3>1. CASE s.state = 1
      <4>1. s.state # 0 /\ u.new + s.cur \in Nat
        BY <1>2, <1>3, <3>1
      <4>2. /\ Flush(s) \in MergeState(n) /\ Covers(Flush(s), f, h, u.new + s.cur)
            /\ Flush(s).state = 0 /\ Flush(s).cur = s.cur
        BY <1>1, <1>3, <4>1, Flushed
      <4> QED
        BY <3>1, <4>2
    <3>2. CASE s.state # 1
      BY <1>1, <3>2
    <3> QED
      BY <3>1, <3>2
  <2> HIDE DEF r
  <2>5. /\ t.cur = s.cur /\ t.at = i /\ t.state = r.state /\ t.merged = r.merged
        /\ t.block = r.block
    BY <2>3, <2>4 DEF MergeState
  <2>6. t \in MergeState(n)
    <3>1. i \in 0..n
      BY <1>3, <2>2
    <3> QED
      BY <2>3, <2>4, <3>1 DEF MergeState
  <2>7. Covers(t, f, h, u.new + t.cur)
    BY <2>4, <2>5 DEF Covers
  <2>8. /\ lower[i].new <= u.old + t.cur /\ u.old + t.cur < lower[i].new + Size(lower[i])
    BY <2>2, <2>5 DEF Holds
  <2>9. Within(lower[i], u, t)
    BY <2>5, <2>8 DEF Within
  <2>10. u.old + t.cur <= lower[i].new + Size(lower[i]) /\ t.cur <= Size(u)
    <3>1. lower[i].new \in Nat /\ Size(lower[i]) \in Nat
      BY <2>2, ChainIs
    <3> QED
      BY <1>2, <1>3, <2>5, <2>8, <3>1
  <2>11. t.at # 0 /\ t.state # 1
    BY <2>2, <2>4, <2>5
  <2>12. MergeInv(lower, u, f, h, t)
    BY <2>5, <2>6, <2>7, <2>8, <2>9, <2>10, <2>11 DEF MergeInv
  <2> QED
    BY <2>5, <2>9, <2>11, <2>12 DEF t
<1> QED
  BY <1>4, <1>5

\* t is s after n more bytes, from byte p of the i-th lower block on.
Takes(lower, u, f, g, h, s, i, l, p, n, t) ==
  /\ Chain(lower, u, f, g, h) /\ MergeInv(lower, u, f, h, s)
  /\ i \in 1..Len(lower) /\ l = lower[i]
  /\ p \in Nat /\ n \in Nat /\ n > 0 /\ u.old + s.cur = l.new + p
  /\ p + n <= IF p < Len(l.add) THEN Len(l.add) ELSE Size(l)
  /\ s.cur + n <= IF s.cur < Len(u.add) THEN Len(u.add) ELSE Size(u)
  /\ p < Len(l.add) /\ s.cur < Len(u.add) => s.state # 1
  /\ t = IF p < Len(l.add) /\ s.cur < Len(u.add) THEN AddAdd(l, u, s, p, n)
         ELSE IF s.cur < Len(u.add)
         THEN Insert(u, s, Sum8(Part(l.insert, p - Len(l.add), n), Part(u.add, s.cur, n)))
         ELSE Insert(u, s, Part(u.insert, s.cur - Len(u.add), n))

\* What the inner loop makes of the next n bytes.
LEMMA AdvanceMakes ==
  ASSUME NEW lower, NEW u, NEW f, NEW g, NEW h, NEW s, NEW i, NEW l, NEW p, NEW n, NEW t,
         Takes(lower, u, f, g, h, s, i, l, p, n, t)
  PROVE  /\ t \in MergeState(Len(lower)) /\ Covers(t, f, h, u.new + (s.cur + n))
         /\ t.state = IF p < Len(l.add) /\ s.cur < Len(u.add) THEN 1 ELSE 2
         /\ t.cur = s.cur + n /\ t.at = s.at
<1> USE DEF Takes
<1> DEFINE a == Len(l.add)
           c == Len(u.add)
           m == Len(lower)
           pos == u.new + s.cur
           end == u.new + (s.cur + n)
<1>1. s \in MergeState(m) /\ Covers(s, f, h, pos)
  BY DEF MergeInv
<1>2. s.cur \in Nat
  BY <1>1 DEF MergeState
<1>3. /\ f \in Bytes /\ g \in Bytes /\ h \in Bytes /\ f # <<>> /\ u \in Block /\ IsTrue(u, g, h)
  BY DEF Chain
<1>4. /\ m \in Nat /\ u.old \in Nat /\ u.new \in Nat /\ c \in Nat /\ Len(u.insert) \in Nat
      /\ Size(u) = c + Len(u.insert) /\ Len(f) \in Nat /\ Len(h) \in Nat
      /\ u.new + Size(u) <= Len(h) /\ Size(u) \in Nat
  BY ChainIs
<1>5. /\ l \in Block /\ IsTrue(l, f, g) /\ Fits(l, Len(f)) /\ a \in Nat /\ l.new \in Nat
      /\ l.old \in Nat /\ Size(l) = a + Len(l.insert)
  BY ChainIs
<1>6. Len(l.insert) \in Nat
  BY <1>5, BlockIs
<1>7. pos \in Nat /\ pos = u.new + s.cur /\ end = pos + n
  <2>1. \A v, w, z \in Nat : v + w \in Nat /\ v + (w + z) = (v + w) + z
    OBVIOUS
  <2>2. u.new \in Nat
    BY <1>4
  <2> QED
    BY ONLY <1>2, <2>1, <2>2, n \in Nat
<1>8. /\ u.old + s.cur = l.new + p
      /\ p + n <= IF p < a THEN a ELSE Size(l)
      /\ s.cur + n <= IF s.cur < c THEN c ELSE Size(u)
      /\ t = IF p < a /\ s.cur < c THEN AddAdd(l, u, s, p, n)
             ELSE IF s.cur < c
             THEN Insert(u, s, Sum8(Part(l.insert, p - a, n), Part(u.add, s.cur, n)))
             ELSE Insert(u, s, Part(u.insert, s.cur - c, n))
  OBVIOUS
<1>9. Covers(s, f, h, pos)
  BY <1>1
<1> HIDE DEF a, c, m, pos, end
<1>10. s.cur + n <= Size(u)
  BY <1>2, <1>4, <1>8
<1>11. pos + n <= Len(h)
  <2>1. /\ u.new + Size(u) <= Len(h) /\ s.cur + n <= Size(u) /\ pos = u.new + s.cur
        /\ u.new \in Nat /\ s.cur \in Nat /\ Size(u) \in Nat /\ Len(h) \in Nat /\ n \in Nat
    BY <1>2, <1>4, <1>7, <1>10
  <2> QED
    BY ONLY <2>1
<1>12. CASE p < a /\ s.cur < c
  <2> DEFINE sum == Sum8(Part(l.add, p, n), Part(u.add, s.cur, n))
             from == l.old + p
  <2>1. /\ p + n <= Len(l.add) /\ s.cur + n <= Len(u.add)
        /\ sum = Sum8(Part(l.add, p, n), Part(u.add, s.cur, n)) /\ from = l.old + p
    BY <1>8, <1>12 DEF a, c
  <2> HIDE DEF sum, from
  <2>2. sum \in Bytes /\ Len(sum) = n /\ AddsOn(h, pos, f, from, sum)
    <3>1. OntoAdd(u, l, f, g, h, s.cur, p, n, sum, pos, from)
      BY ONLY <1>2, <1>3, <1>4, <1>5, <1>7, <1>8, <2>1, n \in Nat, p \in Nat DEF OntoAdd
    <3> QED
      BY ONLY <3>1, AddsTwice
  <2>3. l.old + p + n <= Len(f)
    <3>1. l.old + a <= Len(f) /\ p + n <= a
      BY <1>5, <2>1 DEF Fits, a
    <3> QED
      BY ONLY <1>4, <1>5, <3>1, p \in Nat, n \in Nat
  <2>4. t = AddAdd(l, u, s, p, n) /\ s.state # 1
    BY <1>8, <1>12 DEF a, c
  <2>5. /\ t \in MergeState(m) /\ Covers(t, f, h, end)
        /\ t.state = 1 /\ t.cur = s.cur + n /\ t.at = s.at
    <3>1. MayAdd(m, s, u, l, f, h, p, n, sum, from, pos, end)
      BY ONLY <1>1, <1>3, <1>4, <1>5, <1>7, <1>9, <1>11, <2>1, <2>2, <2>3, <2>4, n \in Nat, n > 0,
              p \in Nat DEF MayAdd
    <3> QED
      BY ONLY <2>4, <3>1, AddAdded
  <2> QED
    BY <1>12, <2>5 DEF m, end, a, c
<1>13. CASE ~(p < a) /\ s.cur < c
  <2> DEFINE from == p - a
             bytes == Sum8(Part(l.insert, from, n), Part(u.add, s.cur, n))
  <2>1. /\ from \in Nat /\ u.old + s.cur = l.new + (a + from) /\ s.cur + n <= c
        /\ from + n <= Len(l.insert)
    BY <1>2, <1>4, <1>5, <1>6, <1>8, <1>13
  <2>2. t = Insert(u, s, bytes) /\ bytes = Sum8(Part(l.insert, from, n), Part(u.add, s.cur, n))
    BY <1>8, <1>13
  <2> HIDE DEF from, bytes
  <2>3. bytes \in Bytes /\ Len(bytes) = n /\ GoesOn(h, pos, bytes)
    <3>1. OntoInsert(u, l, f, g, h, s.cur, from, n, bytes, pos)
      BY ONLY <1>2, <1>3, <1>4, <1>5, <1>7, <2>1, <2>2, n \in Nat DEF a, c, OntoInsert
    <3> QED
      BY ONLY <3>1, AddsToInserted
  <2>4. end = pos + Len(bytes) /\ Len(bytes) > 0
    BY <1>7, <2>3
  <2>5. /\ t \in MergeState(m) /\ Covers(t, f, h, end)
        /\ t.state = 2 /\ t.cur = s.cur + Len(bytes) /\ t.at = s.at
    <3>1. MayInsert(m, s, u, f, h, bytes, pos, end)
      BY ONLY <1>1, <1>3, <1>4, <1>7, <1>9, <2>3, <2>4 DEF MayInsert
    <3> QED
      BY ONLY <2>2, <3>1, Inserted
  <2> QED
    BY <1>13, <2>3, <2>5 DEF m, end, a, c
<1>14. CASE ~(s.cur < c)
  <2> DEFINE from == s.cur - c
             bytes == Part(u.insert, from, n)
  <2>1. from \in Nat /\ s.cur = c + from /\ from + n <= Len(u.insert)
    <3>1. s.cur + n <= c + Len(u.insert)
      BY <1>4, <1>8, <1>14
    <3>2. c \in Nat /\ Len(u.insert) \in Nat
      BY <1>4
    <3> QED
      BY ONLY <1>2, <1>14, <3>1, <3>2, n \in Nat
  <2>2. t = Insert(u, s, bytes) /\ bytes = Part(u.insert, from, n)
    BY <1>8, <1>14
  <2> HIDE DEF from, bytes
  <2>3. bytes \in Bytes /\ Len(bytes) = n /\ GoesOn(h, pos, bytes)
    <3>1. OfInsert(u, g, h, s.cur, from, n, bytes, pos)
      BY ONLY <1>2, <1>3, <1>4, <1>7, <2>1, <2>2, n \in Nat DEF c, OfInsert
    <3> QED
      BY ONLY <3>1, UpperInserts
  <2>4. end = pos + Len(bytes) /\ Len(bytes) > 0
    BY <1>7, <2>3
  <2>5. /\ t \in MergeState(m) /\ Covers(t, f, h, end)
        /\ t.state = 2 /\ t.cur = s.cur + Len(bytes) /\ t.at = s.at
    <3>1. MayInsert(m, s, u, f, h, bytes, pos, end)
      BY ONLY <1>1, <1>3, <1>4, <1>7, <1>9, <2>3, <2>4 DEF MayInsert
    <3> QED
      BY ONLY <2>2, <3>1, Inserted
  <2> QED
    BY <1>14, <2>3, <2>5 DEF m, end, a, c
<1> QED
  BY <1>12, <1>13, <1>14

\* The inner loop goes on.
LEMMA AdvanceStays ==
  ASSUME NEW lower, NEW u, NEW f, NEW g, NEW h, Chain(lower, u, f, g, h), NEW s,
         MergeInv(lower, u, f, h, s), s.at # 0, Within(lower[s.at], u, s)
  PROVE  LET t == Advance(lower[s.at], u, s) IN
         MergeInv(lower, u, f, h, t) /\ t.at = s.at /\ t.cur > s.cur
<1> DEFINE i == s.at
           l == lower[i]
           p == u.old + s.cur - l.new
           a == Len(l.add)
           c == Len(u.add)
           n == Least((IF p < a THEN a ELSE Size(l)) - p, (IF s.cur < c THEN c ELSE Size(u)) - s.cur)
           t == Advance(l, u, s)
<1>1. /\ s \in MergeState(Len(lower)) /\ l.new <= u.old + s.cur
      /\ s.state = 1 => l.new + a <= u.old + s.cur \/ c <= s.cur
  BY DEF MergeInv
<1>2. s.cur \in Nat /\ i \in 0..Len(lower)
  BY <1>1 DEF MergeState
<1>3. /\ Len(lower) \in Nat /\ u.old \in Nat /\ u.new \in Nat /\ c \in Nat /\ Size(u) \in Nat
      /\ Len(u.insert) \in Nat /\ Size(u) = c + Len(u.insert)
  BY ChainIs
<1>4. i \in 1..Len(lower)
  BY <1>2, <1>3
<1>5. a \in Nat /\ l.new \in Nat /\ Size(l) \in Nat /\ l \in Block /\ Size(l) = a + Len(l.insert)
  BY <1>4, ChainIs
<1>6. a <= Size(l) /\ c <= Size(u)
  <2>1. Len(l.insert) \in Nat
    BY <1>5, BlockIs
  <2>2. \A v, w, z \in Nat : v = w + z => w <= v
    OBVIOUS
  <2>3. a <= Size(l)
    BY <1>5, <2>1, <2>2
  <2>4. c <= Size(u)
    BY <1>3, <2>2
  <2> QED
    BY <2>3, <2>4
<1>7. s.cur < Size(u) /\ u.old + s.cur < l.new + Size(l)
  BY DEF Within
<1>8. t = IF p < a /\ s.cur < c THEN AddAdd(l, u, s, p, n)
          ELSE IF s.cur < c
          THEN Insert(u, s, Sum8(Part(l.insert, p - a, n), Part(u.add, s.cur, n)))
          ELSE Insert(u, s, Part(u.insert, s.cur - c, n))
  BY DEF Advance, Part
<1> DEFINE x == (IF p < a THEN a ELSE Size(l)) - p
           y == (IF s.cur < c THEN c ELSE Size(u)) - s.cur
<1>9. n = Least(x, y)
  OBVIOUS
<1>10. t = Advance(lower[s.at], u, s) /\ i = s.at /\ l = lower[i]
  OBVIOUS
<1> HIDE DEF t, n, l, i
<1>11. p \in Nat /\ u.old + s.cur = l.new + p /\ p < Size(l)
  <2>1. /\ l.new <= u.old + s.cur /\ u.old + s.cur < l.new + Size(l) /\ l.new \in Nat
        /\ u.old \in Nat /\ s.cur \in Nat /\ Size(l) \in Nat
    BY <1>1, <1>2, <1>3, <1>5, <1>7
  <2> QED
    BY ONLY <2>1
<1> HIDE DEF p, a, c
<1>12. x \in Nat /\ x > 0 /\ y \in Nat /\ y > 0
  <2>1. x \in Nat /\ x > 0
    BY ONLY <1>5, <1>6, <1>11
  <2>2. y \in Nat /\ y > 0
    BY ONLY <1>2, <1>3, <1>6, <1>7
  <2> QED
    BY ONLY <2>1, <2>2
<1>13. n \in Nat /\ n > 0 /\ n <= x /\ n <= y /\ (n = x \/ n = y)
  <2> HIDE DEF x, y
  <2> QED
    BY ONLY <1>9, <1>12 DEF Least
<1>14. /\ p + n <= IF p < a THEN a ELSE Size(l)
       /\ s.cur + n <= IF s.cur < c THEN c ELSE Size(u)
  <2>1. \A v, w, k \in Nat : k <= w - v => v + k <= w
    OBVIOUS
  <2>2. (IF p < a THEN a ELSE Size(l)) \in Nat /\ (IF s.cur < c THEN c ELSE Size(u)) \in Nat
    BY <1>3, <1>5
  <2> QED
    BY <1>2, <1>11, <1>13, <2>1, <2>2
<1> HIDE DEF x, y
<1>15. p < a /\ s.cur < c => s.state # 1
  <2>1. l.new + a <= u.old + s.cur => ~(p < a)
    BY ONLY <1>2, <1>3, <1>5, <1>11
  <2>2. c <= s.cur => ~(s.cur < c)
    BY ONLY <1>2, <1>3
  <2>3. s.state = 1 => l.new + a <= u.old + s.cur \/ c <= s.cur
    BY <1>1
  <2> QED
    BY ONLY <2>1, <2>2, <2>3
<1>16. /\ t \in MergeState(Len(lower)) /\ Covers(t, f, h, u.new + (s.cur + n))
       /\ t.state = IF p < a /\ s.cur < c THEN 1 ELSE 2
       /\ t.cur = s.cur + n /\ t.at = s.at
  <2>1. Takes(lower, u, f, g, h, s, i, l, p, n, t)
    BY <1>4, <1>8, <1>10, <1>11, <1>13, <1>14, <1>15 DEF Takes, a, c
  <2> QED
    BY <2>1, AdvanceMakes DEF a, c
<1>17. t.cur > s.cur /\ t.cur <= Size(u) /\ t.cur \in Nat
  <2>1. s.cur + n <= Size(u)
    <3>1. \A v, w, x1 \in Nat : v <= w /\ w <= x1 => v <= x1
      OBVIOUS
    <3>2. s.cur + n \in Nat /\ c \in Nat /\ Size(u) \in Nat /\ c <= Size(u)
      BY <1>2, <1>3, <1>6, <1>13
    <3> QED
      BY ONLY <1>14, <3>1, <3>2
  <2>2. n \in Nat /\ n > 0
    BY <1>13
  <2>3. s.cur + n > s.cur /\ s.cur + n <= Size(u) /\ s.cur + n \in Nat
    BY ONLY <1>2, <2>1, <2>2
  <2>4. t.cur = s.cur + n
    BY <1>16
  <2> QED
    BY ONLY <2>3, <2>4
<1>18. l.new <= u.old + t.cur /\ u.old + t.cur <= l.new + Size(l)
  <2>1. p + n <= Size(l)
    BY <1>5, <1>6, <1>11, <1>13, <1>14
  <2>2. u.old + t.cur = l.new + (p + n)
    <3>1. t.cur = s.cur + n
      BY <1>16
    <3>2. \A v, w, x1, x2, x3 \in Nat : v + w = x1 + x2 => v + (w + x3) = x1 + (x2 + x3)
      OBVIOUS
    <3>3. /\ u.old \in Nat /\ s.cur \in Nat /\ l.new \in Nat /\ p \in Nat /\ n \in Nat
          /\ u.old + s.cur = l.new + p
      BY <1>2, <1>3, <1>5, <1>11, <1>13
    <3>4. u.old + (s.cur + n) = l.new + (p + n)
      BY ONLY <3>2, <3>3
    <3> QED
      BY <3>1, <3>4
  <2> QED
    BY ONLY <1>5, <1>11, <1>13, <2>1, <2>2
<1>19. t.state = 1 => l.new + a <= u.old + t.cur \/ c <= t.cur
  <2> SUFFICES ASSUME t.state = 1 PROVE l.new + a <= u.old + t.cur \/ c <= t.cur
    OBVIOUS
  <2>1. p < a /\ s.cur < c
    BY <1>16
  <2>2. n = a - p \/ n = c - s.cur
    BY <1>13, <2>1 DEF x, y
  <2>3. t.cur = s.cur + n
    BY <1>16
  <2>4. n = a - p => l.new + a <= u.old + t.cur
    <3>1. \A v, w, x1, x2, x3 \in Nat : v + w = x1 + x2 => x1 + x3 <= v + (w + (x3 - x2))
      OBVIOUS
    <3>2. l.new + a <= u.old + (s.cur + (a - p))
      BY <1>2, <1>3, <1>5, <1>11, <3>1
    <3> QED
      BY <2>3, <3>2
  <2>5. n = c - s.cur => c <= t.cur
    BY ONLY <1>2, <1>3, <2>3
  <2> QED
    BY <2>2, <2>4, <2>5
<1>20. t.state # 0 /\ t.at # 0 /\ t.at = i
  BY <1>10, <1>16
<1>21. Covers(t, f, h, u.new + t.cur)
  BY <1>16
<1>22. MergeInv(lower, u, f, h, t)
  <2>1. lower[t.at] = l /\ t \in MergeState(Len(lower))
    BY <1>10, <1>16, <1>20
  <2> QED
    BY ONLY <1>17, <1>18, <1>19, <1>20, <1>21, <2>1 DEF MergeInv, a, c
<1> QED
  BY <1>10, <1>16, <1>17, <1>22

\* The inner loop is done.
LEMMA LeaveStays ==
  ASSUME NEW lower, NEW u, NEW f, NEW g, NEW h, Chain(lower, u, f, g, h), NEW s,
         MergeInv(lower, u, f, h, s), s.at # 0, ~Within(lower[s.at], u, s)
  PROVE  LET t == [s EXCEPT !.at = 0] IN MergeInv(lower, u, f, h, t) /\ t.at = 0 /\ t.cur = s.cur
<1> DEFINE t == [s EXCEPT !.at = 0]
<1>1. /\ s \in MergeState(Len(lower)) /\ s.cur <= Size(u) /\ Covers(s, f, h, u.new + s.cur)
      /\ s.state # 0
  BY DEF MergeInv
<1>2. /\ t.at = 0 /\ t.cur = s.cur /\ t.state = s.state /\ t.block = s.block /\ t.merged = s.merged
  BY <1>1 DEF MergeState
<1>3. t \in MergeState(Len(lower))
  <2>1. 0 \in 0..Len(lower)
    <3>1. Len(lower) \in Nat
      BY ChainIs
    <3> QED
      BY ONLY <3>1
  <2> QED
    BY <1>1, <2>1 DEF MergeState
<1> HIDE DEF t
<1>4. Covers(t, f, h, u.new + t.cur)
  BY <1>1, <1>2 DEF Covers
<1>5. MergeInv(lower, u, f, h, t)
  BY <1>1, <1>2, <1>3, <1>4 DEF MergeInv
<1> QED
  BY <1>2, <1>5 DEF t

\* No more than so many steps were made: each byte takes three at most, to find its lower
\* block, to merge it and to leave the lower block.
Bound(lower, u, s, k) ==
  /\ s.at = 0 => k <= 3 * s.cur
  /\ s.at # 0 /\ Within(lower[s.at], u, s) => k <= 3 * s.cur + 1
  /\ s.at # 0 /\ ~Within(lower[s.at], u, s) => k + 1 <= 3 * s.cur

\* Each step of the two loops keeps the invariant, and its bound.
LEMMA StepStays ==
  ASSUME NEW lower, NEW u, NEW f, NEW g, NEW h, Chain(lower, u, f, g, h), NEW s,
         MergeInv(lower, u, f, h, s), Running(u, s), NEW k \in Nat
  PROVE  LET t == Step(lower, u, s) IN
         MergeInv(lower, u, f, h, t) /\ (Bound(lower, u, s, k) => Bound(lower, u, t, k + 1))
<1> DEFINE t == Step(lower, u, s)
<1>1. s.cur \in Nat
  BY DEF MergeInv, MergeState
<1>2. CASE s.at = 0
  <2>1. s.cur < Size(u) /\ t = Enter(lower, u, s)
    BY <1>2 DEF Running, Step
  <2> HIDE DEF t
  <2>2. /\ MergeInv(lower, u, f, h, t)
        /\ t.at = 0 => t.cur = Size(u)
        /\ t.at # 0 => t.cur = s.cur /\ Within(lower[t.at], u, t)
    BY <1>2, <2>1, EnterStays
  <2>3. Bound(lower, u, s, k) => Bound(lower, u, t, k + 1)
    <3> SUFFICES ASSUME Bound(lower, u, s, k) PROVE Bound(lower, u, t, k + 1)
      OBVIOUS
    <3>1. k <= 3 * s.cur
      BY <1>2 DEF Bound
    <3>2. t.at = 0 => k + 1 <= 3 * t.cur
      <4>1. t.at = 0 => t.cur \in Nat /\ t.cur > s.cur
        BY <2>1, <2>2 DEF MergeInv, MergeState
      <4> QED
        BY ONLY <1>1, <3>1, <4>1, k \in Nat
    <3>3. t.at # 0 => k + 1 <= 3 * t.cur + 1
      BY ONLY <1>1, <2>2, <3>1, k \in Nat
    <3> QED
      BY <2>2, <3>2, <3>3 DEF Bound
  <2> QED
    BY <2>2, <2>3 DEF t
<1>3. CASE s.at # 0 /\ Within(lower[s.at], u, s)
  <2>1. t = Advance(lower[s.at], u, s)
    BY <1>3 DEF Step
  <2> HIDE DEF t
  <2>2. MergeInv(lower, u, f, h, t) /\ t.at = s.at /\ t.cur > s.cur
    BY <1>3, <2>1, AdvanceStays
  <2>3. Bound(lower, u, s, k) => Bound(lower, u, t, k + 1)
    <3> SUFFICES ASSUME Bound(lower, u, s, k) PROVE Bound(lower, u, t, k + 1)
      OBVIOUS
    <3>1. k <= 3 * s.cur + 1
      BY <1>3 DEF Bound
    <3>2. t.cur \in Nat
      BY <2>2 DEF MergeInv, MergeState
    <3>3. t.cur > s.cur
      BY <2>2
    <3>4. k + 1 <= 3 * t.cur + 1 /\ (k + 1) + 1 <= 3 * t.cur
      BY ONLY <1>1, <3>1, <3>2, <3>3, k \in Nat
    <3> QED
      BY <1>3, <2>2, <3>4 DEF Bound
  <2> QED
    BY <2>2, <2>3 DEF t
<1>4. CASE s.at # 0 /\ ~Within(lower[s.at], u, s)
  <2>1. t = [s EXCEPT !.at = 0]
    BY <1>4 DEF Step
  <2> HIDE DEF t
  <2>2. MergeInv(lower, u, f, h, t) /\ t.at = 0 /\ t.cur = s.cur
    BY <1>4, <2>1, LeaveStays
  <2>3. Bound(lower, u, s, k) => Bound(lower, u, t, k + 1)
    BY <1>4, <2>2 DEF Bound
  <2> QED
    BY <2>2, <2>3 DEF t
<1> QED
  BY <1>2, <1>3, <1>4

\* One upper block is merged into all that there is before it.
LEMMA MergeOneIs ==
  ASSUME NEW lower, NEW u, NEW f, NEW g, NEW h, Chain(lower, u, f, g, h), NEW r,
         r.out = "ok", Tiles(r.merged, u.new), AllLead(r.merged, f, h), NEW end,
         end = u.new + Size(u)
  PROVE  LET t == MergeOne(lower, r, u) IN
         /\ t \in [merged : Seq(Block), out : {"ok"}]
         /\ Tiles(t.merged, end) /\ AllLead(t.merged, f, h)
<1> DEFINE m == Len(lower)
           N == 3 * (Size(u) + 1)
           D == {x \in MergeState(m) : MergeInv(lower, u, f, h, x)}
           first == Start(u, r.merged)
           F(k, x) == GoOn(lower, u, x)
           G == [a \in (1..N) \X D |-> F(a[1], a[2])]
           W == CHOOSE w : w = [k \in 0..N |-> IF k = 0 THEN first ELSE F(k, w[k - 1])]
           t == MergeOne(lower, r, u)
<1>1. t = IF W[N].out # "ok" THEN [merged |-> r.merged, out |-> W[N].out]
          ELSE [merged |-> IF W[N].state = 0 THEN W[N].merged
                           ELSE Append(W[N].merged, W[N].block),
                out |-> IF W[N].cur = Size(u) THEN "ok" ELSE "hangs"]
  BY DEF MergeOne
<1>2. m \in Nat /\ Size(u) \in Nat /\ u.new \in Nat
  BY ChainIs
<1>3. N \in Nat
  BY <1>2
<1>4. /\ first \in D /\ first.at = 0 /\ first.cur = 0
  <2>1. /\ NewBlock(u.new) \in Block /\ NewBlock(u.new).old = 0
        /\ NewBlock(u.new).add = <<>> /\ NewBlock(u.new).insert = <<>>
    BY <1>2, NewBlockIs
  <2>2. r.merged \in Seq(Block)
    BY DEF Tiles
  <2>3. /\ first \in MergeState(m) /\ first.at = 0 /\ first.cur = 0 /\ first.state = 0
        /\ first.block = NewBlock(u.new) /\ first.merged = r.merged
    BY <1>2, <2>1, <2>2 DEF Start, MergeState
  <2> HIDE DEF first
  <2>4. u.new + first.cur = u.new /\ first.cur <= Size(u)
    BY <1>2, <2>3
  <2>5. Covers(first, f, h, u.new)
    BY <2>1, <2>3 DEF Covers
  <2>6. Covers(first, f, h, u.new + first.cur)
    BY <2>4, <2>5
  <2>7. MergeInv(lower, u, f, h, first)
    BY <2>3, <2>4, <2>6 DEF MergeInv
  <2> QED
    BY <2>3, <2>7
<1>5. \A k \in 1..N, x \in D : F(k, x) \in D
  <2> SUFFICES ASSUME NEW x \in D PROVE GoOn(lower, u, x) \in D
    OBVIOUS
  <2>1. CASE Running(u, x)
    <3>1. MergeInv(lower, u, f, h, x) /\ 0 \in Nat
      OBVIOUS
    <3>2. MergeInv(lower, u, f, h, Step(lower, u, x))
      BY ONLY Chain(lower, u, f, g, h), <2>1, <3>1, StepStays
    <3>3. Step(lower, u, x) \in MergeState(m)
      BY <3>2 DEF MergeInv
    <3> QED
      BY <2>1, <3>2, <3>3 DEF GoOn
  <2>2. CASE ~Running(u, x)
    BY <2>2 DEF GoOn
  <2> QED
    BY <2>1, <2>2
<1>6. \A x \in D : MergeInv(lower, u, f, h, x)
  OBVIOUS
<1> HIDE DEF N, D, first, F, W, t
<1>7. G \in [(1..N) \X D -> D] /\ \A k \in 1..N, x \in D : G[<<k, x>>] = F(k, x)
  BY <1>5
<1> HIDE DEF G
<1>8. PICK e : e \in [0..N -> D] /\ Iterates(e, first, G, N)
  BY <1>3, <1>4, <1>7, Iteration
<1>9. e[0] = first /\ \A k \in 1..N : e[k] = F(k, e[k - 1])
  <2>1. e \in [0..N -> D] /\ e[0] = first /\ \A k \in 1..N : e[k] = G[<<k, e[k - 1]>>]
    BY <1>8 DEF Iterates
  <2>2. \A k \in 1..N : e[k - 1] \in D
    BY <1>3, <2>1
  <2> QED
    BY <1>7, <2>1, <2>2
<1>10. e = [k \in 0..N |-> IF k = 0 THEN first ELSE F(k, e[k - 1])]
  BY <1>3, <1>8, <1>9
<1>11. W = [k \in 0..N |-> IF k = 0 THEN first ELSE F(k, W[k - 1])]
  BY <1>10 DEF W
<1>12. W[0] = first /\ \A k \in 1..N : W[k] = GoOn(lower, u, W[k - 1])
  <2>1. W[0] = first
    BY <1>3, <1>11
  <2>2. \A k \in 1..N : W[k] = F(k, W[k - 1])
    BY <1>3, <1>11
  <2> QED
    BY <2>1, <2>2 DEF F
<1>13. \A k \in 0..N : W[k] \in D
  <2>1. \A k \in 1..N : W[k] = F(k, W[k - 1])
    BY <1>12 DEF F
  <2> QED
    BY <1>3, <1>4, <1>5, <1>12, <2>1, LoopStays
<1> DEFINE Good(k) == Running(u, W[k]) => Bound(lower, u, W[k], k)
           T == {k \in 0..N : Good(k)}
<1>14. 0 \in T
  <2>1. Bound(lower, u, W[0], 0)
    BY <1>4, <1>12 DEF Bound
  <2> QED
    BY <1>3, <2>1
<1>15. ASSUME NEW k \in 1..N, k - 1 \in T PROVE k \in T
  <2>1. k - 1 \in Nat /\ (k - 1) + 1 = k /\ k - 1 \in 0..N /\ k \in 0..N
    BY <1>3
  <2>2. MergeInv(lower, u, f, h, W[k - 1]) /\ W[k] = GoOn(lower, u, W[k - 1])
    BY <1>6, <1>12, <1>13, <2>1
  <2>3. CASE Running(u, W[k - 1])
    <3>1. Bound(lower, u, W[k - 1], k - 1)
      BY <1>15, <2>3
    <3>2. W[k] = Step(lower, u, W[k - 1])
      BY <2>2, <2>3 DEF GoOn
    <3> DEFINE j == k - 1
               x == W[j]
    <3>3. /\ Chain(lower, u, f, g, h) /\ MergeInv(lower, u, f, h, x) /\ Running(u, x) /\ j \in Nat
          /\ Bound(lower, u, x, j) /\ W[k] = Step(lower, u, x) /\ j + 1 = k
      BY <2>1, <2>2, <2>3, <3>1, <3>2
    <3> HIDE DEF j, x
    <3>4. Bound(lower, u, Step(lower, u, x), j + 1)
      BY ONLY <3>3, StepStays
    <3>5. Good(k)
      BY <3>3, <3>4
    <3> HIDE DEF Good
    <3> QED
      BY <2>1, <3>5
  <2>4. CASE ~Running(u, W[k - 1])
    <3>1. W[k] = W[k - 1]
      BY <2>2, <2>4 DEF GoOn
    <3> QED
      BY <2>1, <2>4, <3>1
  <2> QED
    BY <2>3, <2>4
<1>16. Good(N)
  <2> HIDE DEF T
  <2>1. \A k \in 0..N : k \in T
    BY <1>3, <1>14, <1>15, UpTo
  <2> QED
    BY <1>3, <2>1 DEF T
<1> DEFINE s == W[N]
<1>17. MergeInv(lower, u, f, h, s)
  <2>1. N \in 0..N
    BY <1>3
  <2> QED
    BY <1>6, <1>13, <2>1
<1>18. s \in MergeState(m) /\ s.cur <= Size(u) /\ Covers(s, f, h, u.new + s.cur)
  BY <1>17 DEF MergeInv
<1>19. Running(u, s) => Bound(lower, u, s, N)
  BY <1>16
<1>20. s.cur \in Nat /\ s.out = "ok" /\ s.merged \in Seq(Block) /\ s.block \in Block
  BY <1>18 DEF MergeState
<1> HIDE DEF s, T, Good
<1>21. ~Running(u, s)
  <2> SUFFICES ASSUME Running(u, s) PROVE FALSE
    OBVIOUS
  <2>1. N <= 3 * s.cur \/ N <= 3 * s.cur + 1 \/ N + 1 <= 3 * s.cur
    BY <1>19 DEF Bound
  <2>2. N = 3 * (Size(u) + 1)
    BY DEF N
  <2> QED
    BY ONLY <1>2, <1>3, <1>18, <1>20, <2>1, <2>2
<1>22. s.cur = Size(u)
  <2>1. ~(s.cur < Size(u))
    BY <1>20, <1>21 DEF Running
  <2> QED
    BY ONLY <1>2, <1>18, <1>20, <2>1
<1>23. Covers(s, f, h, end)
  BY <1>18, <1>22
<1>24. t = [merged |-> IF s.state = 0 THEN s.merged ELSE Append(s.merged, s.block), out |-> "ok"]
  BY <1>1, <1>20, <1>22 DEF s
<1>25. CASE s.state = 0
  <2>1. Tiles(s.merged, end) /\ AllLead(s.merged, f, h)
    BY <1>23, <1>25 DEF Covers
  <2> QED
    BY <1>20, <1>24, <1>25, <2>1 DEF t
<1>26. CASE s.state # 0
  <2> DEFINE b == s.block
             more == Append(s.merged, b)
  <2>1. /\ AllLead(s.merged, f, h) /\ Tiles(s.merged, b.new) /\ Size(b) > 0
        /\ b.new + Size(b) = end /\ IsTrue(b, f, h) /\ Fits(b, Len(f)) /\ b \in Block
    BY <1>20, <1>23, <1>26 DEF Covers, Made
  <2>2. b.new \in Nat
    BY <2>1, BlockIs
  <2> HIDE DEF b
  <2>3. Tiles(more, end)
    BY <2>1, <2>2, OneMoreTile
  <2>4. AllLead(more, f, h)
    BY <1>20, <2>1, AllLeadMore
  <2>5. more \in Seq(Block)
    BY <2>3 DEF Tiles
  <2>6. t = [merged |-> more, out |-> "ok"]
    BY <1>24, <1>26 DEF b
  <2> HIDE DEF more
  <2> QED
    BY <2>3, <2>4, <2>5, <2>6 DEF t
<1> QED
  BY <1>25, <1>26
------------------------------------------------------------------------------
(* Merging and writing *)

\* All upper blocks are merged, without an error.
LEMMA MergeBlocksIs ==
  ASSUME NEW lower, NEW upper, NEW f \in Bytes, NEW g \in Bytes, NEW h \in Bytes,
         f # <<>>, g # <<>>, Leads(lower, f, g), Leads(upper, g, h)
  PROVE  LET t == MergeBlocks(lower, upper) IN t.out = "ok" /\ Leads(t.merged, f, h)
<1> DEFINE n == Len(upper)
           D == [merged : Seq(Block), out : {"ok"}]
           first == [merged |-> <<>>, out |-> "ok"]
           F(k, x) == MergeOne(lower, x, upper[k])
           G == [a \in (1..n) \X D |-> IF F(a[1], a[2]) \in D THEN F(a[1], a[2]) ELSE first]
           W == CHOOSE w : w = [k \in 0..n |-> IF k = 0 THEN first ELSE F(k, w[k - 1])]
           Good(k, x) == Tiles(x.merged, EndOf(upper, k)) /\ AllLead(x.merged, f, h)
<1>1. lower # <<>> => MergeBlocks(lower, upper) = W[n]
  BY DEF MergeBlocks
<1>2. lower # <<>>
  <2>1. Tiles(lower, Len(g)) /\ Len(g) # 0
    BY EmptySeq DEF Leads, Bytes
  <2> QED
    BY <2>1 DEF Tiles, EndOf
<1>3. /\ upper \in Seq(Block) /\ n \in Nat /\ EndOf(upper, n) = Len(h)
      /\ \A k \in 1..n : /\ upper[k].new = EndOf(upper, k - 1)
                         /\ IsTrue(upper[k], g, h) /\ Fits(upper[k], Len(g))
  BY DEF Leads, Tiles
<1>4. \A k \in 1..n : EndOf(upper, k) = upper[k].new + Size(upper[k])
  BY <1>3 DEF EndOf
<1>5. first \in D /\ Good(0, first)
  BY DEF Tiles, EndOf, AllLead
<1>6. ASSUME NEW k \in 1..n, NEW x \in D, Good(k - 1, x) PROVE F(k, x) \in D /\ Good(k, F(k, x))
  <2> DEFINE u == upper[k]
             end == EndOf(upper, k)
  <2>1. /\ u \in Block /\ end = u.new + Size(u) /\ u.new = EndOf(upper, k - 1)
        /\ IsTrue(u, g, h) /\ Fits(u, Len(g))
    BY <1>3, <1>4
  <2>2. Chain(lower, u, f, g, h)
    BY <2>1 DEF Chain
  <2>3. x.out = "ok" /\ Tiles(x.merged, u.new) /\ AllLead(x.merged, f, h)
    BY <1>6, <2>1
  <2> HIDE DEF u, end
  <2>4. LET t == MergeOne(lower, x, u) IN
        t \in D /\ Tiles(t.merged, end) /\ AllLead(t.merged, f, h)
    BY <2>1, <2>2, <2>3, MergeOneIs
  <2> QED
    BY <2>4 DEF u, end
<1> HIDE DEF n, D, first, F, W, Good
<1>7. G \in [(1..n) \X D -> D]
  BY <1>5
<1>8. \A k \in 1..n, x \in D : Good(k - 1, x) => G[<<k, x>>] = F(k, x)
  BY <1>6
<1> HIDE DEF G
<1>9. PICK e : e \in [0..n -> D] /\ Iterates(e, first, G, n)
  BY <1>3, <1>5, <1>7, Iteration
<1>10. e[0] = first /\ \A k \in 1..n : e[k] = G[<<k, e[k - 1]>>]
  BY <1>9 DEF Iterates
<1>11. \A k \in 1..n : k - 1 \in 0..n /\ e[k - 1] \in D
  BY <1>3, <1>9
<1> DEFINE T == {k \in 0..n : Good(k, e[k])}
<1>12. 0 \in T
  BY <1>3, <1>5, <1>10
<1>13. ASSUME NEW k \in 1..n, k - 1 \in T PROVE k \in T
  <2>1. Good(k - 1, e[k - 1]) /\ e[k - 1] \in D
    BY <1>11, <1>13
  <2>2. e[k] = F(k, e[k - 1])
    BY <1>8, <1>10, <2>1
  <2>3. Good(k, e[k])
    BY <1>6, <2>1, <2>2
  <2> QED
    BY <1>3, <2>3
<1>14. \A k \in 0..n : Good(k, e[k])
  <2>1. \A k \in 0..n : k \in T
    <3> HIDE DEF T
    <3> QED
      BY <1>3, <1>12, <1>13, UpTo
  <2> QED
    BY <2>1
<1>15. \A k \in 1..n : e[k] = F(k, e[k - 1])
  BY <1>8, <1>10, <1>11, <1>14
<1>16. e = [k \in 0..n |-> IF k = 0 THEN first ELSE F(k, e[k - 1])]
  BY <1>3, <1>9, <1>10, <1>15
<1>17. W = [k \in 0..n |-> IF k = 0 THEN first ELSE F(k, W[k - 1])]
  BY <1>16 DEF W
<1>18. W[0] = first /\ \A k \in 1..n : W[k] = F(k, W[k - 1])
  BY <1>3, <1>17
<1> DEFINE V == {k \in 0..n : W[k] \in D /\ Good(k, W[k])}
<1>19. 0 \in V
  BY <1>3, <1>5, <1>18
<1>20. ASSUME NEW k \in 1..n, k - 1 \in V PROVE k \in V
  BY <1>6, <1>18, <1>20
<1>21. n \in V
  <2> HIDE DEF V
  <2>1. \A k \in 0..n : k \in V
    BY <1>3, <1>19, <1>20, UpTo
  <2> QED
    BY <1>3, <2>1
<1>22. W[n] \in D /\ Tiles(W[n].merged, Len(h)) /\ AllLead(W[n].merged, f, h)
  BY <1>3, <1>21 DEF Good
<1> QED
  BY <1>1, <1>2, <1>22 DEF D, Leads, AllLead

\* The blocks say all of the new file: there is but one.
LEMMA OnlyOne ==
  ASSUME NEW blocks, NEW old, NEW x \in Bytes, NEW y \in Bytes, NEW n, Len(x) = n, Len(y) = n,
         Tiles(blocks, n), \A i \in 1..Len(blocks) : IsTrue(blocks[i], old, x),
         \A i \in 1..Len(blocks) : IsTrue(blocks[i], old, y)
  PROVE  x = y
<1>1. n \in Nat
  BY DEF Bytes
<1>2. ASSUME NEW j \in 1..n PROVE x[j] = y[j]
  <2>1. j - 1 \in Nat /\ j - 1 < n
    BY <1>1
  <2>2. PICK w \in 1..Len(blocks) : Holds(blocks[w], j - 1)
    BY <2>1, SomeHolds
  <2> DEFINE b == blocks[w]
             a == Len(b.add)
             c == Len(b.insert)
  <2>3. blocks \in Seq(Block)
    BY DEF Tiles
  <2>4. b \in Block
    BY <2>3
  <2>5. b.new \in Nat /\ a \in Nat /\ c \in Nat /\ Size(b) = a + c
    BY <2>4, BlockIs
  <2>6. IsTrue(b, old, x) /\ IsTrue(b, old, y)
    OBVIOUS
  <2>7. b.new <= j - 1 /\ j - 1 < b.new + (a + c)
    BY <2>2, <2>5 DEF Holds
  <2>8. /\ \A i \in 1..a : x[b.new + i] = y[b.new + i]
        /\ \A i \in 1..c : x[b.new + a + i] = y[b.new + a + i]
    BY <2>6 DEF IsTrue
  <2> HIDE DEF b, a, c
  <2>9. CASE j - b.new <= a
    <3>1. j - b.new \in 1..a /\ b.new + (j - b.new) = j
      BY ONLY <1>1, <2>5, <2>7, <2>9, j \in 1..n
    <3> QED
      BY <2>8, <3>1
  <2>10. CASE ~(j - b.new <= a)
    <3>1. j - b.new - a \in 1..c /\ b.new + a + (j - b.new - a) = j
      BY ONLY <1>1, <2>5, <2>7, <2>10, j \in 1..n
    <3> QED
      BY <2>8, <3>1
  <2> QED
    BY <2>9, <2>10
<1> QED
  BY <1>1, <1>2 DEF Bytes

\* What is written reads back, and patches to the file that the blocks lead to.
LEMMA WrittenPatches ==
  ASSUME NEW blocks, NEW f \in Bytes, NEW h \in Bytes, Leads(blocks, f, h)
  PROVE  LET d == Write(blocks) IN
         d \in Seq(Ctrl) /\ Read(d) = blocks /\ Patch(f, d) = h
<1> DEFINE d == Write(blocks)
           p == Patch(f, d)
<1>1. /\ Tiles(blocks, Len(h))
      /\ \A i \in 1..Len(blocks) : IsTrue(blocks[i], f, h)
  BY DEF Leads
<1>2. d \in Seq(Ctrl) /\ Read(d) = blocks
  BY <1>1, RoundTrip
<1>3. /\ p \in Bytes /\ Tiles(blocks, Len(p))
      /\ \A i \in 1..Len(blocks) : IsTrue(blocks[i], f, p)
  BY <1>2, ReadSays
<1> HIDE DEF p
<1>4. Len(p) = Len(h)
  BY <1>1, <1>3 DEF Tiles
<1>5. p = h
  BY <1>1, <1>3, <1>4, OnlyOne
<1> QED
  BY <1>2, <1>5 DEF p
------------------------------------------------------------------------------
(* Diffs and versions *)

\* The bytes that a diff takes from the new file.
LEMMA FreshIs ==
  ASSUME NEW gen \in Nat, NEW kind \in Nat, NEW from \in Nat, NEW n \in Nat
  PROVE  Fresh(gen, kind, from, n) \in Bytes /\ Len(Fresh(gen, kind, from, n)) = n
<1> DEFINE x(i) == (gen * 67 + kind * 29 + (from + i) * 5) % 256
<1>1. \A i \in 1..n : x(i) \in 0..255
  <2> SUFFICES ASSUME NEW i \in 1..n PROVE x(i) \in 0..255
    OBVIOUS
  <2> DEFINE y == gen * 67 + kind * 29 + (from + i) * 5
  <2>1. y \in Int
    OBVIOUS
  <2> HIDE DEF y
  <2>2. y % 256 \in 0..255
    BY <2>1
  <2> QED
    BY <2>2 DEF y
<1> HIDE DEF x
<1>2. [i \in 1..n |-> x(i)] \in Seq(0..255) /\ Len([i \in 1..n |-> x(i)]) = n
  BY <1>1
<1> QED
  BY <1>2 DEF x, Fresh, Bytes, Byte

\* The blocks that a diff with this old file may make.
DiffMakes(n, r) == Tiles(r.blocks, r.new) /\ \A i \in 1..Len(r.blocks) : Fits(r.blocks[i], n)

\* One more of them.
LEMMA AddBlockIs ==
  ASSUME NEW gen \in Nat, NEW n \in Nat, NEW r \in [new : Nat, blocks : Seq(Block)],
         DiffMakes(n, r), NEW sh \in Shapes(n), MaxLen \in Nat
  PROVE  LET t == AddBlock(gen, r, sh) IN
         /\ t \in [new : Nat, blocks : Seq(Block)] /\ DiffMakes(n, t)
         /\ t.blocks # <<>>
<1> DEFINE t == AddBlock(gen, r, sh)
           a == sh.add
           c == sh.insert
           b == [old |-> sh.old, new |-> r.new, add |-> Fresh(gen, 0, r.new, a),
                 insert |-> Fresh(gen, 1, r.new, c)]
           m == Len(r.blocks)
           end == r.new + (a + c)
<1>1. /\ sh.old \in 0..n - 1 /\ a \in 0..n /\ c \in 0..MaxLen /\ sh.old + a <= n
      /\ a + c \in 1..MaxLen
  BY DEF Shapes
<1>2. sh.old \in Nat /\ a \in Nat /\ c \in Nat /\ a + c > 0
  BY <1>1
<1>3. r.new \in Nat /\ r.blocks \in Seq(Block)
  OBVIOUS
<1>4. t = [new |-> r.new + a + c, blocks |-> Append(r.blocks, b)]
  BY DEF AddBlock
<1>5. r.new + a + c = end /\ end \in Nat
  BY ONLY <1>2, <1>3
<1>6. /\ Fresh(gen, 0, r.new, a) \in Bytes /\ Len(Fresh(gen, 0, r.new, a)) = a
      /\ Fresh(gen, 1, r.new, c) \in Bytes /\ Len(Fresh(gen, 1, r.new, c)) = c
  <2> HIDE DEF a, c
  <2>1. gen \in Nat /\ a \in Nat /\ c \in Nat /\ r.new \in Nat
    BY <1>2, <1>3
  <2>2. Fresh(gen, 0, r.new, a) \in Bytes
    BY ONLY <2>1, FreshIs
  <2>3. Len(Fresh(gen, 0, r.new, a)) = a
    BY ONLY <2>1, FreshIs
  <2>4. Fresh(gen, 1, r.new, c) \in Bytes
    BY ONLY <2>1, FreshIs
  <2>5. Len(Fresh(gen, 1, r.new, c)) = c
    BY ONLY <2>1, FreshIs
  <2> QED
    BY <2>2, <2>3, <2>4, <2>5
<1>7. /\ b \in Block /\ b.new = r.new /\ b.old = sh.old /\ Len(b.add) = a /\ Len(b.insert) = c
  BY <1>2, <1>3, <1>6 DEF Block
<1> HIDE DEF b, t
<1>8. Size(b) = a + c
  BY <1>7 DEF Size
<1>9. Fits(b, n)
  BY <1>1, <1>7 DEF Fits
<1> DEFINE more == Append(r.blocks, b)
<1>10. Tiles(r.blocks, r.new) /\ \A i \in 1..m : Fits(r.blocks[i], n)
  BY DEF DiffMakes
<1>11. /\ Tiles(more, r.new + Size(b)) /\ Len(more) = m + 1 /\ more[m + 1] = b
       /\ \A i \in 1..m : more[i] = r.blocks[i]
  BY <1>2, <1>3, <1>7, <1>8, <1>10, OneMoreTile
<1>12. Tiles(more, end) /\ m \in Nat
  BY <1>3, <1>8, <1>11
<1>13. more \in Seq(Block)
  BY <1>12 DEF Tiles
<1>14. t.new = end /\ t.blocks = more
  BY <1>4, <1>5
<1>15. t \in [new : Nat, blocks : Seq(Block)]
  BY <1>4, <1>5, <1>13
<1> HIDE DEF more, m, end
<1>16. \A i \in 1..m + 1 : Fits(more[i], n)
  <2>1. \A i \in 1..m + 1 : i = m + 1 \/ i \in 1..m
    BY <1>12
  <2> QED
    BY <1>9, <1>10, <1>11, <2>1
<1>17. DiffMakes(n, t)
  BY <1>11, <1>12, <1>14, <1>16 DEF DiffMakes
<1>18. t.blocks # <<>>
  BY <1>11, <1>12, <1>14
<1> QED
  BY <1>15, <1>17, <1>18 DEF t

\* All of them: they follow each other and fit the old file.
LEMMA BlocksFit ==
  ASSUME NEW gen \in Nat, NEW n \in Nat, NEW k \in Nat, k > 0, NEW shapes \in [1..k -> Shapes(n)],
         MaxLen \in Nat
  PROVE  LET b == Blocks(gen, shapes) IN
         /\ b.new \in Nat /\ b.new > 0 /\ Tiles(b.blocks, b.new)
         /\ \A i \in 1..Len(b.blocks) : Fits(b.blocks[i], n)
<1> DEFINE D == [new : Nat, blocks : Seq(Block)]
           first == [new |-> 0, blocks |-> <<>>]
           F(j, x) == AddBlock(gen, x, shapes[j])
           E == {x \in D : DiffMakes(n, x)}
           G == [a \in (1..k) \X E |-> F(a[1], a[2])]
           W == CHOOSE w : w = [j \in 0..k |-> IF j = 0 THEN first ELSE F(j, w[j - 1])]
<1>1. Blocks(gen, shapes) = W[k]
  <2>1. Len(shapes) = k
    OBVIOUS
  <2> QED
    BY <2>1 DEF Blocks
<1>2. first \in E
  <2>1. <<>> \in Seq(Block) /\ Len(<<>>) = 0 /\ first.new = 0 /\ first.blocks = <<>>
    OBVIOUS
  <2>2. first \in D
    BY <2>1
  <2>3. Tiles(<<>>, 0)
    BY <2>1 DEF Tiles, EndOf
  <2>4. \A i \in 1..0 : FALSE
    OBVIOUS
  <2> HIDE DEF first
  <2>5. DiffMakes(n, first)
    BY <2>1, <2>3, <2>4 DEF DiffMakes
  <2> QED
    BY <2>2, <2>5
<1>3. ASSUME NEW j \in 1..k, NEW x \in E
      PROVE  F(j, x) \in E /\ F(j, x).blocks # <<>>
  <2>1. /\ x \in [new : Nat, blocks : Seq(Block)] /\ DiffMakes(n, x) /\ shapes[j] \in Shapes(n)
    OBVIOUS
  <2> DEFINE sh == shapes[j]
             t == AddBlock(gen, x, sh)
  <2>2. sh \in Shapes(n)
    BY <2>1
  <2> HIDE DEF sh, D
  <2>3. /\ t \in [new : Nat, blocks : Seq(Block)] /\ DiffMakes(n, t)
        /\ t.blocks # <<>>
    <3>1. gen \in Nat /\ n \in Nat /\ MaxLen \in Nat
      OBVIOUS
    <3>2. x \in [new : Nat, blocks : Seq(Block)] /\ DiffMakes(n, x)
      BY <2>1
    <3>3. t \in [new : Nat, blocks : Seq(Block)]
      BY ONLY <2>2, <3>1, <3>2, AddBlockIs
    <3>4. DiffMakes(n, t)
      BY ONLY <2>2, <3>1, <3>2, AddBlockIs
    <3>5. t.blocks # <<>>
      BY ONLY <2>2, <3>1, <3>2, AddBlockIs
    <3> QED
      BY <3>3, <3>4, <3>5
  <2> QED
    BY <2>3 DEF sh, D
<1>4. \A x \in E : x.new \in Nat /\ x.blocks \in Seq(Block) /\ DiffMakes(n, x)
  OBVIOUS
<1> HIDE DEF D, E, first, F, W
<1>6. G \in [(1..k) \X E -> E] /\ \A j \in 1..k, x \in E : G[<<j, x>>] = F(j, x)
  BY <1>3
<1> HIDE DEF G
<1>7. PICK e : e \in [0..k -> E] /\ Iterates(e, first, G, k)
  BY <1>2, <1>6, Iteration
<1>8. e[0] = first /\ \A j \in 1..k : e[j] = F(j, e[j - 1])
  <2>1. e \in [0..k -> E] /\ e[0] = first /\ \A j \in 1..k : e[j] = G[<<j, e[j - 1]>>]
    BY <1>7 DEF Iterates
  <2>2. \A j \in 1..k : e[j - 1] \in E
    BY <2>1
  <2> QED
    BY <1>6, <2>1, <2>2
<1>9. e = [j \in 0..k |-> IF j = 0 THEN first ELSE F(j, e[j - 1])]
  BY <1>7, <1>8
<1>10. W = [j \in 0..k |-> IF j = 0 THEN first ELSE F(j, W[j - 1])]
  BY <1>9 DEF W
<1>11. W[0] = first /\ \A j \in 1..k : W[j] = F(j, W[j - 1])
  BY <1>10
<1>12. \A j \in 0..k : W[j] \in E
  BY <1>2, <1>3, <1>11, LoopStays
<1>13. Len(W[k].blocks) > 0
  <2>1. k - 1 \in 0..k /\ W[k - 1] \in E /\ W[k] = F(k, W[k - 1])
    BY <1>11, <1>12
  <2>2. W[k].blocks # <<>> /\ W[k] \in E
    BY <1>3, <1>12, <2>1
  <2>3. W[k].blocks \in Seq(Block)
    BY <1>4, <2>2
  <2>4. Len(W[k].blocks) \in Nat /\ Len(W[k].blocks) # 0
    BY <2>2, <2>3, EmptySeq
  <2> QED
    BY ONLY <2>4
<1> DEFINE r == W[k]
<1>14. /\ r.new \in Nat /\ r.blocks \in Seq(Block) /\ Tiles(r.blocks, r.new)
       /\ \A i \in 1..Len(r.blocks) : Fits(r.blocks[i], n)
  <2>1. r \in E
    BY <1>12
  <2> QED
    BY <1>4, <2>1 DEF DiffMakes
<1>15. Len(r.blocks) > 0
  BY <1>13
<1> HIDE DEF r
<1>16. r.new > 0
  <2> DEFINE m == Len(r.blocks)
             b == r.blocks[m]
  <2>1. m \in 1..m /\ m # 0
    BY <1>14, <1>15
  <2>2. Size(b) > 0 /\ EndOf(r.blocks, m) = r.new
    BY <1>14, <2>1 DEF Tiles
  <2>3. EndOf(r.blocks, m) = b.new + Size(b)
    BY <2>1 DEF EndOf
  <2>4. b.new \in Nat /\ Size(b) \in Nat
    BY <1>14, <2>1, BlocksAre
  <2> HIDE DEF b, m
  <2> QED
    BY ONLY <2>2, <2>3, <2>4
<1> QED
  BY <1>1, <1>14, <1>16 DEF r

\* What is after the first n elements.
LEMMA RestIs ==
  ASSUME NEW S, NEW s \in Seq(S), NEW n \in 0..Len(s)
  PROVE  /\ Rest(s, n) \in Seq(S) /\ Len(Rest(s, n)) = Len(s) - n
         /\ \A j \in 1..Len(s) - n : Rest(s, n)[j] = s[n + j]
<1>1. Len(s) \in Nat /\ \A i \in 1..Len(s) : s[i] \in S
  OBVIOUS
<1> DEFINE t == SubSeq(s, n + 1, Len(s))
<1>2. \A i \in n + 1..Len(s) : s[i] \in S
  BY <1>1
<1>3. n + 1 \in Int /\ Len(s) \in Int
  BY <1>1
<1>4. /\ t \in Seq(S)
      /\ Len(t) = IF n + 1 <= Len(s) THEN Len(s) - (n + 1) + 1 ELSE 0
      /\ \A i \in 1..Len(s) - (n + 1) + 1 : t[i] = s[(n + 1) + i - 1]
  BY ONLY <1>2, <1>3, SubSeqProperties
<1> HIDE DEF t
<1>5. Len(t) = Len(s) - n
  BY <1>1, <1>4
<1>6. \A j \in 1..Len(s) - n : t[j] = s[n + j]
  <2> TAKE j \in 1..Len(s) - n
  <2>1. j \in 1..Len(s) - (n + 1) + 1 /\ (n + 1) + j - 1 = n + j
    BY <1>1
  <2> QED
    BY <1>4, <2>1
<1> QED
  BY <1>4, <1>5, <1>6 DEF t, Rest

\* One element in the place of two: what is before and after them stays.
LEMMA SpliceIs ==
  ASSUME NEW S, NEW s \in Seq(S), NEW i \in Nat, i > 0, i + 1 <= Len(s), NEW d \in S
  PROVE  LET t == SubSeq(s, 1, i - 1) \o <<d>> \o Rest(s, i + 1) IN
         /\ t \in Seq(S) /\ Len(t) = Len(s) - 1
         /\ \A j \in 1..Len(s) - 1 : t[j] = IF j < i THEN s[j] ELSE IF j = i THEN d ELSE s[j + 1]
<1> DEFINE m == Len(s)
           x == SubSeq(s, 1, i - 1)
           z == Rest(s, i + 1)
           y == x \o <<d>>
           t == y \o z
<1>1. m \in Nat /\ \A j \in 1..m : s[j] \in S
  OBVIOUS
<1>2. x \in Seq(S) /\ Len(x) = i - 1 /\ \A j \in 1..i - 1 : x[j] = s[j]
  <2>1. \A j \in 1..i - 1 : s[j] \in S
    BY <1>1
  <2>2. 1 \in Int /\ i - 1 \in Int
    OBVIOUS
  <2>3. /\ x \in Seq(S)
        /\ Len(x) = IF 1 <= i - 1 THEN (i - 1) - 1 + 1 ELSE 0
        /\ \A j \in 1..(i - 1) - 1 + 1 : x[j] = s[1 + j - 1]
    BY ONLY <2>1, <2>2, SubSeqProperties
  <2> HIDE DEF x
  <2>4. Len(x) = i - 1
    BY <2>3
  <2>5. ASSUME NEW j \in 1..i - 1 PROVE x[j] = s[j]
    <3>1. j \in 1..(i - 1) - 1 + 1 /\ 1 + j - 1 = j
      OBVIOUS
    <3> QED
      BY <2>3, <3>1
  <2> QED
    BY <2>3, <2>4, <2>5
<1>3. i + 1 \in 0..m
  BY <1>1
<1>4. /\ z \in Seq(S) /\ Len(z) = m - (i + 1) /\ \A j \in 1..m - (i + 1) : z[j] = s[(i + 1) + j]
  BY <1>3, RestIs
<1> HIDE DEF x, z, m
<1>5. <<d>> \in Seq(S) /\ Len(<<d>>) = 1 /\ <<d>>[1] = d
  OBVIOUS
<1>6. y \in Seq(S) /\ Len(y) = i /\ \A j \in 1..i : y[j] = IF j <= i - 1 THEN x[j] ELSE d
  <2>1. /\ y \in Seq(S) /\ Len(y) = (i - 1) + 1
        /\ \A j \in 1..(i - 1) + 1 : y[j] = IF j <= i - 1 THEN x[j] ELSE <<d>>[j - (i - 1)]
    BY <1>2, <1>5, ConcatProperties
  <2>2. (i - 1) + 1 = i /\ \A j \in 1..i : ~(j <= i - 1) => j - (i - 1) = 1
    OBVIOUS
  <2> HIDE DEF y
  <2> QED
    BY <1>5, <2>1, <2>2
<1> HIDE DEF y
<1>7. /\ t \in Seq(S) /\ Len(t) = i + (m - (i + 1))
      /\ \A j \in 1..i + (m - (i + 1)) : t[j] = IF j <= i THEN y[j] ELSE z[j - i]
  <2>1. /\ t \in Seq(S) /\ Len(t) = Len(y) + Len(z)
        /\ \A j \in 1..Len(y) + Len(z) : t[j] = IF j <= Len(y) THEN y[j] ELSE z[j - Len(y)]
    <3>1. y \in Seq(S) /\ z \in Seq(S)
      BY <1>4, <1>6
    <3> QED
      BY ONLY <3>1, ConcatProperties
  <2> HIDE DEF t
  <2> QED
    BY ONLY <1>4, <1>6, <2>1
<1> HIDE DEF t
<1>8. Len(t) = m - 1 /\ i + (m - (i + 1)) = m - 1
  BY <1>1, <1>7
<1>9. ASSUME NEW j \in 1..m - 1
      PROVE  t[j] = IF j < i THEN s[j] ELSE IF j = i THEN d ELSE s[j + 1]
  <2>1. t[j] = IF j <= i THEN y[j] ELSE z[j - i]
    BY <1>7, <1>8
  <2>2. CASE j < i
    <3>1. j \in 1..i - 1 /\ j \in 1..i /\ j <= i - 1 /\ j <= i
      BY <2>2
    <3> QED
      BY <1>2, <1>6, <2>1, <2>2, <3>1
  <2>3. CASE j = i
    <3>1. i \in 1..i /\ ~(i <= i - 1) /\ i <= i /\ ~(i < i)
      OBVIOUS
    <3> QED
      BY <1>6, <2>1, <2>3, <3>1
  <2>4. CASE ~(j < i) /\ j # i
    <3>1. j - i \in 1..m - (i + 1) /\ ~(j <= i) /\ (i + 1) + (j - i) = j + 1
      BY <1>1, <2>4
    <3> QED
      BY <1>4, <2>1, <2>4, <3>1
  <2> QED
    BY <2>2, <2>3, <2>4
<1> QED
  BY <1>7, <1>8, <1>9 DEF t, m, y, x, z

\* One element less.
LEMMA WithoutIs ==
  ASSUME NEW S, NEW s \in Seq(S), NEW i \in Nat, i + 1 <= Len(s)
  PROVE  LET t == SubSeq(s, 1, i) \o Rest(s, i + 1) IN
         /\ t \in Seq(S) /\ Len(t) = Len(s) - 1
         /\ \A j \in 1..Len(s) - 1 : t[j] = IF j <= i THEN s[j] ELSE s[j + 1]
<1> DEFINE m == Len(s)
           x == SubSeq(s, 1, i)
           z == Rest(s, i + 1)
           t == x \o z
<1>1. m \in Nat /\ \A j \in 1..m : s[j] \in S
  OBVIOUS
<1>2. x \in Seq(S) /\ Len(x) = i /\ \A j \in 1..i : x[j] = s[j]
  <2>1. \A j \in 1..i : s[j] \in S
    BY <1>1
  <2>2. 1 \in Int /\ i \in Int
    OBVIOUS
  <2>3. /\ x \in Seq(S)
        /\ Len(x) = IF 1 <= i THEN i - 1 + 1 ELSE 0
        /\ \A j \in 1..i - 1 + 1 : x[j] = s[1 + j - 1]
    BY ONLY <2>1, <2>2, SubSeqProperties
  <2> HIDE DEF x
  <2>4. Len(x) = i
    BY <2>3
  <2>5. ASSUME NEW j \in 1..i PROVE x[j] = s[j]
    <3>1. j \in 1..i - 1 + 1 /\ 1 + j - 1 = j
      OBVIOUS
    <3> QED
      BY <2>3, <3>1
  <2> QED
    BY <2>3, <2>4, <2>5
<1>3. i + 1 \in 0..m
  BY <1>1
<1>4. /\ z \in Seq(S) /\ Len(z) = m - (i + 1) /\ \A j \in 1..m - (i + 1) : z[j] = s[(i + 1) + j]
  BY <1>3, RestIs
<1> HIDE DEF x, z, m
<1>5. /\ t \in Seq(S) /\ Len(t) = i + (m - (i + 1))
      /\ \A j \in 1..i + (m - (i + 1)) : t[j] = IF j <= i THEN x[j] ELSE z[j - i]
  <2>1. /\ t \in Seq(S) /\ Len(t) = Len(x) + Len(z)
        /\ \A j \in 1..Len(x) + Len(z) : t[j] = IF j <= Len(x) THEN x[j] ELSE z[j - Len(x)]
    <3>1. x \in Seq(S) /\ z \in Seq(S)
      BY <1>2, <1>4
    <3> QED
      BY ONLY <3>1, ConcatProperties
  <2> HIDE DEF t
  <2> QED
    BY ONLY <1>2, <1>4, <2>1
<1> HIDE DEF t
<1>6. Len(t) = m - 1 /\ i + (m - (i + 1)) = m - 1
  BY <1>1, <1>5
<1>7. ASSUME NEW j \in 1..m - 1 PROVE t[j] = IF j <= i THEN s[j] ELSE s[j + 1]
  <2>1. t[j] = IF j <= i THEN x[j] ELSE z[j - i]
    BY <1>5, <1>6
  <2>2. CASE j <= i
    <3>1. j \in 1..i
      BY <2>2
    <3> QED
      BY <1>2, <2>1, <2>2, <3>1
  <2>3. CASE ~(j <= i)
    <3>1. j - i \in 1..m - (i + 1) /\ (i + 1) + (j - i) = j + 1
      BY <1>1, <2>3
    <3> QED
      BY <1>4, <2>1, <2>3, <3>1
  <2> QED
    BY <2>2, <2>3
<1> QED
  BY <1>5, <1>6, <1>7 DEF t, m, x, z
------------------------------------------------------------------------------
(* The inductive invariant *)

\* Delta d leads from f to h.
LeadsTo(f, d, h) == Leads(Read(d), f, h) /\ Patch(f, d) = h

\* There is one version, and nothing was merged.
LEMMA InitDelta == Init => DeltaInv
<1> SUFFICES ASSUME Init PROVE DeltaInv
  OBVIOUS
<1>1. MaxLen \in Nat
  BY DeltaAssumption
<1>2. PICK n \in 1..MaxLen : files = <<Fresh(0, 0, 0, n)>>
  BY DEF Init
<1> DEFINE x == Fresh(0, 0, 0, n)
<1>3. n \in Nat /\ n # 0
  BY <1>1
<1>4. x \in Bytes
  BY ONLY <1>3, FreshIs
<1>5. Len(x) = n
  BY ONLY <1>3, FreshIs
<1> HIDE DEF x
<1>6. x # <<>>
  BY <1>3, <1>5
<1>7. files = <<x>>
  BY <1>2 DEF x
<1>8. files \in Seq(Bytes) /\ Len(files) = 1 /\ files[1] = x
  BY <1>4, <1>7
<1>9. \A i \in 1..Len(files) : files[i] # <<>>
  BY <1>6, <1>8
<1>10. /\ deltas = <<>> /\ made = 1 /\ spent = 0 /\ result.out = "ok" /\ result.merged = <<>>
  BY DEF Init
<1>11. deltas \in Seq(Seq(Ctrl)) /\ Len(deltas) = 0
  BY <1>10
<1>12. Tiles(<<>>, 0)
  BY DEF Tiles, EndOf
<1>13. MergesGoThrough
  BY <1>10, <1>12, RoundTrip DEF MergesGoThrough
<1>14. \A i \in 1..0 : FALSE
  OBVIOUS
<1> QED
  BY <1>8, <1>9, <1>10, <1>11, <1>13, <1>14 DEF DeltaInv

\* One more version, and the delta that leads to it.
LEMMA DiffDelta == DeltaInv /\ Diff => DeltaInv'
<1> SUFFICES ASSUME DeltaInv, Diff PROVE DeltaInv'
  OBVIOUS
<1> DEFINE n == Len(files)
           m == Len(deltas)
           f == files[n]
           size == Len(f)
<1>1. /\ files \in Seq(Bytes) /\ deltas \in Seq(Seq(Ctrl)) /\ n = m + 1
      /\ spent \in Nat /\ made \in Nat /\ MergesGoThrough
  BY DEF DeltaInv
<1>2. \A i \in 1..n : files[i] # <<>>
  BY DEF DeltaInv
<1>3. \A i \in 1..m : LeadsTo(files[i], deltas[i], files[i + 1])
  BY DEF DeltaInv, LeadsTo
<1>4. MaxLen \in Nat /\ MaxBlocks \in Nat
  BY DeltaAssumption
<1>5. PICK k \in 1..MaxBlocks - spent : \E shapes \in [1..k -> Shapes(size)] :
         LET b == Blocks(made, shapes)
             delta == Write(b.blocks)
         IN /\ b.new <= MaxLen
            /\ spent' = spent + k
            /\ deltas' = Append(deltas, delta)
            /\ files' = Append(files, Patch(f, delta))
  BY DEF Diff
<1>6. PICK shapes \in [1..k -> Shapes(size)] :
         LET b == Blocks(made, shapes)
             delta == Write(b.blocks)
         IN /\ b.new <= MaxLen
            /\ spent' = spent + k
            /\ deltas' = Append(deltas, delta)
            /\ files' = Append(files, Patch(f, delta))
  BY <1>5
<1> DEFINE b == Blocks(made, shapes)
           d == Write(b.blocks)
           h == Patch(f, d)
<1>7. spent' = spent + k /\ deltas' = Append(deltas, d) /\ files' = Append(files, h)
  BY <1>6
<1>8. made' = made + 1 /\ result' = result
  BY DEF Diff
<1>9. n \in Nat /\ m \in Nat /\ n \in 1..n
  BY <1>1
<1>10. f \in Bytes /\ size \in Nat
  BY <1>1, <1>9 DEF Bytes
<1>11. k \in Nat /\ k > 0
  BY <1>1, <1>4
<1> HIDE DEF b, d, h, f, size, n, m
<1>12. /\ b.new \in Nat /\ b.new > 0 /\ Tiles(b.blocks, b.new)
       /\ \A i \in 1..Len(b.blocks) : Fits(b.blocks[i], size)
  BY <1>1, <1>4, <1>10, <1>11, BlocksFit DEF b
<1>13. d \in Seq(Ctrl) /\ Read(d) = b.blocks
  BY <1>12, RoundTrip DEF d
<1>14. /\ h \in Bytes /\ Tiles(Read(d), Len(h))
       /\ \A i \in 1..Len(Read(d)) : IsTrue(Read(d)[i], f, h)
  BY <1>10, <1>13, ReadSays DEF h
<1>15. LeadsTo(f, d, h)
  BY <1>12, <1>13, <1>14 DEF Leads, LeadsTo, size, h
<1>16. h # <<>>
  <2>1. Len(h) = b.new
    BY <1>12, <1>13, <1>14 DEF Tiles
  <2> QED
    BY <1>12, <2>1
<1>17. /\ deltas' \in Seq(Seq(Ctrl)) /\ Len(deltas') = m + 1 /\ deltas'[m + 1] = d
       /\ \A i \in 1..m : deltas'[i] = deltas[i]
  BY <1>1, <1>7, <1>13, AppendProperties DEF m
<1>18. /\ files' \in Seq(Bytes) /\ Len(files') = n + 1 /\ files'[n + 1] = h
       /\ \A i \in 1..n : files'[i] = files[i]
  BY <1>1, <1>7, <1>14, AppendProperties DEF n
<1>19. ASSUME NEW i \in 1..n + 1 PROVE files'[i] # <<>>
  <2>1. i = n + 1 \/ i \in 1..n
    BY <1>9
  <2> QED
    BY <1>2, <1>16, <1>18, <2>1
<1>20. ASSUME NEW i \in 1..m + 1 PROVE LeadsTo(files'[i], deltas'[i], files'[i + 1])
  <2>1. CASE i = m + 1
    <3>1. files'[i] = f /\ deltas'[i] = d /\ files'[i + 1] = h
      BY <1>1, <1>9, <1>17, <1>18, <2>1 DEF f
    <3> QED
      BY <1>15, <3>1
  <2>2. CASE i # m + 1
    <3>1. i \in 1..m /\ i \in 1..n /\ i + 1 \in 1..n
      BY <1>1, <1>9, <2>2
    <3>2. files'[i] = files[i] /\ deltas'[i] = deltas[i] /\ files'[i + 1] = files[i + 1]
      BY <1>17, <1>18, <3>1
    <3> QED
      BY <1>3, <3>1, <3>2
  <2> QED
    BY <2>1, <2>2
<1>21. MergesGoThrough'
  BY <1>1, <1>8 DEF MergesGoThrough
<1>22. spent' \in Nat /\ made' \in Nat
  BY <1>1, <1>7, <1>8, <1>11
<1> QED
  BY <1>1, <1>17, <1>18, <1>19, <1>20, <1>21, <1>22 DEF DeltaInv, LeadsTo

\* Two deltas become one, which leads to where the second one led.
LEMMA MergeDelta == ASSUME NEW i \in 1..MaxFiles PROVE DeltaInv /\ Merge(i) => DeltaInv'
<1> SUFFICES ASSUME DeltaInv, Merge(i) PROVE DeltaInv'
  OBVIOUS
<1> DEFINE n == Len(files)
           m == Len(deltas)
           f == files[i]
           g == files[i + 1]
           h == files[i + 2]
           lower == Read(deltas[i])
           upper == Read(deltas[i + 1])
           t == MergeBlocks(lower, upper)
           d == Write(t.merged)
<1>1. /\ files \in Seq(Bytes) /\ deltas \in Seq(Seq(Ctrl)) /\ n = m + 1
      /\ spent \in Nat /\ made \in Nat
  BY DEF DeltaInv
<1>2. \A j \in 1..n : files[j] # <<>>
  BY DEF DeltaInv
<1>3. \A j \in 1..m : LeadsTo(files[j], deltas[j], files[j + 1])
  BY DEF DeltaInv, LeadsTo
<1>4. n \in Nat /\ m \in Nat
  BY <1>1
<1>5. i \in Nat /\ i > 0 /\ i + 1 <= m /\ i \in 1..m /\ i + 1 \in 1..m
  <2>1. MaxFiles \in Nat
    BY DeltaAssumption
  <2>2. i + 1 \in 1..m
    BY <1>1 DEF Merge
  <2> QED
    BY <1>4, <2>1, <2>2
<1>6. i \in 1..n /\ i + 1 \in 1..n /\ i + 2 \in 1..n /\ (i + 1) + 1 = i + 2 /\ i + 1 <= n
  BY <1>1, <1>4, <1>5
<1>7. /\ f \in Bytes /\ g \in Bytes /\ h \in Bytes /\ f # <<>> /\ g # <<>>
  BY <1>1, <1>2, <1>6
<1>8. Leads(lower, f, g) /\ Leads(upper, g, h)
  <2>1. LeadsTo(files[i], deltas[i], files[i + 1])
    BY <1>3, <1>5
  <2>2. LeadsTo(files[i + 1], deltas[i + 1], files[i + 2])
    BY <1>3, <1>5, <1>6
  <2> QED
    BY <2>1, <2>2 DEF LeadsTo
<1>9. /\ result' = t
      /\ t.out = "ok" => deltas' = SubSeq(deltas, 1, i - 1) \o <<d>> \o Rest(deltas, i + 1)
      /\ t.out = "ok" => files' = SubSeq(files, 1, i) \o Rest(files, i + 1)
      /\ spent' = spent /\ made' = made
  BY DEF Merge, DeltaMergingBytes
<1> HIDE DEF lower, upper, f, g, h, t, d, n, m
<1>10. t.out = "ok" /\ Leads(t.merged, f, h)
  BY <1>7, <1>8, MergeBlocksIs DEF t
<1>11. d \in Seq(Ctrl) /\ Read(d) = t.merged /\ Patch(f, d) = h
  BY <1>7, <1>10, WrittenPatches DEF d
<1>12. LeadsTo(f, d, h)
  BY <1>10, <1>11 DEF LeadsTo
<1>13. MergesGoThrough'
  BY <1>9, <1>10, <1>11 DEF MergesGoThrough, d
<1>14. /\ deltas' \in Seq(Seq(Ctrl)) /\ Len(deltas') = m - 1
       /\ \A j \in 1..m - 1 : deltas'[j] = IF j < i THEN deltas[j]
                                           ELSE IF j = i THEN d ELSE deltas[j + 1]
  <2> DEFINE x == SubSeq(deltas, 1, i - 1) \o <<d>> \o Rest(deltas, i + 1)
  <2>1. /\ x \in Seq(Seq(Ctrl)) /\ Len(x) = m - 1
        /\ \A j \in 1..m - 1 : x[j] = IF j < i THEN deltas[j] ELSE IF j = i THEN d ELSE deltas[j + 1]
    <3> DEFINE C == Seq(Ctrl)
    <3>1. deltas \in Seq(C) /\ i \in Nat /\ i > 0 /\ i + 1 <= Len(deltas) /\ d \in C
      BY <1>1, <1>5, <1>11 DEF m
    <3> HIDE DEF C
    <3>2. x \in Seq(C)
      BY ONLY <3>1, SpliceIs
    <3>3. Len(x) = Len(deltas) - 1
      BY ONLY <3>1, SpliceIs
    <3>4. \A j \in 1..Len(deltas) - 1 :
            x[j] = IF j < i THEN deltas[j] ELSE IF j = i THEN d ELSE deltas[j + 1]
      BY ONLY <3>1, SpliceIs
    <3> HIDE DEF x
    <3>5. m = Len(deltas)
      BY DEF m
    <3> QED
      BY ONLY <3>2, <3>3, <3>4, <3>5 DEF C
  <2>2. deltas' = x
    BY <1>9, <1>10
  <2> HIDE DEF x
  <2> QED
    BY <2>1, <2>2
<1>15. /\ files' \in Seq(Bytes) /\ Len(files') = n - 1
       /\ \A j \in 1..n - 1 : files'[j] = IF j <= i THEN files[j] ELSE files[j + 1]
  <2> DEFINE x == SubSeq(files, 1, i) \o Rest(files, i + 1)
  <2>1. /\ x \in Seq(Bytes) /\ Len(x) = n - 1
        /\ \A j \in 1..n - 1 : x[j] = IF j <= i THEN files[j] ELSE files[j + 1]
    BY <1>1, <1>5, <1>6, WithoutIs DEF n
  <2>2. files' = x
    BY <1>9, <1>10
  <2> HIDE DEF x
  <2> QED
    BY <2>1, <2>2
<1>16. ASSUME NEW j \in 1..n - 1 PROVE files'[j] # <<>>
  <2>1. j \in 1..n /\ j + 1 \in 1..n
    BY <1>4
  <2> QED
    BY <1>2, <1>15, <2>1
<1>17. ASSUME NEW j \in 1..m - 1 PROVE LeadsTo(files'[j], deltas'[j], files'[j + 1])
  <2>1. j \in 1..n - 1 /\ j + 1 \in 1..n - 1 /\ j \in 1..m /\ j + 1 \in 1..m /\ (j + 1) + 1 = j + 2
    BY <1>1, <1>4
  <2>2. CASE j < i
    <3>1. j <= i /\ j + 1 <= i
      BY <1>5, <2>2
    <3>2. files'[j] = files[j] /\ deltas'[j] = deltas[j] /\ files'[j + 1] = files[j + 1]
      BY <1>14, <1>15, <2>1, <2>2, <3>1
    <3> QED
      BY <1>3, <2>1, <3>2
  <2>3. CASE j = i
    <3>1. j <= i /\ ~(j + 1 <= i) /\ ~(j < i)
      BY <1>5, <2>3
    <3>2. files'[j] = f /\ deltas'[j] = d /\ files'[j + 1] = files[(j + 1) + 1]
      BY <1>14, <1>15, <2>1, <2>3, <3>1 DEF f
    <3>3. files[(j + 1) + 1] = h
      BY <1>6, <2>3 DEF h
    <3> QED
      BY <1>12, <3>2, <3>3
  <2>4. CASE ~(j < i) /\ j # i
    <3>1. ~(j <= i) /\ ~(j + 1 <= i)
      BY <1>5, <2>4
    <3>2. /\ files'[j] = files[j + 1] /\ deltas'[j] = deltas[j + 1]
          /\ files'[j + 1] = files[(j + 1) + 1]
      BY <1>14, <1>15, <2>1, <2>4, <3>1
    <3> QED
      BY <1>3, <2>1, <3>2
  <2> QED
    BY <2>2, <2>3, <2>4
<1>18. Len(files') = Len(deltas') + 1
  BY <1>1, <1>4, <1>14, <1>15
<1> QED
  BY <1>1, <1>9, <1>13, <1>14, <1>15, <1>16, <1>17, <1>18 DEF DeltaInv, LeadsTo

\* In every state each delta leads from its version to the next one: its blocks cover the
\* new file, say what is in it and add to bytes that the old file has; and the last merge
\* went through.
THEOREM DeltaInvariance == Spec => []DeltaInv
<1>1. Init => DeltaInv
  BY InitDelta
<1>2. DeltaInv /\ [Next]_vars => DeltaInv'
  <2> SUFFICES ASSUME DeltaInv, [Next]_vars PROVE DeltaInv'
    OBVIOUS
  <2>1. CASE Diff
    BY <2>1, DiffDelta
  <2>2. ASSUME NEW i \in 1..MaxFiles, Merge(i) PROVE DeltaInv'
    BY <2>2, MergeDelta
  <2>3. CASE UNCHANGED vars
    BY <2>3 DEF vars, DeltaInv, MergesGoThrough
  <2> QED
    BY <2>1, <2>2, <2>3 DEF Next
<1> QED
  BY <1>1, <1>2, PTL DEF Spec

\* However often deltas were merged and in whatever order, with files and deltas of any
\* size, patching with what writePatch wrote gives the next version that is left.
THEOREM DeltasAlwaysApply == Spec => []DeltasApply
<1>1. DeltaInv => DeltasApply
  <2> SUFFICES ASSUME DeltaInv, NEW i \in DOMAIN deltas
               PROVE  Patch(files[i], deltas[i]) = files[i + 1]
    BY DEF DeltasApply
  <2>1. i \in 1..Len(deltas)
    BY DEF DeltaInv
  <2> QED
    BY <2>1 DEF DeltaInv
<1> QED
  BY <1>1, DeltaInvariance, PTL

\* mergeBlocks ends without an error, a panic or a loop that goes on for ever, whatever
\* deltas it is given, and readPatch reads what writePatch wrote as the same blocks.
THEOREM MergesAlwaysGoThrough == Spec => []MergesGoThrough
<1>1. DeltaInv => MergesGoThrough
  BY DEF DeltaInv
<1> QED
  BY <1>1, DeltaInvariance, PTL
==============================================================================
