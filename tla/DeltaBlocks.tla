---------------------------- MODULE DeltaBlocks ----------------------------
(***************************************************************************)
(* Merging of bsdiff deltas (pkg/bsdiffx/merge.go).  A delta is the length  *)
(* of the new file and a list of controls: so many bytes are added to bytes *)
(* of the old file, so many are inserted, and a seek in the old file.       *)
(* readPatch turns the controls into blocks that carry their positions,     *)
(* mergeBlocks walks the upper blocks over the lower ones, and writePatch   *)
(* turns the result into controls again.  Headers and compression, which    *)
(* copy the length and the mode, are left out.                              *)
(***************************************************************************)
EXTENDS Integers, Sequences

CONSTANTS
  MaxLen,     \* bound: bytes in a file
  MaxBlocks,  \* bound: blocks in all deltas that diffs make
  MaxFiles    \* bound: versions of the file

ASSUME DeltaAssumption == {MaxLen, MaxBlocks, MaxFiles} \subseteq Nat \ {0}

Least(a, b) == IF a < b THEN a ELSE b
Sum8(s, t) == [i \in DOMAIN s |-> (s[i] + t[i]) % 256]
Rest(s, n) == SubSeq(s, n + 1, Len(s))
Size(b) == Len(b.add) + Len(b.insert)
------------------------------------------------------------------------------
(* Controls and blocks *)

\* readContent: blocks without bytes are left out, their seek is kept.
ReadControl(r, c) ==
  [old |-> r.old + Len(c.add) + c.seek, new |-> r.new + Size(c),
   blocks |-> IF Size(c) = 0 THEN r.blocks
              ELSE Append(r.blocks, [old |-> r.old, new |-> r.new,
                                     add |-> c.add, insert |-> c.insert])]

Read(delta) ==
  LET At[k \in 0..Len(delta)] == IF k = 0 THEN [old |-> 0, new |-> 0, blocks |-> <<>>]
                                 ELSE ReadControl(At[k - 1], delta[k])
  IN At[Len(delta)].blocks

Control(add, insert, seek) == [add |-> add, insert |-> insert, seek |-> seek]

\* Mutant: the seek forgets that the added bytes moved the old position.
WriteAbsolute(blocks) ==
  (IF blocks # <<>> /\ blocks[1].old # 0 THEN <<Control(<<>>, <<>>, blocks[1].old)>> ELSE <<>>)
  \o [i \in DOMAIN blocks |->
        Control(blocks[i].add, blocks[i].insert,
                IF i = Len(blocks) THEN 0 ELSE blocks[i + 1].old - blocks[i].old)]

\* writePatch
Write(blocks) ==
  (IF blocks # <<>> /\ blocks[1].old # 0 THEN <<Control(<<>>, <<>>, blocks[1].old)>> ELSE <<>>)
  \o [i \in DOMAIN blocks |->
        Control(blocks[i].add, blocks[i].insert,
                IF i = Len(blocks) THEN 0
                ELSE blocks[i + 1].old - blocks[i].old - Len(blocks[i].add))]

\* What Patch, of the library, makes of a file.
ByteAt(file, i) == IF i + 1 \in DOMAIN file THEN file[i + 1] ELSE 0

PatchControl(file, r, c) ==
  [old |-> r.old + Len(c.add) + c.seek,
   file |-> r.file \o Sum8(c.add, [i \in DOMAIN c.add |-> ByteAt(file, r.old + i - 1)]) \o c.insert]

Patch(file, delta) ==
  LET At[k \in 0..Len(delta)] == IF k = 0 THEN [old |-> 0, file |-> <<>>]
                                 ELSE PatchControl(file, At[k - 1], delta[k])
  IN At[Len(delta)].file
------------------------------------------------------------------------------
(* mergeBlocks *)

\* Mutant: the end of a block counts as part of it.
HoldsEnd(b, pos) == b.new <= pos /\ pos <= b.new + Size(b)

Holds(b, pos) == b.new <= pos /\ pos < b.new + Size(b)

\* getBlock's bisection, which does not end when two steps are the same.  0 stands
\* for nil, -1 for no answer at all.
Middle(r) == (r[1] + r[2]) \div 2 + 1

Narrowed(pos, blocks, r) ==
  IF Middle(r) > Len(blocks) \/ Holds(blocks[Middle(r)], pos) \/ r[1] = r[2] THEN r
  ELSE IF pos < blocks[Middle(r)].new THEN <<r[1], Middle(r) - 1>> ELSE <<Middle(r) - 1, r[2]>>

GetBlock(pos, blocks) ==
  LET n == Len(blocks)
      Range[k \in 0..2 * n] == IF k = 0 THEN <<0, n>> ELSE Narrowed(pos, blocks, Range[k - 1])
      r == Range[2 * n]
  IN IF Middle(r) > n THEN -1
     ELSE IF Holds(blocks[Middle(r)], pos) THEN Middle(r)
     ELSE IF r[1] = r[2] THEN 0 ELSE -1

\* The locals of mergeBlocks: bytes of the upper block that are done, the lower
\* block that the inner loop is in or 0, "state", mergeBlock, and the result.
NewBlock(new) == [old |-> 0, new |-> new, add |-> <<>>, insert |-> <<>>]
Start(u, merged) == [cur |-> 0, at |-> 0, state |-> 0, block |-> NewBlock(u.new),
                     merged |-> merged, out |-> "ok"]
Flush(s) == [s EXCEPT !.merged = Append(s.merged, s.block), !.block = NewBlock(0), !.state = 0]

LowerSize(lower) == lower[Len(lower)].new + Size(lower[Len(lower)])

\* Upper bytes past the end of the lower file can only be inserted ones.
Beyond(u, s) ==
  IF s.cur < Len(u.add) THEN [s EXCEPT !.out = "overlapped offset"]
  ELSE IF s.state = 0 THEN [s EXCEPT !.out = "panic"]
  ELSE [s EXCEPT !.state = 2, !.cur = Size(u),
                 !.block.insert = @ \o Rest(u.insert, s.cur - Len(u.add))]

\* The outer loop: a block ends where the lower block does, unless it only inserts.
Enter(lower, u, s) ==
  IF u.old + s.cur >= LowerSize(lower) THEN Beyond(u, s)
  ELSE LET i == GetBlock(u.old + s.cur, lower) IN
       IF i = -1 THEN [s EXCEPT !.out = "hangs"]
       ELSE IF i = 0 THEN [s EXCEPT !.out = "invalid lower blocks"]
       ELSE [(IF s.state = 1 THEN Flush(s) ELSE s) EXCEPT !.at = i]

\* Bytes of the original that were changed twice.
AddAdd(l, u, s, begin, n) ==
  LET t == IF s.state = 2 THEN Flush(s) ELSE s
      p == IF t.state = 0 THEN [t EXCEPT !.block.old = l.old + begin, !.block.new = u.new + s.cur]
           ELSE t
      sum == Sum8(SubSeq(l.add, begin + 1, begin + n), SubSeq(u.add, s.cur + 1, s.cur + n))
  IN [p EXCEPT !.block.add = @ \o sum, !.cur = @ + n, !.state = 1]

Insert(u, s, bytes) ==
  LET p == IF s.state = 0 THEN [s EXCEPT !.block.new = u.new + s.cur] ELSE s
  IN [p EXCEPT !.block.insert = @ \o bytes, !.cur = @ + Len(bytes), !.state = 2]

\* The inner loop goes on by what both blocks have left of the kind they are in.
Advance(l, u, s) ==
  LET pos == u.old + s.cur - l.new
      lowerAdd == pos < Len(l.add)
      upperAdd == s.cur < Len(u.add)
      n == Least((IF lowerAdd THEN Len(l.add) ELSE Size(l)) - pos,
                 (IF upperAdd THEN Len(u.add) ELSE Size(u)) - s.cur)
      from == s.cur - Len(u.add)
  IN IF lowerAdd /\ upperAdd THEN AddAdd(l, u, s, pos, n)
     ELSE IF upperAdd
     THEN Insert(u, s, Sum8(SubSeq(l.insert, pos - Len(l.add) + 1, pos - Len(l.add) + n),
                            SubSeq(u.add, s.cur + 1, s.cur + n)))
     ELSE Insert(u, s, SubSeq(u.insert, from + 1, from + n))

Within(l, u, s) == s.cur < Size(u) /\ u.old + s.cur < l.new + Size(l)

Step(lower, u, s) ==
  IF s.at = 0 THEN Enter(lower, u, s)
  ELSE IF Within(lower[s.at], u, s) THEN Advance(lower[s.at], u, s)
  ELSE [s EXCEPT !.at = 0]

Running(u, s) == s.out = "ok" /\ (s.cur < Size(u) \/ s.at # 0)
GoOn(lower, u, s) == IF Running(u, s) THEN Step(lower, u, s) ELSE s

\* Each upper block in turn; an error ends it all.
MergeOne(lower, r, u) ==
  LET Run[k \in 0..3 * (Size(u) + 1)] == IF k = 0 THEN Start(u, r.merged)
                                         ELSE GoOn(lower, u, Run[k - 1])
      end == Run[3 * (Size(u) + 1)]
  IN IF r.out # "ok" THEN r
     ELSE IF end.out # "ok" THEN [merged |-> r.merged, out |-> end.out]
     ELSE [merged |-> IF end.state = 0 THEN end.merged ELSE Append(end.merged, end.block),
           out |-> IF end.cur = Size(u) THEN "ok" ELSE "hangs"]

MergeBlocks(lower, upper) ==
  LET At[k \in 0..Len(upper)] == IF k = 0 THEN [merged |-> <<>>, out |-> "ok"]
                                 ELSE MergeOne(lower, At[k - 1], upper[k])
  IN IF lower = <<>> THEN [merged |-> <<>>, out |-> "panic"] ELSE At[Len(upper)]

DeltaMergingBytes(lower, upper) == MergeBlocks(Read(lower), Read(upper))
------------------------------------------------------------------------------
(* Versions of a file, and the deltas between them *)

VARIABLES
  files,   \* the versions that are left, the oldest first
  deltas,  \* deltas[i] leads from files[i] to files[i + 1]
  made,    \* how many versions there were
  spent,   \* how many blocks the diffs have made
  result   \* how the last merge went, and the blocks it made

vars == <<files, deltas, made, spent, result>>

\* Bytes tell when and where they come from; adding wraps around.
Fresh(gen, kind, from, n) == [i \in 1..n |-> (gen * 67 + kind * 29 + (from + i) * 5) % 256]

\* What a diff may say: added bytes lie in the old file, and so does the position
\* of each block; there may be a seek first.
Shapes(n) == {sh \in [old : 0..n - 1, add : 0..n, insert : 0..MaxLen] :
                /\ sh.old + sh.add <= n
                /\ sh.add + sh.insert \in 1..MaxLen}

AddBlock(gen, r, sh) ==
  [new |-> r.new + sh.add + sh.insert,
   blocks |-> Append(r.blocks, [old |-> sh.old, new |-> r.new,
                                add |-> Fresh(gen, 0, r.new, sh.add),
                                insert |-> Fresh(gen, 1, r.new, sh.insert)])]

Blocks(gen, shapes) ==
  LET At[k \in 0..Len(shapes)] == IF k = 0 THEN [new |-> 0, blocks |-> <<>>]
                                  ELSE AddBlock(gen, At[k - 1], shapes[k])
  IN At[Len(shapes)]

Init ==
  /\ \E n \in 1..MaxLen : files = <<Fresh(0, 0, 0, n)>>
  /\ deltas = <<>> /\ made = 1 /\ spent = 0
  /\ result = [merged |-> <<>>, out |-> "ok"]

Diff ==
  /\ made < MaxFiles
  /\ \E k \in 1..MaxBlocks - spent : \E shapes \in [1..k -> Shapes(Len(files[Len(files)]))] :
       LET b == Blocks(made, shapes)
           delta == Write(b.blocks)
       IN /\ b.new <= MaxLen
          /\ spent' = spent + k
          /\ deltas' = Append(deltas, delta)
          /\ files' = Append(files, Patch(files[Len(files)], delta))
  /\ made' = made + 1
  /\ UNCHANGED result

\* The version in between goes.
Merge(i) ==
  /\ i + 1 \in DOMAIN deltas
  /\ result' = DeltaMergingBytes(deltas[i], deltas[i + 1])
  /\ result'.out = "ok" =>
       deltas' = SubSeq(deltas, 1, i - 1) \o <<Write(result'.merged)>> \o Rest(deltas, i + 1)
  /\ result'.out # "ok" => UNCHANGED deltas
  /\ files' = IF result'.out = "ok" THEN SubSeq(files, 1, i) \o Rest(files, i + 1) ELSE files
  /\ UNCHANGED <<made, spent>>

Next == Diff \/ \E i \in 1..MaxFiles : Merge(i)
Spec == Init /\ [][Next]_vars
------------------------------------------------------------------------------
\* Patching with a merged delta gives what patching with one after the other gave,
\* however often and in whatever order deltas were merged.
DeltasApply == \A i \in DOMAIN deltas : Patch(files[i], deltas[i]) = files[i + 1]

\* Every merge comes to an end without an error or a panic (merge.go:227, 268, 276, 286),
\* and what is written reads back as the blocks that were made, as
\* DeltaMergingBytesDebug asserts.
MergesGoThrough ==
  /\ result.out = "ok"
  /\ Read(Write(result.merged)) = result.merged
==============================================================================
