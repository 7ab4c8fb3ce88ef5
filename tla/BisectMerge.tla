----------------------------- MODULE BisectMerge -----------------------------
(***************************************************************************)
(* MergeDimgsWithBisectMultithread (pkg/image/merge.go): a chain of dimgs   *)
(* is halved until single dimgs are left, and the caller runs the tree from *)
(* the bottom up, starting a goroutine for every merge.  A token of         *)
(* threadLimit is taken for each and given back at the end of it, unless it *)
(* failed.  A goroutine leaves its result in the entry of its upper dimg.   *)
(* What one merge does is in DimgTree and MergePipeline.  A merge that      *)
(* panics ends the process, and the behaviour with it.                      *)
(* MergeDimgsWithLinear, which ctr-cli may choose instead, merges one dimg  *)
(* after the other into the entry of the bottom one, and has no goroutines. *)
(***************************************************************************)
EXTENDS Integers, Sequences, FiniteSets

CONSTANTS
  MaxDimgs,  \* a bound on the length of a chain
  Limit      \* MergeDimgConcurrentNum: the places of threadLimit

ASSUME BisectAssumption == MaxDimgs \in Nat \ {0} /\ Limit \in Nat

\* A task has the dimgs from t[1], the top, to t[2] of the chain.
Task == {t \in (1..MaxDimgs) \X (1..MaxDimgs) : t[1] <= t[2]}
IsLeaf(t) == t[1] = t[2]

Half(t) == (t[2] - t[1] + 1) \div 2
Upper(t) == <<t[1], t[1] + Half(t) - 1>>

Lower(t) == <<t[1] + Half(t), t[2]>>

\* What the caller does for a task: runMergeDimgTask of both halves, the wait for
\* both, and the start of the merge.
Op(what, t) == <<[op |-> what, task |-> t]>>

\* Mutant: the lower half is not waited for.
WaitForUpper(t) == Op("wait", Upper(t))

Wait(t) == Op("wait", Lower(t)) \o Op("wait", Upper(t))

Program[t \in Task] ==
  IF IsLeaf(t) THEN Op("done", t)
  ELSE Program[Lower(t)] \o Program[Upper(t)] \o Wait(t) \o Op("launch", t)

\* The loop of MergeDimgsWithLinear.
Joins(n) == [i \in 1..n - 1 |-> [op |-> "join", task |-> <<n - i, n>>]]

VARIABLES
  method,   \* "bisect" or "linear"
  len,      \* how many dimgs the chain has
  program,  \* what the caller has still to do
  tokens,   \* in threadLimit
  merger,   \* merger[t]: the goroutine of task t
  done,     \* done[t]: what is in the channel of task t
  entry,    \* entry[i]: the dimgs that the i-th entry of the chain stands for
  file,     \* file[t]: the dimgs that the goroutine of t merged
  caller    \* "running", or what it returned: "ok" or "error"

vars == <<method, len, program, tokens, merger, done, entry, file, caller>>

Running == {t \in Task : merger[t] \in {"creating", "merging", "assigning"}}

Init ==
  /\ method \in {"bisect", "linear"} /\ len \in 1..MaxDimgs
  /\ program = IF method = "linear" THEN Joins(len)
               ELSE Program[<<1, len>>] \o Op("wait", <<1, len>>)
  /\ tokens = 0
  /\ merger = [t \in Task |-> "none"]
  /\ done = [t \in Task |-> "none"]
  /\ entry = [i \in 1..MaxDimgs |-> <<i, i>>]
  /\ file = [t \in Task |-> <<0, 0>>]
  /\ caller = "running"
------------------------------------------------------------------------------
(* The caller *)

Does(what) == caller = "running" /\ program # <<>> /\ Head(program).op = what
Current == Head(program).task

LeafDone ==
  /\ Does("done")
  /\ done' = [done EXCEPT ![Current] = "ok"]
  /\ program' = Tail(program)
  /\ UNCHANGED <<method, len, tokens, merger, entry, file, caller>>

WaitOk ==
  /\ Does("wait") /\ done[Current] = "ok"
  /\ done' = [done EXCEPT ![Current] = "none"]
  /\ program' = Tail(program)
  /\ UNCHANGED <<method, len, tokens, merger, entry, file, caller>>

\* The error goes up through every call; what runs besides is left to itself.
WaitFails ==
  /\ Does("wait") /\ done[Current] = "error"
  /\ done' = [done EXCEPT ![Current] = "none"]
  /\ caller' = "error"
  /\ UNCHANGED <<method, len, program, tokens, merger, entry, file>>

\* Mutant: no token is needed.
LaunchFreely ==
  /\ Does("launch")
  /\ tokens' = tokens + 1
  /\ merger' = [merger EXCEPT ![Current] = "creating"]
  /\ program' = Tail(program)
  /\ UNCHANGED <<method, len, done, entry, file, caller>>

\* With a Limit of 0 the send finds no receiver.
Launch ==
  /\ Does("launch")
  /\ tokens < Limit
  /\ tokens' = tokens + 1
  /\ merger' = [merger EXCEPT ![Current] = "creating"]
  /\ program' = Tail(program)
  /\ UNCHANGED <<method, len, done, entry, file, caller>>

Join ==
  /\ Does("join")
  /\ LET i == Current[1] IN
     entry' = [entry EXCEPT ![len] = <<entry[i][1], entry[len][2]>>]
  /\ program' = Tail(program)
  /\ UNCHANGED <<method, len, tokens, merger, done, file, caller>>

JoinFails ==
  /\ Does("join")
  /\ caller' = "error"
  /\ UNCHANGED <<method, len, program, tokens, merger, done, entry, file>>

Return ==
  /\ caller = "running" /\ program = <<>>
  /\ caller' = "ok"
  /\ UNCHANGED <<method, len, program, tokens, merger, done, entry, file>>
------------------------------------------------------------------------------
(* The goroutine of task t *)

Create(t) ==
  /\ merger[t] = "creating"
  /\ merger' = [merger EXCEPT ![t] = "merging"]
  /\ UNCHANGED <<method, len, program, tokens, done, entry, file, caller>>

\* The header of a merged dimg has the Id of the upper one and the ParentId of
\* the lower one.
MergeOne(t) ==
  /\ merger[t] = "merging"
  /\ merger' = [merger EXCEPT ![t] = "assigning"]
  /\ file' = [file EXCEPT ![t] = <<entry[Upper(t)[1]][1], entry[Lower(t)[1]][2]>>]
  /\ UNCHANGED <<method, len, program, tokens, done, entry, caller>>

\* Mutant: nothing is sent on done.
FailSilently(t) ==
  /\ merger[t] \in {"creating", "merging"}
  /\ merger' = [merger EXCEPT ![t] = "over"]
  /\ UNCHANGED <<method, len, program, tokens, done, entry, file, caller>>

\* os.Create or WriteDimg fails; the token is not given back.
Fail(t) ==
  /\ merger[t] \in {"creating", "merging"}
  /\ merger' = [merger EXCEPT ![t] = "over"]
  /\ done' = [done EXCEPT ![t] = "error"]
  /\ UNCHANGED <<method, len, program, tokens, entry, file, caller>>

\* Mutants: the token is given back here as well; done is sent before the result is in the entry.
AssignAndRelease(t) ==
  /\ merger[t] = "assigning"
  /\ merger' = [merger EXCEPT ![t] = "releasing"]
  /\ entry' = [entry EXCEPT ![Upper(t)[1]] = file[t]]
  /\ done' = [done EXCEPT ![t] = "ok"]
  /\ tokens' = tokens - 1
  /\ UNCHANGED <<method, len, program, file, caller>>

AnnounceFirst(t) ==
  \/ /\ merger[t] = "assigning" /\ done[t] = "none"
     /\ done' = [done EXCEPT ![t] = "ok"]
     /\ UNCHANGED <<method, len, program, tokens, merger, entry, file, caller>>
  \/ /\ merger[t] = "assigning"
     /\ merger' = [merger EXCEPT ![t] = "releasing"]
     /\ entry' = [entry EXCEPT ![Upper(t)[1]] = file[t]]
     /\ UNCHANGED <<method, len, program, tokens, done, file, caller>>

Assign(t) ==
  /\ merger[t] = "assigning"
  /\ merger' = [merger EXCEPT ![t] = "releasing"]
  /\ entry' = [entry EXCEPT ![Upper(t)[1]] = file[t]]
  /\ done' = [done EXCEPT ![t] = "ok"]
  /\ UNCHANGED <<method, len, program, tokens, file, caller>>

\* Mutant: the token is kept by a merge that succeeded, too.
KeepToken(t) ==
  /\ merger[t] = "releasing"
  /\ merger' = [merger EXCEPT ![t] = "over"]
  /\ UNCHANGED <<method, len, program, tokens, done, entry, file, caller>>

Release(t) ==
  /\ merger[t] = "releasing"
  /\ merger' = [merger EXCEPT ![t] = "over"]
  /\ tokens' = tokens - 1
  /\ UNCHANGED <<method, len, program, done, entry, file, caller>>
------------------------------------------------------------------------------
Call == LeafDone \/ WaitOk \/ WaitFails \/ Launch \/ Join \/ JoinFails \/ Return
Merger(t) == Create(t) \/ MergeOne(t) \/ Fail(t) \/ Assign(t) \/ Release(t)

Next == Call \/ \E t \in Task : Merger(t)

\* The runtime schedules every goroutine that can go on.
Spec == Init /\ [][Next]_vars /\ WF_vars(Call) /\ \A t \in Task : WF_vars(Merger(t))
------------------------------------------------------------------------------
TypeOK ==
  /\ method \in {"bisect", "linear"} /\ len \in 1..MaxDimgs
  /\ program \in Seq([op : {"done", "wait", "launch", "join"}, task : Task])
  /\ tokens \in 0..Limit
  /\ merger \in [Task -> {"none", "creating", "merging", "assigning", "releasing", "over"}]
  /\ done \in [Task -> {"none", "ok", "error"}]
  /\ entry \in [1..MaxDimgs -> Task]
  /\ file \in [Task -> Task \cup {<<0, 0>>}]
  /\ caller \in {"running", "ok", "error"}

\* At most Limit merges run at a time.
WithinLimit == Cardinality(Running) <= Limit

\* The entry that the call returns.
Result == IF method = "linear" THEN entry[len] ELSE entry[1]

\* A goroutine merges what lies next to each other in the chain and stands for
\* the dimgs of its task, whatever other goroutines have done to the entries; so does
\* the loop of a linear merge.
MergesNeighbours ==
  \A t \in Task :
    /\ merger[t] \in {"creating", "merging"} =>
         entry[Upper(t)[1]] = Upper(t) /\ entry[Lower(t)[1]] = Lower(t)
    /\ merger[t] = "assigning" => file[t] = t
    /\ Does("join") /\ Current = t =>
         entry[t[1]] = <<t[1], t[1]>> /\ entry[len] = <<t[1] + 1, len>>

\* A call that succeeds returns one dimg for the whole chain, and no goroutine of
\* its touches an entry afterwards.
ChainIsMerged ==
  caller = "ok" => Result = <<1, len>> /\ Running = {}

\* The call comes back unless a merge fails.
CleanCallReturns ==
  Limit > 0 => <>(caller # "running" \/ \E t \in Task : done[t] = "error")

\* Whatever merges fail, as long as each of them comes back (MergePipeline says when one
\* does), the call comes back while the chain is shorter than 2^(Limit + 1).  In a longer
\* one failed merges can keep every token while the caller waits for another before it
\* looks at their results.
ShortChainReturns == len < 2 ^ (Limit + 1) /\ Limit > 0 ~> caller # "running"
==============================================================================
