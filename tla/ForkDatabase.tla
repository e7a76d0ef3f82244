---------------------------- MODULE ForkDatabase ----------------------------
(***************************************************************************)
(* fork_database: the tree of recent blocks and its head, the tip of the   *)
(* branch the node believes to be the longest.  The module is a set of     *)
(* operators on a record                                                   *)
(*    index     the blocks in _index                                       *)
(*    head      _head, a block or NoBlock                                  *)
(*    linked    the blocks whose weak pointer prev can still be locked     *)
(*    max_size  _max_size                                                  *)
(* so that ChainDatabase can use it inside its own handlers, which the     *)
(* program runs without interruption.                                      *)
(*                                                                         *)
(* Abstractions.  A block is a value; its id is the value itself, so two   *)
(* blocks with one id are one block, and a second fork_item made for a     *)
(* block that is already there is identified with the first.  Genesis      *)
(* stands for the null id that block 1 has as its previous.  The unlinked  *)
(* index is left out: line 43 throws before line 44 could fill it.  The    *)
(* flag invalid is left out: nothing sets it.                              *)
(***************************************************************************)
EXTENDS Blocks

ForkDB == [index : SUBSET Block, head : Block \cup {NoBlock},
           linked : SUBSET Block, max_size : Nat]

\* An item lives while the index or _head owns it (or the handler at work holds
\* it); a weak pointer to a dead item can no longer be locked.  Handlers call
\* Expire at their end.
Expire(f) ==
  [f EXCEPT !.linked = {b \in @ : /\ b \in f.index \cup {f.head}
                                  /\ previous[b] \in f.index \cup {f.head}}]

\* Drop every block below number n.
Prune(f, n) == [f EXCEPT !.index = {b \in @ : num[b] >= n}]

reset(f) == [f EXCEPT !.index = {}, !.head = NoBlock, !.linked = {}]

start_block(f, b) == [f EXCEPT !.index = @ \cup {b}, !.head = b]

\* The assertions of _push_block: the block is not too old, and it links.
TooOld(f, b) ==
  f.head # NoBlock /\ num[b] <= Larger(0, num[f.head] - f.max_size)
Links(f, b) == f.head # NoBlock /\ previous[b] # Genesis
CanPush(f, b) == ~TooOld(f, b) /\ (Links(f, b) => previous[b] \in f.index)

\* _push_block once the assertions hold.
push_block(f, b) ==
  LET in == [f EXCEPT !.index = @ \cup {b},
                      !.linked = IF Links(f, b) THEN @ \cup {b} ELSE @]
  IN  IF f.head = NoBlock THEN [in EXCEPT !.head = b]
      ELSE IF num[b] > num[f.head]
        THEN Prune([in EXCEPT !.head = b],
                   num[b] - Smaller(f.max_size, num[b]))
      ELSE in

\* pop_block asserts that there is a head and that its prev can be locked; held
\* are the items the handler at work keeps alive.
CanPop(f, held) ==
  f.head \in f.linked /\ previous[f.head] \in f.index \cup held
pop_block(f) == [f EXCEPT !.head = previous[f.head]]

set_head(f, b) == [f EXCEPT !.head = b]

remove(f, b) == [f EXCEPT !.index = @ \ {b}]

set_max_size(f, n) ==
  IF f.head = NoBlock
    THEN [f EXCEPT !.max_size = n]
    ELSE Prune([f EXCEPT !.max_size = n], Larger(0, num[f.head] - n))

\* fetch_branch_from walks both branches down to the same number, then
\* together until the two blocks have the same previous.  JoinNumber is the
\* number at which it stops.
JoinNumber(a, b) ==
  CHOOSE n \in 1 .. Smaller(num[a], num[b]) :
    /\ previous[Path[a][n]] = previous[Path[b][n]]
    /\ \A k \in n + 1 .. Smaller(num[a], num[b]) :
         previous[Path[a][k]] # previous[Path[b][k]]

\* The branch of a from there, oldest block first (the code's vector, reversed).
BranchFrom(a, n) == SubSeq(Path[a], n, num[a])

\* The assertions of fetch_branch_from: the tip of each branch is in the index,
\* which it looks at first, and every prev that is followed can be locked.
HasTips(f, a, b) == {a, b} \subseteq f.index
CanFetch(f, branch) == \A k \in 2 .. Len(branch) : branch[k] \in f.linked
=============================================================================
