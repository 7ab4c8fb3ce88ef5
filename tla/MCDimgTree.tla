------------------------------ MODULE MCDimgTree ------------------------------
(* A directory, which may be a file as well, with two files in it.  One of them *)
(* may be empty, change its mode, or be a link; contents differ in size.        *)
EXTENDS DimgTree, TLC

CONSTANTS root, dir, f, g, empty, small, large

MCPaths == {dir, f, g}
MCUp == (dir :> root) @@ (f :> dir) @@ (g :> dir)
MCSize == (empty :> 0) @@ (small :> 1) @@ (large :> 2)
MCModes == {1, 2}

File(c, m) == [kind |-> "file", content |-> c, mode |-> m]
Other(k) == [kind |-> k, content |-> Nil, mode |-> 1]

MCChoices ==
  (dir :> {Other("dir"), File(small, 1)})
  @@ (f :> {Other("symlink"), File(empty, 1), File(small, 1), File(small, 2), File(large, 1)})
  @@ (g :> {File(small, 1), File(large, 1)})
==============================================================================
