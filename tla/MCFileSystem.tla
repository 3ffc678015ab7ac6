---------------------------- MODULE MCFileSystem ----------------------------
(* Small instances of FileSystem for TLC. *)
EXTENDS FileSystem, TLC

CONSTANTS name1, name2  \* two names

MCPath == {<<>>, <<name1>>, <<name2>>, <<name1, name2>>}

On(op, path, arg) == [op |-> op, path |-> path, arg |-> arg]

\* A name in the root that becomes a file or a directory with something in it,
\* and a second name that becomes a link to it, hard or symbolic.
MCMenu == {On("open", <<name1>>, "r"), On("open", <<name2>>, "w")}
          \union {On("creat", path, <<>>) : path \in {<<name1>>, <<name1, name2>>}}
          \union {On("mkdir", path, <<>>) : path \in {<<name1>>, <<name1, name2>>}}
          \union {On("unlink", path, <<>>) : path \in {<<name1>>, <<name2>>, <<name1, name2>>}}
          \union {On("symlink", <<name2>>, <<name1>>), On("link", <<name1>>, <<name2>>), On("link", <<name1>>, <<>>)}

Symmetric == Permutations(Proc)
=============================================================================
