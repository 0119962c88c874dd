------------------------------- MODULE MCFs -------------------------------
(* Instances of Fs for TLC. *)
EXTENDS Fs, TLC

FsSymmetry == Permutations(Clients)

On(op, where) == [op |-> op, path |-> where, new |-> <<>>]
Link(old, new) == [op |-> "link", path |-> old, new |-> new]

\* A directory that comes and goes, a file in it, a second link to that file.
TreeCalls ==
    {On("mkdir", <<"/", "a">>), On("unlink", <<"/", "a">>), On("mkdir", <<"/">>),
     On("create", <<"/", "a", "x">>), On("unlink", <<"x">>), On("read", <<"x">>),
     Link(<<"/", "a", "x">>, <<"/", "x">>), On("chdir", <<"a">>)}
===========================================================================
