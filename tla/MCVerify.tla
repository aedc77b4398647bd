------------------------------ MODULE MCVerify ------------------------------
(* Verify on three accounts, three slots and channels of one leaf.             *)
EXTENDS Verify

CONSTANTS c1, c2, v1, v2

A(storage, code) == [storage |-> storage, code |-> code]

\* Nothing at all; a storage that is streamed; two accounts with the same storage
\* and code before one without either.
MCStates ==
    {<<>>,
     [i \in {2} |-> A(<<v1, v2, v1>>, c1)],
     <<A(<<v1>>, c1), A(<<v1>>, c1), A(<<>>, None)>>}

=============================================================================
