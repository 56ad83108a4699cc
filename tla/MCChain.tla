------------------------------ MODULE MCChain ------------------------------
EXTENDS Chain

\* Three elements in the inode itself; and a full array with an indirect
\* block of two elements, which a deletion lets collapse and a second one
\* leaves empty.  In both the next element splits an array.
ChainImages == {{<<<<k, 0>>, 1>> : k \in {0, 1, 4}},
                {<<<<0, 2>>, {<<<<0, 0>>, 1>>, <<<<1, 0>>, 1>>}>>,
                 <<<<4, 0>>, 1>>, <<<<5, 0>>, 1>>}}
=============================================================================
