------------------------------ MODULE MCEvbuffer ------------------------------
(***************************************************************************)
(* Small chains: a block is 3, 6, 12 ... bytes, of which 1 is the header.  *)
(* Programs that mix evbuffer_read, evbuffer_reserve_space and             *)
(* evbuffer_expand with evbuffer_add, or references with                   *)
(* evbuffer_remove_buffer, and programs with callbacks that prepend, are   *)
(* in runs of their own.                                                   *)
(***************************************************************************)
EXTENDS Evbuffer

CONSTANTS b1, b2

Use(bufs, calls, sizes, max, cb, defer) ==
  [bufs |-> bufs, calls |-> calls, sizes |-> sizes, max |-> max, offsets |-> {0},
   cb |-> cb, defer |-> defer]

\* The buffers are alike.
Alike == Permutations({b1, b2})

Pairs ==
  { Use({b1, b2}, {"add", "prepend", "add_buffer", "prepend_buffer", "remove_buffer", "drain"},
        {1, 3}, 4, FALSE, FALSE),
    Use({b1, b2}, {"add", "reference", "sendfile", "mmap", "add_buffer", "write", "pullup"},
        {1, 3}, 4, TRUE, FALSE),
    Use({b1, b2}, {"read", "add_buffer", "drain"}, {1, 3}, 4, TRUE, FALSE),
    Use({b1, b2}, {"add", "drain", "add_buffer", "free"}, {1, 2}, 3, TRUE, TRUE) }

Singles(b) ==
  { Use({b}, {"add", "prepend", "drain", "pullup"}, {1, 2, 4}, 6, FALSE, FALSE),
    Use({b}, {"read", "reserve", "expand", "printf", "drain", "pullup"},
        {1, 3}, 6, TRUE, FALSE),
    Use({b}, {"add", "drain", "freeze", "free"}, {1, 3}, 4, TRUE, TRUE) }

Programs == Pairs \cup UNION {Singles(b) : b \in Buffer}

ReadAndAdd == {Use({b1}, {"read", "add"}, {1, 3}, 6, FALSE, FALSE)}
PrependTold == {Use({b1}, {"add", "prepend"}, {1, 3}, 6, TRUE, FALSE)}
===============================================================================
